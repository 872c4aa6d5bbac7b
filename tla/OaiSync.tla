------------------------------ MODULE OaiSync ------------------------------
(***************************************************************************)
(* A METAMOD installation harvesting another one: the harvester as a       *)
(* client of the data provider, while the provider's catalogue is changed  *)
(* by the parts of METAMOD that write metadata.  Which datestamp a change  *)
(* gets is up to the part that makes it, and decides whether a harvester   *)
(* that asks for the records since the last harvest ever hears of it.      *)
(***************************************************************************)
EXTENDS OaiProvider, Harvester

CONSTANTS
    Writers,         \* which writers, of AllWriters, change a dataset
    QuietMidnight,   \* no harvest runs across midnight
    SetSpec,         \* the setSpec of the source in OAI_HARVEST_SOURCES
    DefaultTag       \* the ownertag of new datasets

VARIABLES
    digesting,       \* the info a running digest has taken for the dataset, or Absent
    changedAt,       \* history: when the row of a dataset was last imported
    astray           \* history: the ids the provider misled the harvester about

\* editor: the metadata editor and the questionnaire; digest: the digest of new
\* datasets; redigest: that of existing ones; manager: the dataset manager.
AllWriters == {"editor", "digest", "redigest", "manager"}

\* The harvester is one of the clients; others do not change what it sees.
harvesterClient == CHOOSE c \in Clients : TRUE

catalogue == <<ds, digesting, changedAt>>
syncVars  == <<now, catalogue, provider, history, harvester, astray>>

ASSUME SyncAssumption ==
    /\ Writers \in [Ids -> SUBSET AllWriters]
    /\ QuietMidnight \in BOOLEAN
    /\ DefaultTag \in Tags
    /\ SetSpec \in SetSpecs
    /\ Clients # {}

SyncTypeOK ==
    /\ TypeOK
    /\ HarvesterTypeOK
    /\ digesting \in [Ids -> Rows \cup {Absent}]
    /\ changedAt \in [Ids -> Time \cup {Never}]
    /\ astray \subseteq Ids

SyncInit ==
    /\ Init
    /\ HarvesterInit
    /\ digesting = [i \in Ids |-> Absent]
    /\ changedAt = [i \in Ids |-> Never]
    /\ astray = {}
-----------------------------------------------------------------------------
ImportChange(i, row) ==
    /\ Import(i, row)
    /\ changedAt' = [changedAt EXCEPT ![i] = now]
    /\ astray' = astray \ {i}
    /\ UNCHANGED harvester

NewInfo == [stamp |-> now, status |-> "active", tag |-> DefaultTag, valid |-> TRUE]

Info(i) == IF ds[i] = Absent THEN NewInfo ELSE ds[i]

\* The metadata editor sets the datestamp to the current time.
Edit(i, valid) ==
    /\ "editor" \in Writers[i]
    /\ ImportChange(i, [Info(i) EXCEPT !.stamp = now, !.valid = valid])
    /\ UNCHANGED digesting

\* A digest has parsed the data files and takes the info of the dataset: that of
\* its file, or, when it is new, the one with the current time ...
BeginDigest(i) ==
    /\ digesting[i] = Absent
    /\ (IF ds[i] = Absent THEN "digest" ELSE "redigest") \in Writers[i]
    /\ digesting' = [digesting EXCEPT ![i] = Info(i)]
    /\ UNCHANGED <<now, ds, changedAt, provider, history, harvester, astray>>

\* ... and writes it back with the metadata it has worked out.
EndDigest(i, valid) ==
    /\ digesting[i] # Absent
    /\ digesting' = [digesting EXCEPT ![i] = Absent]
    /\ ImportChange(i, [digesting[i] EXCEPT !.valid = valid])

\* The dataset manager changes status or ownertag, and no other info.
Manage(i, status, tag) ==
    /\ "manager" \in Writers[i]
    /\ ds[i] # Absent
    /\ ImportChange(i, [ds[i] EXCEPT !.status = status, !.tag = tag])
    /\ UNCHANGED digesting

Change ==
    \E i \in Ids, valid \in BOOLEAN :
        \/ Edit(i, valid)
        \/ BeginDigest(i)
        \/ EndDigest(i, valid)
        \/ \E status \in {"active", "deleted"}, tag \in Tags : Manage(i, status, tag)
-----------------------------------------------------------------------------
\* The copy of dataset i has the datestamp and the status of the dataset, invalid
\* metadata counting as deleted.
Mirrors(i) ==
    LET status == OaiRecord(i, "dif").status
    IN  \/ rows[i] = [stamp |-> ds[i].stamp, status |-> status]
        \/ status = "deleted" /\ rows[i] = Absent

(***************************************************************************)
(* The two ways of the provider to mislead a client: it presents a record  *)
(* of a later page as deleted that is not, and a list that shifts between  *)
(* two pages leaves out a record that was in it all the time.              *)
(***************************************************************************)
Misreported ==
    {r.id : r \in {s \in reply'[harvesterClient].records :
                     s.status # OaiRecord(s.id, "dif").status}}

SkippedOver ==
    {i \in stayed[harvesterClient] \ seen'[harvesterClient] :
        \E j \in moved[harvesterClient] : j < i}

NextQuery == [from |-> From, until |-> MaxTime, set |-> SetSpec]

Ask ==
    /\ StartHarvest
    /\ BeginWalk(harvesterClient, NextQuery)
    /\ UNCHANGED <<digesting, changedAt, astray>>

AskMore ==
    /\ FollowToken
    /\ Resume(harvesterClient)
    /\ UNCHANGED <<digesting, changedAt, astray>>

Count ==
    /\ Waiting
    /\ CountList(harvesterClient)
    /\ UNCHANGED <<digesting, changedAt, harvester, astray>>

Answer ==
    /\ RejectToken(harvesterClient) \/ FetchPage(harvesterClient)
    /\ Receive(reply'[harvesterClient])
    /\ NoFault
    /\ astray' = astray \cup Misreported
                   \cup (IF pc'[harvesterClient] = "complete" THEN SkippedOver ELSE {})
    /\ UNCHANGED <<digesting, changedAt>>

\* With the harvest its client is gone.  The token files stay.
Forget ==
    /\ pc' = [pc EXCEPT ![harvesterClient] = "idle"]
    /\ plan' = [plan EXCEPT ![harvesterClient] = NoPlan]
    /\ reply' = [reply EXCEPT ![harvesterClient] = Error("none")]
    /\ req' = [req EXCEPT ![harvesterClient] =
                  [prefix |-> "dif", query |-> NextQuery, token |-> NoToken]]
    /\ seen' = [seen EXCEPT ![harvesterClient] = {}]
    /\ repeated' = [repeated EXCEPT ![harvesterClient] = {}]
    /\ stayed' = [stayed EXCEPT ![harvesterClient] = {}]
    /\ moved' = [moved EXCEPT ![harvesterClient] = {}]
    /\ UNCHANGED tokens

Local ==
    /\ LocalStep
    /\ IF hpc' = "idle" THEN Forget ELSE UNCHANGED <<provider, history>>
    /\ UNCHANGED <<now, catalogue>>
    /\ astray' = {i \in astray : ~Mirrors(i)' \/ \E r \in page' : r.id = i}

SyncPassTime ==
    /\ Tick
    /\ QuietMidnight /\ hpc # "idle" => Day(now + 1) = Day(now)
    /\ UNCHANGED <<catalogue, provider, history, harvester, astray>>

SyncNext ==
    \/ Change
    \/ Ask \/ AskMore \/ Count \/ Answer
    \/ Local
    \/ SyncPassTime

SyncSpec == SyncInit /\ [][SyncNext]_syncVars
-----------------------------------------------------------------------------
Exported(i) == Exportable(ds[i]) /\ ds[i].tag \in TagsOfSet(SetSpec)

(***************************************************************************)
(* What was imported on the day of its datestamp and the next harvest will *)
(* not ask for, is already copied, unless the provider misled the          *)
(* harvester about it (_search_datasets, get_records).  So the only        *)
(* writers harvester.pl cannot follow are those that import a dataset with *)
(* a datestamp of an earlier day.                                          *)
(***************************************************************************)
SyncCheckpointSound ==
    \A i \in Ids \ astray :
        /\ Exported(i)
        /\ changedAt[i] # Never /\ Day(changedAt[i]) = Day(ds[i].stamp)
        /\ ~Matches(ds[i], NextQuery)
        => Mirrors(i)
=============================================================================
