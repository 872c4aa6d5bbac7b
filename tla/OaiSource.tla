----------------------------- MODULE OaiSource -----------------------------
(***************************************************************************)
(* The harvester and a harvest source that is not METAMOD: a repository    *)
(* that keeps to OAI-PMH, as harvester.pl expects it to.  Every change of  *)
(* a record gets the time of the change as its datestamp, a list is fixed  *)
(* when it is asked for, and its pages are cut as the source likes.        *)
(***************************************************************************)
EXTENDS Harvester

CONSTANT
    Token            \* the token of a page that is not the last

VARIABLES
    src,             \* the records of the source
    rest,            \* the ids of the list asked for that were not delivered yet
    asked,           \* history: when the last list was asked for
    lost             \* history: the ids passed over and not copied since

vars == <<now, harvester, src, rest, asked, lost>>

ASSUME SourceAssumption == Token # NoToken

TypeOK ==
    /\ now \in Time
    /\ HarvesterTypeOK
    /\ next \in {Token, NoToken}
    /\ src \in [Ids -> Entries \cup {Absent}]
    /\ rest \subseteq Ids
    /\ asked \in Time
    /\ lost \subseteq Ids

Init ==
    /\ now = 0
    /\ HarvesterInit
    /\ src = [i \in Ids |-> Absent]
    /\ rest = {}
    /\ asked = 0
    /\ lost = {}
-----------------------------------------------------------------------------
\* The copy of record i is what the source holds.  A deleted record has no copy,
\* when there was none to delete.
Mirrors(i) ==
    \/ src[i] = Absent
    \/ rows[i] = src[i]
    \/ src[i].status = "deleted" /\ rows[i] = Absent

(***************************************************************************)
(* The records the harvester passes over without noticing: one whose       *)
(* import fails; when HS_time moves on to another day, those of the list   *)
(* not processed when it was broken off, and those changed after the list  *)
(* was asked for and before that day.                                      *)
(***************************************************************************)
NotImported == {i \in Ids : i = First(page).id /\ rows'[i] # files[i]}

Unread == {i \in Ids : From' > From /\ (i \in rest \/ \E r \in page : r.id = i)}

ChangedMeanwhile == {i \in Ids : src[i] # Absent /\ src[i].stamp \in asked .. From' - 1}

\* Once copied, a record is not lost any more.
Lose(ids) == lost' = {i \in ids : ~Mirrors(i)'}

\* A record is created, changed, deleted or restored; the source is quiet at the
\* last instant.
Change(i, status) ==
    /\ now < MaxTime
    /\ src[i] = Absent => status = "active"
    /\ src' = [src EXCEPT ![i] = [stamp |-> now, status |-> status]]
    /\ lost' = lost \ {i}
    /\ UNCHANGED <<now, harvester, rest, asked>>

Listed(i) == src[i] # Absent /\ src[i].stamp >= From

Ask ==
    /\ StartHarvest
    /\ rest' = {i \in Ids : Listed(i)}
    /\ asked' = now
    /\ UNCHANGED <<now, src, lost>>

AskMore == FollowToken /\ UNCHANGED <<now, src, rest, asked, lost>>

RecordOf(i) ==
    [id |-> i, stamp |-> src[i].stamp, status |-> src[i].status,
     metadata |-> src[i].status = "active"]

\* A page: the ids of the rest up to one of them.
Deliver(last) ==
    LET ids == {i \in rest : i <= last}
    IN  /\ last \in rest
        /\ rest' = rest \ ids
        /\ Receive([code |-> "records", records |-> {RecordOf(i) : i \in ids},
                      token |-> IF rest' = {} THEN NoToken ELSE Token])
        /\ NoFault
        /\ UNCHANGED <<now, src, asked, lost>>

DeliverNothing ==
    /\ rest = {}
    /\ Receive(Error("noRecordsMatch"))
    /\ NoFault
    /\ UNCHANGED <<now, src, rest, asked>>
    /\ Lose(lost \cup ChangedMeanwhile)

\* The token expired while the harvester processed the page.
Expire ==
    /\ hpc = "more"
    /\ Receive(Error("badResumptionToken"))
    /\ Fault("expired")
    /\ UNCHANGED <<now, src, rest, asked, lost>>

Local ==
    /\ UNCHANGED <<now, src, rest, asked>>
    /\ \/ /\ RejectRecord \/ EmptyResponse
          /\ Lose(lost \cup Unread \cup ChangedMeanwhile)
       \/ ImportFile /\ Lose(lost \cup NotImported)
       \/ /\ SkipRecord \/ WriteFile \/ FinishList \/ BadResponse \/ Crash
          /\ Lose(lost \cup ChangedMeanwhile)

PassTime == Tick /\ UNCHANGED <<harvester, src, rest, asked, lost>>

Answer == \/ \E last \in rest : Deliver(last)
          \/ DeliverNothing

Next ==
    \/ \E i \in Ids, status \in {"active", "deleted"} : Change(i, status)
    \/ Ask \/ AskMore \/ Answer \/ Expire
    \/ Local
    \/ PassTime

Spec == Init /\ [][Next]_vars

(***************************************************************************)
(* POE::Component::Cron starts every harvest, the loop of do_harvest runs  *)
(* on, the source answers what it is asked, and time passes.               *)
(***************************************************************************)
Fairness ==
    /\ WF_vars(Ask) /\ WF_vars(AskMore) /\ WF_vars(Answer) /\ WF_vars(Local)
    /\ WF_vars(PassTime)

FairSpec == Spec /\ Fairness
-----------------------------------------------------------------------------
(***************************************************************************)
(* What the next harvest will not ask for, because its datestamp is of a   *)
(* day before the date of HS_time, is already copied as it is at the       *)
(* source.  This is what makes it right to harvest incrementally.          *)
(***************************************************************************)
CheckpointSound ==
    \A i \in Ids : src[i] # Absent /\ src[i].stamp < From => Mirrors(i)

(***************************************************************************)
(* Any failure do_harvest notices leaves HS_time alone, so CheckpointSound *)
(* fails for no other records than those passed over without notice: the   *)
(* rest of a list broken off by a record or an empty body, a record whose  *)
(* import failed, and a change that came between the request of a harvest  *)
(* and the midnight before its end.                                        *)
(***************************************************************************)
OnlyLostAreMissed ==
    \A i \in Ids \ lost : src[i] # Absent /\ src[i].stamp < From => Mirrors(i)

(***************************************************************************)
(* The local row of a record never goes back to an older state of the      *)
(* record: pages are processed in the order the source served them.        *)
(***************************************************************************)
CopyNeverRegresses ==
    [][\A i \in Ids : rows[i] # Absent =>
         rows'[i] # Absent /\ rows'[i].stamp >= rows[i].stamp]_rows

(***************************************************************************)
(* When the source has become quiet, repeated harvests make the local rows *)
(* equal to it and keep them so, whatever failed (finitely often) before;  *)
(* but a record that was passed over is not harvested again by itself.     *)
(***************************************************************************)
EventuallyMirrored == <>[](\A i \in Ids \ lost : Mirrors(i))
=============================================================================
