----------------------------- MODULE Harvester -----------------------------
(***************************************************************************)
(* harvester.pl: the OAI-PMH harvester daemon, for one harvest source.     *)
(*                                                                         *)
(* Its memory between two harvests is the row of HarvestStatus (HS_time),  *)
(* the xm[ld] files it wrote, and the DataSet rows imported from them.     *)
(* A harvest asks for the records from the date of HS_time on, follows the *)
(* resumption tokens, and writes HS_time when it thinks it has seen all.   *)
(*                                                                         *)
(* The database handle is the cached one of Config::getDBH, shared with    *)
(* DatasetImporter: its transaction begins with the first statement after  *)
(* a commit or rollback, and SQL's now() is the begin of the transaction.  *)
(***************************************************************************)
EXTENDS OaiCommon

CONSTANTS
    Faults,      \* the faults that may happen, of AllFaults
    MaxFaults,   \* bound: how many of them happen in a behaviour
    Never        \* HS_time of a source that was never harvested

VARIABLES
    hpc,         \* what the harvester is doing
    hsTime,      \* HS_time
    txn,         \* the begin of the open transaction, or Never
    page,        \* the records of the current page not processed yet
    next,        \* the resumption token of the current page
    files,       \* what the xm[ld] file pairs hold
    rows,        \* the local DataSet rows
    faultsLeft   \* faults that may still happen

harvester == <<hpc, hsTime, txn, page, next, files, rows, faultsLeft>>
copies    == <<files, rows>>

\* down: no HTTP success; empty: success with an empty body; malformed: a body
\* that does not parse or validate; badRecord: a record the parser gives up on;
\* writeFails, importFails, statusFails: the local disk or database fails;
\* crash: the daemon is stopped; expired: the source refuses the token.
AllFaults == {"down", "empty", "malformed", "badRecord", "expired",
              "writeFails", "importFails", "statusFails", "crash"}

ASSUME HarvesterAssumption ==
    /\ Faults \subseteq AllFaults
    /\ MaxFaults \in Nat
    /\ Never \notin Time

Entries == [stamp : Time, status : {"active", "deleted"}]

\* A file pair that was created or truncated, and not written.
Torn == [stamp |-> 0, status |-> "torn"]

ASSUME EntryAssumption == Absent \notin Entries \cup {Torn}

HarvesterTypeOK ==
    /\ hpc \in {"idle", "first", "records", "import", "more"}
    /\ hsTime \in Time \cup {Never}
    /\ txn \in Time \cup {Never}
    /\ page \subseteq Records
    /\ files \in [Ids -> Entries \cup {Absent, Torn}]
    /\ rows \in [Ids -> Entries \cup {Absent}]
    /\ faultsLeft \in 0 .. MaxFaults

HarvesterInit ==
    /\ hpc = "idle"
    /\ hsTime = Never
    /\ txn = Never
    /\ page = {}
    /\ next = NoToken
    /\ files = [i \in Ids |-> Absent]
    /\ rows = [i \in Ids |-> Absent]
    /\ faultsLeft = MaxFaults
-----------------------------------------------------------------------------
\* Mutation: the day of HS_time is taken to be done with.
FromDayAfter == IF hsTime = Never THEN 0 ELSE StartOfDay(hsTime) + DayLength

\* The from argument: only the date of HS_time; without HS_time there is none.
From == IF hsTime = Never THEN 0 ELSE StartOfDay(hsTime)

Fault(f) ==
    /\ f \in Faults
    /\ faultsLeft > 0
    /\ faultsLeft' = faultsLeft - 1

NoFault == UNCHANGED faultsLeft

\* The source is done with: the loop ends and the handle is disconnected.
EndHarvest ==
    /\ hpc' = "idle"
    /\ txn' = Never
    /\ page' = {}
    /\ next' = NoToken

\* Mutation: the status is updated whatever happened.
GiveUpUpdating == EndHarvest /\ hsTime' = now

\* A die: the status in the database is left alone.
GiveUp == EndHarvest /\ UNCHANGED hsTime

\* updatestatus, reached whenever no exception was thrown.
UpdateStatus ==
    /\ EndHarvest
    /\ hsTime' = IF txn = Never THEN now ELSE txn

\* do_harvest reads HS_time and sends the first request.
StartHarvest ==
    /\ hpc = "idle"
    /\ hpc' = "first"
    /\ txn' = now
    /\ UNCHANGED <<hsTime, page, next, copies, faultsLeft>>

Waiting == hpc \in {"first", "more"}

(***************************************************************************)
(* getContentFromUrl succeeded and the body parses.  The error code        *)
(* noRecordsMatch ends the harvest as a success, any other by a die.       *)
(***************************************************************************)
Receive(response) ==
    /\ Waiting
    /\ UNCHANGED copies
    /\ \/ /\ response.code = "records"
          /\ hpc' = "records"
          /\ page' = response.records
          /\ next' = response.token
          /\ UNCHANGED <<hsTime, txn>>
       \/ /\ response.code = "noRecordsMatch"
          /\ UpdateStatus
       \/ /\ response.code \notin {"records", "noRecordsMatch"}
          /\ GiveUp

\* The request failed, or the body is not the XML expected.
BadResponse ==
    /\ Waiting
    /\ \E f \in {"down", "malformed"} : Fault(f)
    /\ GiveUp
    /\ UNCHANGED copies

\* An empty body does not parse as a first page; as a later one it ends the loop.
EmptyResponse ==
    /\ Waiting
    /\ Fault("empty")
    /\ IF hpc = "first" THEN GiveUp ELSE UpdateStatus
    /\ UNCHANGED copies

\* An active record without a DIF element is one process_DIF_records gives up on.
Unusable(r) == r.status = "active" /\ ~r.metadata

\* Mutation: deleted records are never written.
IgnoredIfDeleted(r) == r.status = "deleted"

\* A deleted record is only written over a file that exists.
Ignored(r) == r.status = "deleted" /\ files[r.id] = Absent

(***************************************************************************)
(* process_DIF_records, record by record.  On a record it cannot use it    *)
(* returns undef: the rest of the page is dropped, and so is the token.    *)
(***************************************************************************)
RejectRecord ==
    /\ hpc = "records" /\ page # {}
    /\ IF Unusable(First(page)) THEN NoFault ELSE Fault("badRecord")
    /\ UpdateStatus
    /\ UNCHANGED copies

SkipRecord ==
    /\ hpc = "records" /\ page # {}
    /\ ~Unusable(First(page)) /\ Ignored(First(page))
    /\ page' = page \ {First(page)}
    /\ UNCHANGED <<hpc, hsTime, txn, next, copies, faultsLeft>>

\* Mutation: a deleted record keeps the datestamp of the xmd template (1970).
EntryFromTemplate(r) ==
    [stamp |-> IF r.status = "deleted" THEN 0 ELSE r.stamp, status |-> r.status]

\* setInfo: what the xmd file gets from the header of the record.
Entry(r) == [stamp |-> r.stamp, status |-> r.status]

Write(r) ==
    /\ files' = [files EXCEPT ![r.id] = Entry(r)]
    /\ hpc' = "import"
    /\ NoFault
    /\ UNCHANGED <<hsTime, txn, page, next, rows>>

WriteFails(r) ==
    /\ Fault("writeFails")
    /\ files' \in {files, [files EXCEPT ![r.id] = Torn]}
    /\ UNCHANGED rows

Writing(r) ==
    /\ hpc = "records" /\ page # {} /\ r = First(page)
    /\ ~Unusable(r) /\ ~Ignored(r)

\* Mutation: a failure to write does not die.
WriteFileGoesOn ==
    \E r \in page :
        /\ Writing(r)
        /\ \/ Write(r)
           \/ /\ WriteFails(r)
              /\ hpc' = "import"
              /\ UNCHANGED <<hsTime, txn, page, next>>

\* writeToFile: the file pair first ...
WriteFile ==
    \E r \in page :
        /\ Writing(r)
        /\ \/ Write(r)
           \/ WriteFails(r) /\ GiveUp

\* ... then the database, in an eval whose error nobody looks at.  Commit and
\* rollback both end the transaction of the shared handle.
ImportFile ==
    LET r == First(page)
    IN  /\ hpc = "import"
        /\ \/ rows' = [rows EXCEPT ![r.id] = files[r.id]] /\ NoFault
           \/ UNCHANGED rows /\ Fault("importFails")
        /\ hpc' = "records"
        /\ page' = page \ {r}
        /\ txn' = Never
        /\ UNCHANGED <<hsTime, next, files>>

\* The page is done: go on with the token, or update the status.
FollowToken ==
    /\ hpc = "records" /\ page = {} /\ next # NoToken
    /\ hpc' = "more"
    /\ UNCHANGED <<hsTime, txn, page, next, copies, faultsLeft>>

FinishList ==
    /\ hpc = "records" /\ page = {} /\ next = NoToken
    /\ \/ UpdateStatus /\ NoFault
       \/ GiveUp /\ Fault("statusFails")
    /\ UNCHANGED copies

\* The daemon is stopped; files, rows and HS_time outlive it.
Crash ==
    /\ hpc # "idle"
    /\ Fault("crash")
    /\ GiveUp
    /\ UNCHANGED rows
    /\ \/ UNCHANGED files
       \/ /\ hpc = "records" /\ page # {}
          /\ ~Unusable(First(page)) /\ ~Ignored(First(page))
          /\ files' = [files EXCEPT ![First(page).id] = Torn]

\* What the harvester does on its own, without an answer of the source.
LocalStep ==
    \/ RejectRecord \/ SkipRecord \/ WriteFile \/ ImportFile \/ FinishList
    \/ BadResponse \/ EmptyResponse \/ Crash
=============================================================================
