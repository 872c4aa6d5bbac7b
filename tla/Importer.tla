------------------------------ MODULE Importer ------------------------------
(***************************************************************************)
(* Writing metadata: ForeignDataset::writeToFile, which writes the pair of *)
(* xmd and xml files of a dataset and then imports them into the index     *)
(* database with DatasetImporter::write_to_database, and import_dataset.pl,*)
(* which does the second only.                                             *)
(*                                                                         *)
(* Many processes do it at the same time (web server, workers, daemons,    *)
(* scripts).  The files are protected by flock, the database by a          *)
(* transaction at PostgreSQL's READ COMMITTED, and nothing protects the    *)
(* two together.  A statement sees what was committed when it began; a     *)
(* DELETE or a unique check that meets the uncommitted work of another     *)
(* transaction waits for the end of that one.                              *)
(***************************************************************************)
EXTENDS Naturals, FiniteSets

CONSTANTS
    Names,       \* DS_name of the datasets there may be
    ParentOf,    \* the name of the parent of a level 2 dataset, or NoName
    NoName,
    Versions,    \* what the files of a dataset may say
    Processes,
    Absent,      \* no such row or file
    Torn,        \* a file pair that was created or truncated, and not written
    Nobody,
    Faults,      \* the faults that may happen, of AllFaults
    MaxFaults,   \* bound: how many of them happen in a behaviour
    MaxId,       \* bound: the last ds_id of the sequence
    MaxWork      \* bound: how many jobs are begun in a behaviour

\* writeFails: a failing open, flock or truncate; statementFails: an error of the
\* database or of the transformation of the document; isoFails: a document that
\* has no ISO 19115 form; crash: the process ends.
AllFaults == {"writeFails", "statementFails", "isoFails", "crash"}

\* What of a version decides about the import: status active, and an ownertag of
\* SRU2JDBC_TAGS.
VersionRecords == [no : Nat, active : BOOLEAN, listed : BOOLEAN]

ASSUME ImporterAssumption ==
    /\ Names # {} /\ Versions # {}
    /\ Versions \subseteq VersionRecords
    /\ Absent \notin Versions /\ Torn \notin Versions /\ Absent # Torn
    /\ NoName \notin Names /\ Nobody \notin Processes
    /\ Faults \subseteq AllFaults
    /\ MaxFaults \in Nat /\ MaxId \in Nat /\ MaxWork \in Nat

\* The parent of a level 2 dataset is one of level 1.
ASSUME ParentAssumption ==
    /\ ParentOf \in [Names -> Names \cup {NoName}]
    /\ \A n \in Names : ParentOf[n] # NoName => ParentOf[ParentOf[n]] = NoName

VARIABLES
    files,       \* the file pair of a dataset
    holder,      \* who holds the exclusive locks of the pair
    index,       \* the committed DataSet rows with their metadata, by name
    sru,         \* the committed rows of sru.products
    oai,         \* the committed rows of OAIInfo
    nextId,      \* the sequence of ds_ids, which no rollback takes back
    pc,          \* where each process is
    job,         \* what it works on
    tx,          \* its transaction: what it read, deleted and inserted
    told,        \* what subscribers were told of
    hindered,    \* history: something got in the way of the work on a dataset
    begun,       \* number of jobs begun
    faultsLeft   \* faults that may still happen

database == <<index, sru, oai, nextId>>
vars == <<files, holder, database, pc, job, tx, told, hindered, begun, faultsLeft>>

Jobs == [name : Names, kind : {"write", "import"}, version : Versions]

NoJob == CHOOSE j \in Jobs : TRUE

\* metadata: the versions whose metadata are attached to the row (DS_Has_MD and
\* the other tables whose rows are deleted with that of DataSet).
IndexRows == [id : Nat \ {0}, parent : Nat, version : Versions, metadata : SUBSET Versions]

\* What the catalogue has of them.
Entries == [id : Nat \ {0}, parent : Nat, version : Versions]

ASSUME AbsentAssumption == Absent \notin IndexRows /\ Absent \notin Entries

\* gone: the committed row is deleted; added: the new one is inserted; product:
\* the row for sru.products, or none; keep: what is there is left alone.
Transactions ==
    [version : Versions \cup {Absent}, id : Nat, parent : Nat, gone : BOOLEAN,
     added : BOOLEAN, keep : BOOLEAN, product : Versions \cup {Absent}]

NoTx == [version |-> Absent, id |-> 0, parent |-> 0, gone |-> FALSE,
         added |-> FALSE, keep |-> TRUE, product |-> Absent]

AtFiles    == {"open", "lock", "write"}
AtDatabase == {"read", "dsid", "delete", "blocked", "parent", "insert", "extra", "commit"}

TypeOK ==
    /\ files \in [Names -> Versions \cup {Absent, Torn}]
    /\ holder \in [Names -> Processes \cup {Nobody}]
    /\ index \in [Names -> IndexRows \cup {Absent}]
    /\ sru \subseteq [id : Nat, version : Versions]
    /\ oai \subseteq [id : Nat, name : Names]
    /\ nextId \in Nat \ {0}
    /\ pc \in [Processes -> {"idle", "notify"} \cup AtFiles \cup AtDatabase]
    /\ job \in [Processes -> Jobs]
    /\ tx \in [Processes -> Transactions]
    /\ told \subseteq Names \X Versions
    /\ hindered \in [Names -> BOOLEAN]
    /\ begun \in Nat
    /\ faultsLeft \in Nat

Init ==
    /\ files = [n \in Names |-> Absent]
    /\ holder = [n \in Names |-> Nobody]
    /\ index = [n \in Names |-> Absent]
    /\ sru = {}
    /\ oai = {}
    /\ nextId = 1
    /\ pc = [p \in Processes |-> "idle"]
    /\ job = [p \in Processes |-> NoJob]
    /\ tx = [p \in Processes |-> NoTx]
    /\ told = {}
    /\ hindered = [n \in Names |-> FALSE]
    /\ begun = 0
    /\ faultsLeft = MaxFaults
-----------------------------------------------------------------------------
NameOf(p) == job[p].name

Active(n) == {p \in Processes : pc[p] # "idle" /\ NameOf(p) = n}

Others(p) == Active(NameOf(p)) \ {p}

Goto(p, label) == pc' = [pc EXCEPT ![p] = label]

\* A job begins: writeToFile is called, or import_dataset.pl has found a file.
Begin(p, j) ==
    /\ pc[p] = "idle" /\ begun < MaxWork
    /\ j.kind = "import" => files[j.name] # Absent
    /\ Goto(p, IF j.kind = "write" THEN "open" ELSE "read")
    /\ job' = [job EXCEPT ![p] = j]
    /\ hindered' = [hindered EXCEPT ![j.name] = Active(j.name) # {}]
    /\ begun' = begun + 1
    /\ UNCHANGED <<files, holder, database, tx, told, faultsLeft>>

Hinder(p) == hindered' = [hindered EXCEPT ![NameOf(p)] = TRUE]

Fault(p, f) ==
    /\ f \in Faults
    /\ faultsLeft > 0
    /\ faultsLeft' = faultsLeft - 1
    /\ Hinder(p)

NoFault == UNCHANGED <<hindered, faultsLeft>>

(***************************************************************************)
(* _writeToFileHelper.  sysopen creates the files, before they are locked. *)
(***************************************************************************)
OpenFiles(p) ==
    /\ pc[p] = "open"
    /\ files' = [files EXCEPT ![NameOf(p)] = IF @ = Absent THEN Torn ELSE @]
    /\ Goto(p, "lock")
    /\ NoFault
    /\ UNCHANGED <<holder, database, job, tx, told, begun>>

Unlocked(n) == holder[n] = Nobody

LockFiles(p) ==
    /\ pc[p] = "lock" /\ Unlocked(NameOf(p))
    /\ holder' = [holder EXCEPT ![NameOf(p)] = p]
    /\ files' = [files EXCEPT ![NameOf(p)] = Torn]
    /\ Goto(p, "write")
    /\ NoFault
    /\ UNCHANGED <<database, job, tx, told, begun>>

\* Mutation: the handles stay open.
WriteFilesHolding(p) ==
    /\ pc[p] = "write"
    /\ files' = [files EXCEPT ![NameOf(p)] = job[p].version]
    /\ Goto(p, "read")
    /\ NoFault
    /\ UNCHANGED <<holder, database, job, tx, told, begun>>

\* The handles are closed, and that releases the locks.
WriteFiles(p) ==
    /\ pc[p] = "write"
    /\ holder' = [holder EXCEPT ![NameOf(p)] = Nobody]
    /\ files' = [files EXCEPT ![NameOf(p)] = job[p].version]
    /\ Goto(p, "read")
    /\ NoFault
    /\ UNCHANGED <<database, job, tx, told, begun>>
-----------------------------------------------------------------------------
(***************************************************************************)
(* The end of a transaction.  A DELETE that waited for it deletes the row  *)
(* if it is still there; if it was replaced, it finds nothing to delete,   *)
(* for the new row is not in its snapshot.                                 *)
(***************************************************************************)
EndTx(p, label, waiters) ==
    /\ pc' = [q \in Processes |->
                IF q = p THEN label
                ELSE IF pc[q] = "blocked" /\ NameOf(q) = NameOf(p) THEN waiters
                ELSE pc[q]]
    /\ tx' = [tx EXCEPT ![p] = NoTx]
    /\ job' = [job EXCEPT ![p] = IF label = "idle" THEN NoJob ELSE @]

\* Subscriptions are of the children of a dataset, and import_dataset.pl has none.
ForSubscribers(p) == job[p].kind = "write" /\ ParentOf[NameOf(p)] # NoName

\* Mutation: subscribers are told whatever became of the import.
AbortTelling(p) ==
    /\ EndTx(p, IF ForSubscribers(p) THEN "notify" ELSE "idle",
             IF tx[p].gone THEN "delete" ELSE "blocked")
    /\ UNCHANGED <<files, database, told, begun>>

\* An exception: the transaction is rolled back and the job ends.  writeToFile
\* drops the error, import_dataset.pl logs it.
Abort(p) ==
    /\ EndTx(p, "idle", IF tx[p].gone THEN "delete" ELSE "blocked")
    /\ UNCHANGED <<files, database, told, begun>>

\* newFromFile: it waits for the locks, and dies on files it cannot parse.
ReadFiles(p) ==
    /\ pc[p] = "read" /\ Unlocked(NameOf(p))
    /\ IF files[NameOf(p)] \in Versions
       THEN /\ tx' = [tx EXCEPT ![p].version = files[NameOf(p)]]
            /\ Goto(p, "dsid")
            /\ NoFault
            /\ UNCHANGED <<files, holder, database, job, told, begun>>
       ELSE Abort(p) /\ Hinder(p) /\ UNCHANGED <<holder, faultsLeft>>

\* Mutation: the current value of the sequence, not its next one.
DsIdOfCurrval(p) == IF index[NameOf(p)] # Absent THEN index[NameOf(p)].id ELSE nextId - 1

\* _get_dsid: the ds_id of the row with this name, or the next of the sequence.
DsId(p) == IF index[NameOf(p)] # Absent THEN index[NameOf(p)].id ELSE nextId

GetDsId(p) ==
    /\ pc[p] = "dsid"
    /\ tx' = [tx EXCEPT ![p].id = DsId(p)]
    /\ DsId(p) <= MaxId
    /\ nextId' = IF DsId(p) = nextId THEN nextId + 1 ELSE nextId
    /\ Goto(p, "delete")
    /\ NoFault
    /\ UNCHANGED <<files, holder, index, sru, oai, job, told, begun>>

\* Another transaction has deleted the row, or inserted one with the same name.
Deleting(p)  == \E q \in Others(p) : tx[q].gone
Inserting(p) == \E q \in Others(p) : tx[q].added

RowToDelete(p) == index[NameOf(p)] # Absent /\ index[NameOf(p)].id = tx[p].id

\* _remove_old_metadata: what depends on the row goes with it.
DeleteOld(p) ==
    /\ pc[p] = "delete"
    /\ RowToDelete(p) => ~Deleting(p)
    /\ tx' = [tx EXCEPT ![p].gone = RowToDelete(p)]
    /\ Goto(p, "parent")
    /\ NoFault
    /\ UNCHANGED <<files, holder, database, job, told, begun>>

WaitForDelete(p) ==
    /\ pc[p] = "delete"
    /\ RowToDelete(p) /\ Deleting(p)
    /\ Goto(p, "blocked")
    /\ NoFault
    /\ UNCHANGED <<files, holder, database, job, tx, told, begun>>

\* _get_parent_id dies when the parent is not in the index.
GetParentId(p) ==
    LET parent == ParentOf[NameOf(p)]
    IN  /\ pc[p] = "parent"
        /\ IF parent # NoName /\ index[parent] = Absent
           THEN Abort(p) /\ Hinder(p) /\ UNCHANGED <<holder, faultsLeft>>
           ELSE /\ tx' = [tx EXCEPT ![p].parent =
                            IF parent = NoName THEN 0 ELSE index[parent].id]
                /\ Goto(p, "insert")
                /\ NoFault
                /\ UNCHANGED <<files, holder, database, job, told, begun>>

\* DS_name is UNIQUE and DS_id the PRIMARY KEY; the check waits for transactions
\* under way.  Rows of other tables are inserted for the new row only.
\* Mutation: DS_name is not unique.
UniqueViolationOfId(p) ==
    index[NameOf(p)] # Absent /\ ~tx[p].gone /\ index[NameOf(p)].id = tx[p].id

UniqueViolation(p) == index[NameOf(p)] # Absent /\ ~tx[p].gone

InsertRow(p) ==
    /\ pc[p] = "insert"
    /\ ~Deleting(p) /\ ~Inserting(p)
    /\ IF UniqueViolation(p)
       THEN Abort(p) /\ UNCHANGED holder
       ELSE /\ tx' = [tx EXCEPT ![p].added = TRUE]
            /\ Goto(p, IF ParentOf[NameOf(p)] = NoName THEN "extra" ELSE "commit")
            /\ UNCHANGED <<files, holder, database, job, told, begun>>
    /\ NoFault

(***************************************************************************)
(* _updateExtraSearch, for level 1 datasets: the files are read again, for *)
(* their ISO 19115 form, and need not say what they said before.  A product*)
(* is only looked after while the ownertag is one of SRU2JDBC_TAGS.        *)
(***************************************************************************)
OaiTaken(p) == \E r \in oai : r.name = NameOf(p) /\ r.id # tx[p].id

Product(p, iso) ==
    [tx[p] EXCEPT !.keep = ~tx[p].version.listed,
                  !.product = IF tx[p].version.listed /\ tx[p].version.active
                                 /\ iso # Absent /\ iso.active
                              THEN iso ELSE Absent]

ExtraSearch(p) ==
    LET n == NameOf(p)
    IN  /\ pc[p] = "extra" /\ Unlocked(n)
        /\ \/ /\ files[n] \in Versions /\ ~OaiTaken(p)
              /\ \/ tx' = [tx EXCEPT ![p] = Product(p, files[n])] /\ NoFault
                 \/ tx' = [tx EXCEPT ![p] = Product(p, Absent)] /\ Fault(p, "isoFails")
              /\ Goto(p, "commit")
              /\ UNCHANGED <<files, holder, database, job, told, begun>>
           \/ /\ files[n] \notin Versions \/ OaiTaken(p)
              /\ Abort(p) /\ Hinder(p) /\ UNCHANGED <<holder, faultsLeft>>

\* Mutation: what depended on the deleted row is not deleted with it.
NewRowKeepingMetadata(p) ==
    LET v == tx[p].version
        n == NameOf(p)
    IN  [id |-> tx[p].id, parent |-> tx[p].parent, version |-> v,
         metadata |-> (IF v.active THEN {v} ELSE {})
                         \cup (IF index[n] = Absent THEN {} ELSE index[n].metadata)]

\* _insert_metadata is only called for active datasets.
NewRow(p) ==
    LET v == tx[p].version
    IN  [id |-> tx[p].id, parent |-> tx[p].parent, version |-> v,
         metadata |-> IF v.active THEN {v} ELSE {}]

Commit(p) ==
    /\ pc[p] = "commit"
    /\ index' = [index EXCEPT ![NameOf(p)] = NewRow(p)]
    /\ sru' = IF tx[p].keep THEN sru
              ELSE {r \in sru : r.id # tx[p].id}
                      \cup [id : {tx[p].id}, version : {tx[p].product} \ {Absent}]
    /\ oai' = IF ParentOf[NameOf(p)] = NoName
              THEN oai \cup {[id |-> tx[p].id, name |-> NameOf(p)]} ELSE oai
    /\ EndTx(p, IF ForSubscribers(p) THEN "notify" ELSE "idle",
             IF tx[p].gone THEN "parent" ELSE "blocked")
    /\ NoFault
    /\ UNCHANGED <<files, holder, nextId, told, begun>>

\* The subscriptions of a level 2 dataset are activated for the files as they are
\* now; newFromFile dies when it cannot read them.
Notify(p) ==
    /\ pc[p] = "notify" /\ Unlocked(NameOf(p))
    /\ told' = told \cup ({NameOf(p)} \X ({files[NameOf(p)]} \cap Versions))
    /\ EndTx(p, "idle", "blocked")
    /\ NoFault
    /\ UNCHANGED <<files, holder, database, begun>>
-----------------------------------------------------------------------------
\* A failing sysopen or flock ends the job, and so does a failing truncate.
FilesFail(p) ==
    /\ pc[p] \in {"open", "lock"}
    /\ Fault(p, "writeFails")
    /\ files' \in {files} \cup
          (IF pc[p] = "lock" /\ Unlocked(NameOf(p))
           THEN {[files EXCEPT ![NameOf(p)] = Torn]} ELSE {})
    /\ EndTx(p, "idle", "blocked")
    /\ UNCHANGED <<holder, database, told, begun>>

\* A failure to write goes unnoticed: toFH and close are not checked.
WriteFails(p) ==
    /\ pc[p] = "write"
    /\ Fault(p, "writeFails")
    /\ holder' = [holder EXCEPT ![NameOf(p)] = Nobody]
    /\ Goto(p, "read")
    /\ UNCHANGED <<files, database, job, tx, told, begun>>

StatementFails(p) ==
    /\ pc[p] \in {"dsid", "delete", "parent", "insert", "extra", "commit"}
    /\ Fault(p, "statementFails")
    /\ Abort(p)
    /\ UNCHANGED holder

\* Files stay as they are, locks are released and transactions rolled back.
Crash(p) ==
    /\ pc[p] # "idle"
    /\ Fault(p, "crash")
    /\ holder' = [n \in Names |-> IF holder[n] = p THEN Nobody ELSE holder[n]]
    /\ Abort(p)

Work(p) ==
    \/ OpenFiles(p) \/ LockFiles(p) \/ WriteFiles(p)
    \/ ReadFiles(p) \/ GetDsId(p) \/ DeleteOld(p) \/ WaitForDelete(p)
    \/ GetParentId(p) \/ InsertRow(p) \/ ExtraSearch(p) \/ Commit(p) \/ Notify(p)

Failure(p) == FilesFail(p) \/ WriteFails(p) \/ StatementFails(p) \/ Crash(p)

Next ==
    \E p \in Processes :
        \/ \E j \in Jobs : Begin(p, j)
        \/ Work(p)
        \/ Failure(p)

Spec == Init /\ [][Next]_vars

\* A process goes on with its work, and gets a lock it waits for.
FairSpec == Spec /\ \A p \in Processes : SF_vars(Work(p))
-----------------------------------------------------------------------------
\* The committed rows are a catalogue.
Entry(row) == IF row = Absent THEN Absent
              ELSE [id |-> row.id, parent |-> row.parent, version |-> row.version]

Promise == INSTANCE Catalogue WITH
               entries <- [n \in Names |-> Entry(index[n])], DsIds <- 1 .. MaxId

(***************************************************************************)
(* write_to_database implements the catalogue, whatever processes, locks,  *)
(* failures and crashes do: rows are replaced in one step, with the ds_id  *)
(* _get_dsid found and the ds_id of a parent that is there.                *)
(***************************************************************************)
ImplementsCatalogue == Promise!CatalogueSpec

\* What the index has of dataset n is what its files say.
Mirrors(n) ==
    LET v == files[n]
    IN  /\ index[n] # Absent
        /\ index[n].version = v
        /\ index[n].metadata = (IF v.active THEN {v} ELSE {})
        /\ ParentOf[n] = NoName /\ v.listed =>
              {r.version : r \in {s \in sru : s.id = index[n].id}}
                 = (IF v.active THEN {v} ELSE {})

(***************************************************************************)
(* One writeToFile or import that nothing gets in the way of (no other     *)
(* work on the dataset at the same time, no fault, a parent in the index)  *)
(* makes rows, metadata and product those of the files, whatever went      *)
(* wrong before: nothing has to be repaired by hand.                       *)
(***************************************************************************)
UndisturbedImportsMirror ==
    \A n \in Names :
        Active(n) = {} /\ ~hindered[n] /\ files[n] \in Versions => Mirrors(n)

(***************************************************************************)
(* writeToFile tells subscribers only of datasets that are in the index    *)
(* (activate_subscription_handlers is called when the import succeeded).   *)
(***************************************************************************)
ToldOfIndexed == \A t \in told : index[t[1]] # Absent

(***************************************************************************)
(* An import that was begun ends: the waits of write_to_database and the   *)
(* file locks of _writeToFileHelper cannot wait for each other for ever.   *)
(***************************************************************************)
JobsEnd == \A p \in Processes : pc[p] # "idle" ~> pc[p] = "idle"
=============================================================================
