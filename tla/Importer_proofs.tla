-------------------------- MODULE Importer_proofs --------------------------
(***************************************************************************)
(* Proofs about the importer: for every set of datasets and processes, any *)
(* faults and any number of jobs, the committed rows are a catalogue, and  *)
(* what is done undisturbed makes them what the files say.                 *)
(***************************************************************************)
EXTENDS Importer, TLAPS

(***************************************************************************)
(* Type correctness.                                                       *)
(***************************************************************************)
LEMMA NoJobType == NoJob \in Jobs
<1>1. \E j : j \in Jobs
  <2>1. PICK n \in Names, v \in Versions : TRUE
    BY ImporterAssumption DEF ImporterAssumption
  <2>2. [name |-> n, kind |-> "write", version |-> v] \in Jobs
    BY <2>1 DEF Jobs
  <2>. QED
    BY <2>2
<1>. QED
  BY <1>1 DEF NoJob

LEMMA NoTxType == NoTx \in Transactions
  BY DEF NoTx, Transactions

LEMMA NameType ==
    ASSUME TypeOK, NEW p \in Processes
    PROVE  /\ NameOf(p) \in Names /\ job[p] \in Jobs /\ tx[p] \in Transactions
           /\ job[p].version \in Versions
  BY DEF TypeOK, NameOf, Jobs

Labels == {"idle", "notify"} \cup AtFiles \cup AtDatabase

LEMMA GotoType ==
    ASSUME TypeOK, NEW p \in Processes, NEW label \in Labels, Goto(p, label)
    PROVE  pc' \in [Processes -> Labels]
  BY DEF TypeOK, Goto, Labels

LEMMA EndTxType ==
    ASSUME TypeOK, NEW p \in Processes, NEW label \in Labels, NEW waiters \in Labels,
           EndTx(p, label, waiters)
    PROVE  /\ pc' \in [Processes -> Labels]
           /\ tx' \in [Processes -> Transactions]
           /\ job' \in [Processes -> Jobs]
<1>1. pc' \in [Processes -> Labels]
  BY DEF EndTx, TypeOK, Labels
<1>2. tx' \in [Processes -> Transactions]
  BY NoTxType DEF EndTx, TypeOK
<1>3. job' \in [Processes -> Jobs]
  BY NoJobType DEF EndTx, TypeOK
<1>. QED
  BY <1>1, <1>2, <1>3

LEMMA HistoryType ==
    ASSUME TypeOK, NEW p \in Processes
    PROVE  /\ Hinder(p) => hindered' \in [Names -> BOOLEAN]
           /\ NoFault => hindered' \in [Names -> BOOLEAN] /\ faultsLeft' \in Nat
           /\ \A f : Fault(p, f) => hindered' \in [Names -> BOOLEAN] /\ faultsLeft' \in Nat
<1>1. Hinder(p) => hindered' \in [Names -> BOOLEAN]
  BY DEF Hinder, TypeOK
<1>2. NoFault => hindered' \in [Names -> BOOLEAN] /\ faultsLeft' \in Nat
  BY DEF NoFault, TypeOK
<1>3. \A f : Fault(p, f) => faultsLeft' \in Nat
  BY DEF Fault, TypeOK
<1>4. \A f : Fault(p, f) => Hinder(p)
  BY DEF Fault
<1>. QED
  BY <1>1, <1>2, <1>3, <1>4

LEMMA AbortType ==
    ASSUME TypeOK, NEW p \in Processes, Abort(p), holder' \in [Names -> Processes \cup {Nobody}],
           hindered' \in [Names -> BOOLEAN], faultsLeft' \in Nat
    PROVE  TypeOK'
<1>1. EndTx(p, "idle", IF tx[p].gone THEN "delete" ELSE "blocked")
  BY DEF Abort
<1>2. "idle" \in Labels /\ (IF tx[p].gone THEN "delete" ELSE "blocked") \in Labels
  BY DEF Labels, AtDatabase
<1>3. /\ pc' \in [Processes -> Labels]
      /\ tx' \in [Processes -> Transactions]
      /\ job' \in [Processes -> Jobs]
  BY <1>1, <1>2, EndTxType
<1>. QED
  BY <1>3 DEF Abort, database, TypeOK, Labels

(***************************************************************************)
(* The invariant.  What a transaction has read and done, with respect to   *)
(* the committed rows and to the other transactions.                       *)
(***************************************************************************)
WithId == AtDatabase \ {"read", "dsid"}

ParentThere(n) == ParentOf[n] # NoName => index[ParentOf[n]] # Absent
ParentRow(n)   == IF ParentOf[n] = NoName THEN 0 ELSE index[ParentOf[n]].id

\* The version of files that could be read.
VersionInv(p) == pc[p] \in {"dsid"} \cup WithId => tx[p].version \in Versions

\* A ds_id of the sequence, which is no other dataset's.
IdInv(p) == pc[p] \in WithId =>
    /\ tx[p].id \in 1 .. MaxId /\ tx[p].id < nextId
    /\ \A m \in Names \ {NameOf(p)} : index[m] # Absent => index[m].id # tx[p].id

\* A deleted row is the committed one, and a row is inserted in its place only.
LockInv(p) ==
    /\ tx[p].gone =>
          /\ pc[p] \in {"parent", "insert", "extra", "commit"}
          /\ index[NameOf(p)] # Absent /\ index[NameOf(p)].id = tx[p].id
    /\ tx[p].added => index[NameOf(p)] = Absent \/ tx[p].gone
    /\ tx[p].added <=> pc[p] \in {"extra", "commit"}

ParentInv(p) == pc[p] \in {"insert", "extra", "commit"} =>
    ParentThere(NameOf(p)) /\ tx[p].parent = ParentRow(NameOf(p))

TxInv(p) == VersionInv(p) /\ IdInv(p) /\ LockInv(p) /\ ParentInv(p)

\* Two transactions: one at a time has a row locked, and ds_ids are not shared.
PairInv(p, q) ==
    IF NameOf(p) = NameOf(q)
    THEN ~ (tx[p].gone /\ tx[q].gone) /\ ~ (tx[p].added /\ (tx[q].added \/ tx[q].gone))
    ELSE pc[p] \in WithId /\ pc[q] \in WithId => tx[p].id # tx[q].id

RowInv(n) == index[n] # Absent =>
    /\ index[n].id \in 1 .. MaxId /\ index[n].id < nextId
    /\ ParentThere(n) /\ index[n].parent = ParentRow(n)
    /\ \A m \in Names \ {n} : index[m] # Absent => index[m].id # index[n].id

ImporterInv ==
    /\ \A p \in Processes : TxInv(p)
    /\ \A p, q \in Processes : p # q => PairInv(p, q)
    /\ \A n \in Names : RowInv(n)

LEMMA TypeStep ==
    ASSUME TypeOK, ImporterInv, [Next]_vars
    PROVE  TypeOK'
<1>1. ASSUME NEW p \in Processes, NEW j \in Jobs, Begin(p, j) PROVE TypeOK'
  <2>1. pc' \in [Processes -> Labels]
    <3>1. (IF j.kind = "write" THEN "open" ELSE "read") \in Labels
      BY DEF Labels, AtFiles, AtDatabase
    <3>. QED
      BY <1>1, <3>1, GotoType DEF Begin
  <2>2. hindered' \in [Names -> BOOLEAN]
    BY <1>1 DEF Begin, TypeOK
  <2>3. /\ UNCHANGED <<files, holder, database, tx, told, faultsLeft>>
        /\ job' = [job EXCEPT ![p] = j] /\ begun' = begun + 1
    BY <1>1, Zenon DEF Begin
  <2>. QED
    BY <2>1, <2>2, <2>3 DEF TypeOK, database, Labels
<1>2. ASSUME NEW p \in Processes, OpenFiles(p) PROVE TypeOK'
  <2>1. pc' \in [Processes -> Labels]
    BY <1>2, GotoType DEF OpenFiles, Labels, AtFiles
  <2>. QED
    BY <1>2, <2>1, HistoryType DEF OpenFiles, TypeOK, database, Labels
<1>3. ASSUME NEW p \in Processes, LockFiles(p) PROVE TypeOK'
  <2>1. pc' \in [Processes -> Labels]
    BY <1>3, GotoType DEF LockFiles, Labels, AtFiles
  <2>. QED
    BY <1>3, <2>1, HistoryType DEF LockFiles, TypeOK, database, Labels
<1>4. ASSUME NEW p \in Processes, WriteFiles(p) PROVE TypeOK'
  <2>1. pc' \in [Processes -> Labels]
    BY <1>4, GotoType DEF WriteFiles, Labels, AtDatabase
  <2>. QED
    BY <1>4, <2>1, NameType, HistoryType DEF WriteFiles, TypeOK, database, Labels
<1>5. ASSUME NEW p \in Processes, ReadFiles(p) PROVE TypeOK'
  <2>1. CASE files[NameOf(p)] \in Versions
    <3>1. pc' \in [Processes -> Labels]
      BY <1>5, <2>1, GotoType DEF ReadFiles, Labels, AtDatabase
    <3>2. tx' \in [Processes -> Transactions]
      BY <1>5, <2>1 DEF ReadFiles, TypeOK, Transactions
    <3>. QED
      BY <1>5, <2>1, <3>1, <3>2, HistoryType DEF ReadFiles, TypeOK, database, Labels
  <2>2. CASE files[NameOf(p)] \notin Versions
    BY <1>5, <2>2, HistoryType, AbortType DEF ReadFiles, TypeOK
  <2>. QED
    BY <2>1, <2>2
<1>6. ASSUME NEW p \in Processes, GetDsId(p) PROVE TypeOK'
  <2>1. pc' \in [Processes -> Labels]
    BY <1>6, GotoType DEF GetDsId, Labels, AtDatabase
  <2>2. DsId(p) \in Nat \ {0}
    BY NameType DEF DsId, TypeOK, IndexRows
  <2>3. tx' \in [Processes -> Transactions]
    <3>1. [tx[p] EXCEPT !.id = DsId(p)] \in Transactions
      BY <2>2, NameType DEF Transactions
    <3>2. tx' = [tx EXCEPT ![p] = [tx[p] EXCEPT !.id = DsId(p)]]
      BY <1>6, NameType DEF GetDsId, TypeOK
    <3>. QED
      BY <3>1, <3>2 DEF TypeOK
  <2>4. nextId' \in Nat \ {0}
    BY <1>6 DEF GetDsId, TypeOK
  <2>. QED
    BY <1>6, <2>1, <2>3, <2>4, HistoryType DEF GetDsId, TypeOK, Labels
<1>7. ASSUME NEW p \in Processes, DeleteOld(p) PROVE TypeOK'
  <2>1. pc' \in [Processes -> Labels]
    BY <1>7, GotoType DEF DeleteOld, Labels, AtDatabase
  <2>2. RowToDelete(p) \in BOOLEAN
    BY DEF RowToDelete
  <2>3. tx' \in [Processes -> Transactions]
    BY <1>7, <2>2 DEF DeleteOld, TypeOK, Transactions
  <2>. QED
    BY <1>7, <2>1, <2>3, HistoryType DEF DeleteOld, TypeOK, database, Labels
<1>8. ASSUME NEW p \in Processes, WaitForDelete(p) PROVE TypeOK'
  <2>1. pc' \in [Processes -> Labels]
    BY <1>8, GotoType DEF WaitForDelete, Labels, AtDatabase
  <2>. QED
    BY <1>8, <2>1, HistoryType DEF WaitForDelete, TypeOK, database, Labels
<1>9. ASSUME NEW p \in Processes, GetParentId(p) PROVE TypeOK'
  <2>. DEFINE parent == ParentOf[NameOf(p)]
  <2>1. CASE parent # NoName /\ index[parent] = Absent
    BY <1>9, <2>1, HistoryType, AbortType DEF GetParentId, TypeOK
  <2>2. CASE ~ (parent # NoName /\ index[parent] = Absent)
    <3>1. pc' \in [Processes -> Labels]
      BY <1>9, <2>2, GotoType DEF GetParentId, Labels, AtDatabase
    <3>2. (IF parent = NoName THEN 0 ELSE index[parent].id) \in Nat
      <4>1. parent = NoName \/ index[parent] \in IndexRows
        BY <2>2, NameType, ParentAssumption DEF TypeOK, ParentAssumption
      <4>. QED
        BY <4>1 DEF IndexRows
    <3>3. tx' \in [Processes -> Transactions]
      BY <1>9, <2>2, <3>2 DEF GetParentId, TypeOK, Transactions
    <3>. QED
      BY <1>9, <2>2, <3>1, <3>3, HistoryType DEF GetParentId, TypeOK, database, Labels
  <2>. QED
    BY <2>1, <2>2
<1>10. ASSUME NEW p \in Processes, InsertRow(p) PROVE TypeOK'
  <2>1. CASE UniqueViolation(p)
    BY <1>10, <2>1, HistoryType, AbortType DEF InsertRow, TypeOK
  <2>2. CASE ~UniqueViolation(p)
    <3>1. pc' \in [Processes -> Labels]
      <4>1. (IF ParentOf[NameOf(p)] = NoName THEN "extra" ELSE "commit") \in Labels
        BY DEF Labels, AtDatabase
      <4>. QED
        BY <1>10, <2>2, <4>1, GotoType DEF InsertRow
    <3>2. tx' \in [Processes -> Transactions]
      <4>1. [tx[p] EXCEPT !.added = TRUE] \in Transactions
        BY NameType DEF Transactions
      <4>2. tx' = [tx EXCEPT ![p] = [tx[p] EXCEPT !.added = TRUE]]
        BY <1>10, <2>2, NameType DEF InsertRow, TypeOK
      <4>. QED
        BY <4>1, <4>2 DEF TypeOK
    <3>. QED
      BY <1>10, <2>2, <3>1, <3>2, HistoryType DEF InsertRow, TypeOK, database, Labels
  <2>. QED
    BY <2>1, <2>2
<1>11. ASSUME NEW p \in Processes, ExtraSearch(p) PROVE TypeOK'
  <2>. DEFINE n == NameOf(p)
  <2>1. CASE Abort(p) /\ Hinder(p) /\ UNCHANGED <<holder, faultsLeft>>
    BY <2>1, HistoryType, AbortType DEF TypeOK
  <2>2. CASE /\ files[n] \in Versions
             /\ \/ tx' = [tx EXCEPT ![p] = Product(p, files[n])] /\ NoFault
                \/ tx' = [tx EXCEPT ![p] = Product(p, Absent)] /\ Fault(p, "isoFails")
             /\ Goto(p, "commit")
             /\ UNCHANGED <<files, holder, database, job, told, begun>>
    <3>1. pc' \in [Processes -> Labels]
      BY <2>2, GotoType DEF Labels, AtDatabase
    <3>2. tx[p] \in Transactions
      BY NameType
    <3>3. pc[p] = "extra"
      BY <1>11 DEF ExtraSearch
    <3>4. \A iso \in Versions \cup {Absent} : Product(p, iso) \in Transactions
      <4>. SUFFICES ASSUME NEW iso \in Versions \cup {Absent}
                    PROVE  Product(p, iso) \in Transactions
        OBVIOUS
      <4>. DEFINE new == IF tx[p].version.listed /\ tx[p].version.active
                            /\ iso # Absent /\ iso.active
                         THEN iso ELSE Absent
                  keep == ~tx[p].version.listed
      <4>1. new \in Versions \cup {Absent} /\ keep \in BOOLEAN
        OBVIOUS
      <4>2. Product(p, iso) = [tx[p] EXCEPT !.keep = keep, !.product = new]
        BY DEF Product
      <4>. HIDE DEF new, keep
      <4>. QED
        BY <3>2, <4>1, <4>2 DEF Transactions
    <3>5. tx' \in [Processes -> Transactions]
      BY <2>2, <3>4 DEF TypeOK
    <3>. QED
      BY <2>2, <3>1, <3>5, HistoryType DEF TypeOK, database, Labels
  <2>. QED
    BY <1>11, <2>1, <2>2 DEF ExtraSearch
<1>12. ASSUME NEW p \in Processes, Commit(p) PROVE TypeOK'
  <2>. DEFINE label == IF ForSubscribers(p) THEN "notify" ELSE "idle"
              waiters == IF tx[p].gone THEN "parent" ELSE "blocked"
  <2>1. EndTx(p, label, waiters) /\ label \in Labels /\ waiters \in Labels
    BY <1>12 DEF Commit, Labels, AtDatabase
  <2>2. /\ pc' \in [Processes -> Labels]
        /\ tx' \in [Processes -> Transactions]
        /\ job' \in [Processes -> Jobs]
    BY <2>1, EndTxType
  <2>3. NameOf(p) \in Names /\ tx[p] \in Transactions
    BY NameType
  <2>4. tx[p].id \in Nat /\ tx[p].parent \in Nat /\ tx[p].version \in Versions \cup {Absent}
        /\ tx[p].product \in Versions \cup {Absent}
    BY <2>3 DEF Transactions
  <2>5. index' \in [Names -> IndexRows \cup {Absent}]
    <3>1. pc[p] = "commit" /\ TxInv(p)
      BY <1>12 DEF Commit, ImporterInv
    <3>2. tx[p].id \in Nat \ {0} /\ tx[p].version \in Versions
      BY <2>4, <3>1, ImporterAssumption
      DEF TxInv, IdInv, VersionInv, WithId, AtDatabase, ImporterAssumption
    <3>3. NewRow(p) \in IndexRows
      BY <2>4, <3>2 DEF NewRow, IndexRows
    <3>. QED
      BY <1>12, <2>3, <3>3 DEF Commit, TypeOK
  <2>6. sru' \subseteq [id : Nat, version : Versions]
    BY <1>12, <2>4 DEF Commit, TypeOK
  <2>7. oai' \subseteq [id : Nat, name : Names]
    BY <1>12, <2>3, <2>4 DEF Commit, TypeOK
  <2>. QED
    BY <1>12, <2>2, <2>5, <2>6, <2>7, HistoryType DEF Commit, TypeOK, Labels
<1>13. ASSUME NEW p \in Processes, Notify(p) PROVE TypeOK'
  <2>1. /\ pc' \in [Processes -> Labels]
        /\ tx' \in [Processes -> Transactions]
        /\ job' \in [Processes -> Jobs]
    BY <1>13, EndTxType DEF Notify, Labels, AtDatabase
  <2>. QED
    BY <1>13, <2>1, NameType, HistoryType DEF Notify, TypeOK, database, Labels
<1>14. ASSUME NEW p \in Processes, FilesFail(p) PROVE TypeOK'
  <2>1. /\ pc' \in [Processes -> Labels]
        /\ tx' \in [Processes -> Transactions]
        /\ job' \in [Processes -> Jobs]
    BY <1>14, EndTxType DEF FilesFail, Labels, AtDatabase
  <2>2. files' \in [Names -> Versions \cup {Absent, Torn}]
    BY <1>14 DEF FilesFail, TypeOK
  <2>. QED
    BY <1>14, <2>1, <2>2, HistoryType DEF FilesFail, TypeOK, database, Labels
<1>15. ASSUME NEW p \in Processes, WriteFails(p) PROVE TypeOK'
  <2>1. pc' \in [Processes -> Labels]
    BY <1>15, GotoType DEF WriteFails, Labels, AtDatabase
  <2>. QED
    BY <1>15, <2>1, HistoryType DEF WriteFails, TypeOK, database, Labels
<1>16. ASSUME NEW p \in Processes, StatementFails(p) PROVE TypeOK'
  BY <1>16, HistoryType, AbortType DEF StatementFails, TypeOK
<1>17. ASSUME NEW p \in Processes, Crash(p) PROVE TypeOK'
  <2>1. holder' \in [Names -> Processes \cup {Nobody}]
    BY <1>17 DEF Crash, TypeOK
  <2>. QED
    BY <1>17, <2>1, HistoryType, AbortType DEF Crash
<1>18. CASE UNCHANGED vars
  BY <1>18 DEF vars, database, TypeOK
<1>. QED
  BY <1>1, <1>2, <1>3, <1>4, <1>5, <1>6, <1>7, <1>8, <1>9, <1>10, <1>11, <1>12, <1>13,
     <1>14, <1>15, <1>16, <1>17, <1>18 DEF Next, Work, Failure
(***************************************************************************)
(* A step of p leaves the work of the others alone, but for waits it ends. *)
(***************************************************************************)
OthersGoOn(p) ==
    \A q \in Processes \ {p} :
        /\ job'[q] = job[q] /\ tx'[q] = tx[q]
        /\ pc'[q] = pc[q] \/ (pc[q] = "blocked" /\ pc'[q] \in {"delete", "parent"})

LEMMA GotoOthers ==
    ASSUME TypeOK, NEW p \in Processes, NEW label, Goto(p, label)
    PROVE  /\ pc'[p] = label
           /\ \A q \in Processes \ {p} : pc'[q] = pc[q]
  BY DEF Goto, TypeOK

LEMMA EndTxOthers ==
    ASSUME TypeOK, NEW p \in Processes, NEW label,
           NEW waiters \in {"delete", "parent", "blocked"}, EndTx(p, label, waiters)
    PROVE  OthersGoOn(p) /\ pc'[p] = label /\ tx'[p] = NoTx
  BY DEF EndTx, OthersGoOn, TypeOK

\* Nothing is committed: the invariant is that of p itself and of p with the others.
LEMMA StepOf ==
    ASSUME TypeOK, ImporterInv, NEW p \in Processes, OthersGoOn(p),
           index' = index, nextId' \in Nat, nextId' >= nextId, TxInv(p)',
           \A q \in Processes \ {p} : PairInv(p, q)' /\ PairInv(q, p)'
    PROVE  ImporterInv'
<1>1. ASSUME NEW q \in Processes, q # p PROVE TxInv(q)'
  <2>1. TxInv(q)
    BY DEF ImporterInv
  <2>2. tx'[q] = tx[q] /\ NameOf(q)' = NameOf(q)
        /\ (pc'[q] = pc[q] \/ (pc[q] = "blocked" /\ pc'[q] \in {"delete", "parent"}))
    BY <1>1 DEF OthersGoOn, NameOf
  <2>3. tx[q].id \in Nat /\ tx[q].added \in BOOLEAN /\ tx[q].gone \in BOOLEAN
        /\ nextId \in Nat
    BY DEF TypeOK, Transactions
  <2>4. VersionInv(q)'
    BY <2>1, <2>2 DEF TxInv, VersionInv, WithId, AtDatabase
  <2>5. IdInv(q)'
    BY <2>1, <2>2, <2>3 DEF TxInv, IdInv, WithId, AtDatabase
  <2>6. LockInv(q)'
    BY <2>1, <2>2, <2>3 DEF TxInv, LockInv
  <2>7. ParentInv(q)'
    BY <2>1, <2>2 DEF TxInv, ParentInv, ParentThere, ParentRow
  <2>. QED
    BY <2>4, <2>5, <2>6, <2>7 DEF TxInv
<1>2. ASSUME NEW q \in Processes, NEW r \in Processes, q # p, r # p, q # r
      PROVE  PairInv(q, r)'
  <2>1. PairInv(q, r)
    BY <1>2 DEF ImporterInv
  <2>2. \A s \in {q, r} :
          /\ tx'[s] = tx[s] /\ NameOf(s)' = NameOf(s)
          /\ pc'[s] \in WithId => pc[s] \in WithId
    BY <1>2 DEF OthersGoOn, NameOf, WithId, AtDatabase
  <2>. QED
    BY <2>1, <2>2 DEF PairInv
<1>3. ASSUME NEW n \in Names PROVE RowInv(n)'
  <2>1. RowInv(n)
    BY DEF ImporterInv
  <2>2. index[n] = Absent \/ index[n].id \in Nat
    BY DEF TypeOK, IndexRows
  <2>. QED
    BY <2>1, <2>2 DEF RowInv, ParentThere, ParentRow, TypeOK
<1>. QED
  BY <1>1, <1>2, <1>3 DEF ImporterInv

\* A job that holds nothing in the database cannot disturb it.
LEMMA IdleStep ==
    ASSUME TypeOK, ImporterInv, NEW p \in Processes, OthersGoOn(p),
           index' = index, nextId' = nextId,
           pc'[p] \in {"idle", "notify", "read"} \cup AtFiles,
           ~tx'[p].gone, ~tx'[p].added
    PROVE  ImporterInv'
<1>1. TxInv(p)'
  BY DEF TxInv, VersionInv, IdInv, LockInv, ParentInv, WithId, AtFiles, AtDatabase
<1>2. \A q \in Processes \ {p} : PairInv(p, q)' /\ PairInv(q, p)'
  BY DEF PairInv, WithId, AtFiles, AtDatabase
<1>3. nextId' \in Nat /\ nextId' >= nextId
  BY DEF TypeOK
<1>. QED
  BY <1>1, <1>2, <1>3, StepOf

LEMMA HoldsNothing ==
    ASSUME TypeOK, ImporterInv, NEW p \in Processes, pc[p] \notin {"parent", "insert", "extra", "commit"}
    PROVE  ~tx[p].gone /\ ~tx[p].added
  BY DEF ImporterInv, TxInv, LockInv

LEMMA EndInv ==
    ASSUME TypeOK, ImporterInv, NEW p \in Processes, NEW label \in {"idle", "notify"},
           NEW waiters \in {"delete", "parent", "blocked"}, EndTx(p, label, waiters),
           UNCHANGED database
    PROVE  ImporterInv'
<1>1. OthersGoOn(p) /\ pc'[p] = label /\ tx'[p] = NoTx
  BY EndTxOthers
<1>2. ~NoTx.gone /\ ~NoTx.added
  BY DEF NoTx
<1>. QED
  BY <1>1, <1>2, IdleStep DEF database

LEMMA AbortInv ==
    ASSUME TypeOK, ImporterInv, NEW p \in Processes, Abort(p)
    PROVE  ImporterInv'
<1>1. (IF tx[p].gone THEN "delete" ELSE "blocked") \in {"delete", "parent", "blocked"}
  OBVIOUS
<1>2. EndTx(p, "idle", IF tx[p].gone THEN "delete" ELSE "blocked") /\ UNCHANGED database
  BY DEF Abort
<1>. QED
  BY <1>1, <1>2, EndInv

\* The steps of writeToFile before the import.
LEMMA FileStep ==
    ASSUME TypeOK, ImporterInv, NEW p \in Processes, pc[p] \in {"idle"} \cup AtFiles,
           NEW label \in {"read"} \cup AtFiles, Goto(p, label),
           UNCHANGED <<database, tx>>, \A q \in Processes \ {p} : job'[q] = job[q]
    PROVE  ImporterInv'
<1>1. OthersGoOn(p) /\ pc'[p] = label
  BY GotoOthers DEF OthersGoOn
<1>2. ~tx[p].gone /\ ~tx[p].added
  BY HoldsNothing DEF AtFiles
<1>. QED
  BY <1>1, <1>2, IdleStep DEF database

LEMMA ReadStep ==
    ASSUME TypeOK, ImporterInv, NEW p \in Processes, ReadFiles(p)
    PROVE  ImporterInv'
<1>1. CASE files[NameOf(p)] \in Versions
  <2>1. /\ pc[p] = "read" /\ Goto(p, "dsid") /\ UNCHANGED <<database, job>>
        /\ tx' = [tx EXCEPT ![p].version = files[NameOf(p)]]
    BY <1>1 DEF ReadFiles
  <2>2. OthersGoOn(p) /\ pc'[p] = "dsid"
    BY <2>1, GotoOthers DEF OthersGoOn, TypeOK
  <2>3. ~tx[p].gone /\ ~tx[p].added
    BY <2>1, HoldsNothing
  <2>4. tx'[p] = [tx[p] EXCEPT !.version = files[NameOf(p)]]
    BY <2>1 DEF TypeOK
  <2>5. tx'[p].version \in Versions /\ ~tx'[p].gone /\ ~tx'[p].added
    BY <1>1, <2>3, <2>4, NameType DEF Transactions
  <2>6. TxInv(p)'
    BY <2>2, <2>5 DEF TxInv, VersionInv, IdInv, LockInv, ParentInv, WithId, AtDatabase
  <2>7. \A q \in Processes \ {p} : PairInv(p, q)' /\ PairInv(q, p)'
    BY <2>2, <2>5 DEF PairInv, WithId, AtDatabase
  <2>8. index' = index /\ nextId' \in Nat /\ nextId' >= nextId
    BY <2>1 DEF database, TypeOK
  <2>. QED
    BY <2>2, <2>6, <2>7, <2>8, StepOf
<1>2. CASE files[NameOf(p)] \notin Versions
  BY <1>2, AbortInv DEF ReadFiles
<1>. QED
  BY <1>1, <1>2

LEMMA DsIdStep ==
    ASSUME TypeOK, ImporterInv, NEW p \in Processes, GetDsId(p)
    PROVE  ImporterInv'
<1>. DEFINE n == NameOf(p)
<1>1. /\ pc[p] = "dsid" /\ Goto(p, "delete") /\ UNCHANGED <<index, job>>
      /\ tx' = [tx EXCEPT ![p].id = DsId(p)] /\ DsId(p) <= MaxId
      /\ nextId' = IF DsId(p) = nextId THEN nextId + 1 ELSE nextId
  BY DEF GetDsId
<1>2. OthersGoOn(p) /\ pc'[p] = "delete" /\ NameOf(p)' = n
  BY <1>1, GotoOthers DEF OthersGoOn, TypeOK, NameOf
<1>3. ~tx[p].gone /\ ~tx[p].added /\ tx[p].version \in Versions
  BY <1>1, HoldsNothing DEF ImporterInv, TxInv, VersionInv
<1>4. tx'[p] = [tx[p] EXCEPT !.id = DsId(p)]
  BY <1>1 DEF TypeOK
<1>5. tx'[p].id = DsId(p) /\ tx'[p].version = tx[p].version
      /\ ~tx'[p].gone /\ ~tx'[p].added
  BY <1>3, <1>4, NameType DEF Transactions
<1>6. n \in Names /\ nextId \in Nat \ {0}
  BY NameType DEF TypeOK
\* The ds_id of the row, or one that no row and no transaction has.
<1>7. /\ DsId(p) \in Nat \ {0} /\ DsId(p) < nextId' /\ nextId' \in Nat /\ nextId' >= nextId
      /\ \A m \in Names \ {n} : index[m] # Absent => index[m].id # DsId(p)
  <2>1. \A m \in Names : index[m] # Absent =>
          /\ index[m].id \in Nat \ {0} /\ index[m].id < nextId
          /\ \A k \in Names \ {m} : index[k] # Absent => index[k].id # index[m].id
    BY DEF ImporterInv, RowInv, TypeOK, IndexRows
  <2>2. CASE index[n] # Absent
    <3>1. DsId(p) = index[n].id /\ DsId(p) # nextId
      BY <1>6, <2>1, <2>2 DEF DsId
    <3>. QED
      BY <1>1, <1>6, <2>1, <2>2, <3>1
  <2>3. CASE index[n] = Absent
    <3>1. DsId(p) = nextId
      BY <2>3 DEF DsId
    <3>. QED
      BY <1>1, <1>6, <2>1, <3>1
  <2>. QED
    BY <2>2, <2>3
<1>8. TxInv(p)'
  <2>1. IdInv(p)'
    BY <1>1, <1>2, <1>5, <1>7, ImporterAssumption DEF IdInv, ImporterAssumption
  <2>. QED
    BY <1>2, <1>3, <1>5, <2>1
    DEF TxInv, VersionInv, LockInv, ParentInv, WithId, AtDatabase
<1>9. ASSUME NEW q \in Processes \ {p} PROVE PairInv(p, q)' /\ PairInv(q, p)'
  <2>1. tx'[q] = tx[q] /\ NameOf(q)' = NameOf(q) /\ (pc'[q] \in WithId => pc[q] \in WithId)
    BY <1>2 DEF OthersGoOn, NameOf, WithId, AtDatabase
  <2>2. CASE NameOf(q) = n
    BY <1>2, <1>5, <2>1, <2>2 DEF PairInv
  <2>3. CASE NameOf(q) # n
    <3>1. pc[q] \in WithId => tx[q].id # DsId(p)
      <4>1. pc[q] \in WithId => tx[q].id \in Nat /\ tx[q].id < nextId
        BY DEF ImporterInv, TxInv, IdInv, TypeOK, Transactions
      <4>2. pc[q] \in WithId /\ index[n] # Absent => index[n].id # tx[q].id
        BY <1>6, <2>3 DEF ImporterInv, TxInv, IdInv
      <4>. QED
        BY <1>6, <4>1, <4>2 DEF DsId
    <3>. QED
      BY <1>2, <1>5, <2>1, <2>3, <3>1 DEF PairInv
  <2>. QED
    BY <2>2, <2>3
<1>. QED
  BY <1>1, <1>2, <1>7, <1>8, <1>9, StepOf

\* What the steps after _get_dsid have in common: the ds_id stays as it is.
LEMMA KeepsId ==
    ASSUME TypeOK, ImporterInv, NEW p \in Processes, pc[p] \in WithId, OthersGoOn(p),
           index' = index, nextId' = nextId, job' = job,
           tx'[p].id = tx[p].id, tx'[p].version = tx[p].version
    PROVE  /\ VersionInv(p)' /\ IdInv(p)' /\ NameOf(p)' = NameOf(p)
           /\ \A q \in Processes \ {p} : NameOf(q) # NameOf(p) => PairInv(p, q)' /\ PairInv(q, p)'
           /\ nextId' \in Nat /\ nextId' >= nextId
<1>1. NameOf(p)' = NameOf(p)
  BY DEF NameOf
<1>2. VersionInv(p) /\ IdInv(p)
  BY DEF ImporterInv, TxInv
<1>3. VersionInv(p)' /\ IdInv(p)'
  BY <1>1, <1>2 DEF VersionInv, IdInv
<1>4. ASSUME NEW q \in Processes \ {p}, NameOf(q) # NameOf(p)
      PROVE  PairInv(p, q)' /\ PairInv(q, p)'
  <2>1. PairInv(p, q) /\ PairInv(q, p)
    BY DEF ImporterInv
  <2>2. tx'[q] = tx[q] /\ NameOf(q)' = NameOf(q) /\ (pc'[q] \in WithId => pc[q] \in WithId)
    BY DEF OthersGoOn, NameOf, WithId, AtDatabase
  <2>. QED
    BY <1>1, <1>4, <2>1, <2>2 DEF PairInv
<1>. QED
  BY <1>1, <1>3, <1>4 DEF TypeOK

\* The work of the others on the same dataset.
LEMMA SameOthers ==
    ASSUME TypeOK, NEW p \in Processes, OthersGoOn(p), NameOf(p)' = NameOf(p),
           NEW q \in Processes \ {p}
    PROVE  tx'[q] = tx[q] /\ NameOf(q)' = NameOf(q)
  BY DEF OthersGoOn, NameOf

LEMMA DeleteStep ==
    ASSUME TypeOK, ImporterInv, NEW p \in Processes, DeleteOld(p)
    PROVE  ImporterInv'
<1>1. /\ pc[p] = "delete" /\ Goto(p, "parent") /\ UNCHANGED <<database, job>>
      /\ tx' = [tx EXCEPT ![p].gone = RowToDelete(p)]
      /\ RowToDelete(p) => ~Deleting(p)
  BY DEF DeleteOld
<1>2. OthersGoOn(p) /\ pc'[p] = "parent"
  BY <1>1, GotoOthers DEF OthersGoOn, TypeOK
<1>3. ~tx[p].added
  BY <1>1, HoldsNothing
<1>4. tx'[p] = [tx[p] EXCEPT !.gone = RowToDelete(p)]
  BY <1>1 DEF TypeOK
<1>5. tx'[p].id = tx[p].id /\ tx'[p].version = tx[p].version
      /\ tx'[p].gone = RowToDelete(p) /\ ~tx'[p].added
  BY <1>3, <1>4, NameType DEF Transactions
<1>6. index' = index /\ nextId' = nextId /\ job' = job /\ pc[p] \in WithId
  BY <1>1 DEF database, WithId, AtDatabase
<1>7. /\ VersionInv(p)' /\ IdInv(p)' /\ NameOf(p)' = NameOf(p)
      /\ \A q \in Processes \ {p} : NameOf(q) # NameOf(p) => PairInv(p, q)' /\ PairInv(q, p)'
      /\ nextId' \in Nat /\ nextId' >= nextId
  BY <1>2, <1>5, <1>6, KeepsId
<1>8. TxInv(p)'
  <2>1. LockInv(p)'
    BY <1>2, <1>5, <1>6, <1>7 DEF LockInv, RowToDelete
  <2>. QED
    BY <1>2, <1>7, <2>1 DEF TxInv, ParentInv
<1>9. ASSUME NEW q \in Processes \ {p}, NameOf(q) = NameOf(p)
      PROVE  PairInv(p, q)' /\ PairInv(q, p)'
  <2>1. tx'[q] = tx[q] /\ NameOf(q)' = NameOf(q)
    BY <1>2, <1>7, SameOthers
  <2>2. RowToDelete(p) => ~tx[q].gone
    <3>1. tx[q].gone => q \in Others(p)
      BY <1>9 DEF Others, Active, ImporterInv, TxInv, LockInv
    <3>. QED
      BY <1>1, <3>1 DEF Deleting
  <2>3. RowToDelete(p) => ~tx[q].added
    BY <1>9, <2>2 DEF RowToDelete, ImporterInv, TxInv, LockInv
  <2>. QED
    BY <1>5, <1>7, <1>9, <2>1, <2>2, <2>3 DEF PairInv
<1>. QED
  BY <1>2, <1>6, <1>7, <1>8, <1>9, StepOf

LEMMA WaitStep ==
    ASSUME TypeOK, ImporterInv, NEW p \in Processes, WaitForDelete(p)
    PROVE  ImporterInv'
<1>1. pc[p] = "delete" /\ Goto(p, "blocked") /\ UNCHANGED <<database, job, tx>>
  BY DEF WaitForDelete
<1>2. OthersGoOn(p) /\ pc'[p] = "blocked"
  BY <1>1, GotoOthers DEF OthersGoOn
<1>3. ~tx[p].gone /\ ~tx[p].added
  BY <1>1, HoldsNothing
<1>4. index' = index /\ nextId' = nextId /\ job' = job /\ tx' = tx /\ pc[p] \in WithId
  BY <1>1 DEF database, WithId, AtDatabase
<1>5. /\ VersionInv(p)' /\ IdInv(p)' /\ NameOf(p)' = NameOf(p)
      /\ \A q \in Processes \ {p} : NameOf(q) # NameOf(p) => PairInv(p, q)' /\ PairInv(q, p)'
      /\ nextId' \in Nat /\ nextId' >= nextId
  BY <1>2, <1>4, KeepsId
<1>6. TxInv(p)'
  BY <1>2, <1>3, <1>4, <1>5 DEF TxInv, LockInv, ParentInv
<1>7. ASSUME NEW q \in Processes \ {p}, NameOf(q) = NameOf(p)
      PROVE  PairInv(p, q)' /\ PairInv(q, p)'
  <2>1. NameOf(q)' = NameOf(q)
    BY <1>2, <1>5, SameOthers
  <2>. QED
    BY <1>3, <1>4, <1>5, <1>7, <2>1 DEF PairInv
<1>. QED
  BY <1>2, <1>4, <1>5, <1>6, <1>7, StepOf

LEMMA ParentStep ==
    ASSUME TypeOK, ImporterInv, NEW p \in Processes, GetParentId(p)
    PROVE  ImporterInv'
<1>. DEFINE parent == ParentOf[NameOf(p)]
            id     == IF parent = NoName THEN 0 ELSE index[parent].id
<1>1. CASE parent # NoName /\ index[parent] = Absent
  BY <1>1, AbortInv DEF GetParentId
<1>2. CASE ~ (parent # NoName /\ index[parent] = Absent)
  <2>1. /\ pc[p] = "parent" /\ Goto(p, "insert") /\ UNCHANGED <<database, job>>
        /\ tx' = [tx EXCEPT ![p].parent = id]
    BY <1>2 DEF GetParentId
  <2>2. OthersGoOn(p) /\ pc'[p] = "insert"
    BY <2>1, GotoOthers DEF OthersGoOn, TypeOK
  <2>3. tx'[p] = [tx[p] EXCEPT !.parent = id]
    BY <2>1 DEF TypeOK
  <2>. HIDE DEF id
  <2>4. tx'[p].id = tx[p].id /\ tx'[p].version = tx[p].version /\ tx'[p].parent = id
        /\ tx'[p].gone = tx[p].gone /\ tx'[p].added = tx[p].added
    BY <2>3, NameType DEF Transactions
  <2>5. index' = index /\ nextId' = nextId /\ job' = job /\ pc[p] \in WithId
    BY <2>1 DEF database, WithId, AtDatabase
  <2>6. /\ VersionInv(p)' /\ IdInv(p)' /\ NameOf(p)' = NameOf(p)
        /\ \A q \in Processes \ {p} : NameOf(q) # NameOf(p) => PairInv(p, q)' /\ PairInv(q, p)'
        /\ nextId' \in Nat /\ nextId' >= nextId
    BY <2>2, <2>4, <2>5, KeepsId
  <2>7. TxInv(p)'
    <3>1. LockInv(p)
      BY DEF ImporterInv, TxInv
    <3>2. LockInv(p)'
      BY <2>1, <2>2, <2>4, <2>5, <2>6, <3>1 DEF LockInv
    <3>3. ParentInv(p)'
      BY <1>2, <2>4, <2>5, <2>6 DEF ParentInv, ParentThere, ParentRow, id
    <3>. QED
      BY <2>6, <3>2, <3>3 DEF TxInv
  <2>8. ASSUME NEW q \in Processes \ {p}, NameOf(q) = NameOf(p)
        PROVE  PairInv(p, q)' /\ PairInv(q, p)'
    <3>1. tx'[q] = tx[q] /\ NameOf(q)' = NameOf(q)
      BY <2>2, <2>6, SameOthers
    <3>2. PairInv(p, q) /\ PairInv(q, p)
      BY DEF ImporterInv
    <3>. QED
      BY <2>4, <2>6, <2>8, <3>1, <3>2 DEF PairInv
  <2>. QED
    BY <2>2, <2>5, <2>6, <2>7, <2>8, StepOf
<1>. QED
  BY <1>1, <1>2

LEMMA InsertStep ==
    ASSUME TypeOK, ImporterInv, NEW p \in Processes, InsertRow(p)
    PROVE  ImporterInv'
<1>. DEFINE label == IF ParentOf[NameOf(p)] = NoName THEN "extra" ELSE "commit"
<1>1. CASE UniqueViolation(p)
  BY <1>1, AbortInv DEF InsertRow
<1>2. CASE ~UniqueViolation(p)
  <2>1. /\ pc[p] = "insert" /\ ~Deleting(p) /\ ~Inserting(p)
        /\ Goto(p, label) /\ UNCHANGED <<database, job>>
        /\ tx' = [tx EXCEPT ![p].added = TRUE]
    BY <1>2 DEF InsertRow
  <2>2. label \in {"extra", "commit"}
    OBVIOUS
  <2>. HIDE DEF label
  <2>3. OthersGoOn(p) /\ pc'[p] \in {"extra", "commit"}
    BY <2>1, <2>2, GotoOthers DEF OthersGoOn, TypeOK
  <2>4. tx'[p] = [tx[p] EXCEPT !.added = TRUE]
    BY <2>1 DEF TypeOK
  <2>5. tx'[p].id = tx[p].id /\ tx'[p].version = tx[p].version
        /\ tx'[p].parent = tx[p].parent /\ tx'[p].gone = tx[p].gone /\ tx'[p].added
    BY <2>4, NameType DEF Transactions
  <2>6. index' = index /\ nextId' = nextId /\ job' = job /\ pc[p] \in WithId
    BY <2>1 DEF database, WithId, AtDatabase
  <2>7. /\ VersionInv(p)' /\ IdInv(p)' /\ NameOf(p)' = NameOf(p)
        /\ \A q \in Processes \ {p} : NameOf(q) # NameOf(p) => PairInv(p, q)' /\ PairInv(q, p)'
        /\ nextId' \in Nat /\ nextId' >= nextId
    BY <2>3, <2>5, <2>6, KeepsId
  <2>8. TxInv(p)'
    <3>1. LockInv(p) /\ ParentInv(p)
      BY DEF ImporterInv, TxInv
    <3>2. index[NameOf(p)] = Absent \/ tx[p].gone
      BY <1>2 DEF UniqueViolation
    <3>3. LockInv(p)'
      <4>1. tx'[p].gone =>
              /\ pc'[p] \in {"parent", "insert", "extra", "commit"}
              /\ index'[NameOf(p)'] # Absent /\ index'[NameOf(p)'].id = tx'[p].id
        BY <2>3, <2>5, <2>6, <2>7, <3>1 DEF LockInv
      <4>2. tx'[p].added => index'[NameOf(p)'] = Absent \/ tx'[p].gone
        BY <2>5, <2>6, <2>7, <3>2
      <4>. QED
        BY <2>3, <2>5, <4>1, <4>2 DEF LockInv
    <3>4. ParentInv(p)'
      BY <2>1, <2>5, <2>6, <2>7, <3>1 DEF ParentInv, ParentThere, ParentRow
    <3>. QED
      BY <2>7, <3>3, <3>4 DEF TxInv
  <2>9. ASSUME NEW q \in Processes \ {p}, NameOf(q) = NameOf(p)
        PROVE  PairInv(p, q)' /\ PairInv(q, p)'
    <3>1. tx'[q] = tx[q] /\ NameOf(q)' = NameOf(q)
      BY <2>3, <2>7, SameOthers
    <3>2. ~tx[q].gone /\ ~tx[q].added
      <4>1. tx[q].gone \/ tx[q].added => q \in Others(p)
        BY <2>9 DEF Others, Active, ImporterInv, TxInv, LockInv
      <4>. QED
        BY <2>1, <4>1 DEF Deleting, Inserting
    <3>. QED
      BY <2>7, <2>9, <3>1, <3>2 DEF PairInv
  <2>. QED
    BY <2>3, <2>6, <2>7, <2>8, <2>9, StepOf
<1>. QED
  BY <1>1, <1>2

LEMMA ExtraStep ==
    ASSUME TypeOK, ImporterInv, NEW p \in Processes, ExtraSearch(p)
    PROVE  ImporterInv'
<1>1. CASE Abort(p)
  BY <1>1, AbortInv
<1>2. CASE ~Abort(p)
  <2>1. /\ pc[p] = "extra" /\ Goto(p, "commit") /\ UNCHANGED <<database, job>>
        /\ \E iso : tx' = [tx EXCEPT ![p] = Product(p, iso)]
    BY <1>2, Zenon DEF ExtraSearch
  <2>2. OthersGoOn(p) /\ pc'[p] = "commit"
    BY <2>1, GotoOthers DEF OthersGoOn, TypeOK
  <2>3. PICK iso : tx'[p] = Product(p, iso)
    BY <2>1 DEF TypeOK
  <2>4. tx'[p].id = tx[p].id /\ tx'[p].version = tx[p].version
        /\ tx'[p].parent = tx[p].parent /\ tx'[p].gone = tx[p].gone
        /\ tx'[p].added = tx[p].added
    BY <2>3, NameType DEF Product, Transactions
  <2>5. index' = index /\ nextId' = nextId /\ job' = job /\ pc[p] \in WithId
    BY <2>1 DEF database, WithId, AtDatabase
  <2>6. /\ VersionInv(p)' /\ IdInv(p)' /\ NameOf(p)' = NameOf(p)
        /\ \A q \in Processes \ {p} : NameOf(q) # NameOf(p) => PairInv(p, q)' /\ PairInv(q, p)'
        /\ nextId' \in Nat /\ nextId' >= nextId
    BY <2>2, <2>4, <2>5, KeepsId
  <2>7. TxInv(p)'
    <3>1. LockInv(p) /\ ParentInv(p)
      BY DEF ImporterInv, TxInv
    <3>2. LockInv(p)'
      BY <2>1, <2>2, <2>4, <2>5, <2>6, <3>1 DEF LockInv
    <3>3. ParentInv(p)'
      BY <2>1, <2>4, <2>5, <2>6, <3>1 DEF ParentInv, ParentThere, ParentRow
    <3>. QED
      BY <2>6, <3>2, <3>3 DEF TxInv
  <2>8. ASSUME NEW q \in Processes \ {p}, NameOf(q) = NameOf(p)
        PROVE  PairInv(p, q)' /\ PairInv(q, p)'
    <3>1. tx'[q] = tx[q] /\ NameOf(q)' = NameOf(q)
      BY <2>2, <2>6, SameOthers
    <3>2. PairInv(p, q) /\ PairInv(q, p)
      BY DEF ImporterInv
    <3>. QED
      BY <2>4, <2>6, <2>8, <3>1, <3>2 DEF PairInv
  <2>. QED
    BY <2>2, <2>5, <2>6, <2>7, <2>8, StepOf
<1>. QED
  BY <1>1, <1>2

\* A commit adds a row with an unused ds_id, or replaces the one it has locked.
LEMMA CommitChanges ==
    ASSUME TypeOK, ImporterInv, NEW p \in Processes, Commit(p)
    PROVE  LET n == NameOf(p)
           IN  /\ index' = [index EXCEPT ![n] = NewRow(p)]
               /\ NewRow(p).id = tx[p].id /\ NewRow(p).parent = tx[p].parent
               /\ NewRow(p).version = tx[p].version /\ NewRow(p) # Absent
               /\ tx[p].version \in Versions
               /\ tx[p].id \in 1 .. MaxId /\ tx[p].id < nextId
               /\ \A m \in Names \ {n} : index[m] # Absent => index[m].id # tx[p].id
               /\ ParentThere(n) /\ tx[p].parent = ParentRow(n)
               /\ index[n] = Absent \/ index[n].id = tx[p].id
<1>1. pc[p] = "commit" /\ index' = [index EXCEPT ![NameOf(p)] = NewRow(p)]
  BY DEF Commit
<1>2. TxInv(p)
  BY DEF ImporterInv
<1>3. NewRow(p).id = tx[p].id /\ NewRow(p).parent = tx[p].parent
      /\ NewRow(p).version = tx[p].version
  BY DEF NewRow
<1>4. NewRow(p) \in IndexRows
  <2>1. tx[p].id \in Nat \ {0} /\ tx[p].parent \in Nat /\ tx[p].version \in Versions
    <3>1. tx[p].parent \in Nat
      BY NameType DEF Transactions
    <3>. QED
      BY <1>1, <1>2, <3>1, ImporterAssumption
      DEF TxInv, VersionInv, IdInv, WithId, AtDatabase, ImporterAssumption
  <2>. QED
    BY <2>1 DEF NewRow, IndexRows
<1>5. NewRow(p) # Absent
  BY <1>4, AbsentAssumption DEF AbsentAssumption
<1>. QED
  BY <1>1, <1>2, <1>3, <1>5
  DEF TxInv, VersionInv, IdInv, LockInv, ParentInv, WithId, AtDatabase

LEMMA CommitStep ==
    ASSUME TypeOK, ImporterInv, NEW p \in Processes, Commit(p)
    PROVE  ImporterInv'
<1>. DEFINE n == NameOf(p)
<1>1. /\ pc[p] = "commit" /\ nextId' = nextId
      /\ EndTx(p, IF ForSubscribers(p) THEN "notify" ELSE "idle",
               IF tx[p].gone THEN "parent" ELSE "blocked")
  BY DEF Commit
<1>2. OthersGoOn(p) /\ pc'[p] \in {"idle", "notify"} /\ tx'[p] = NoTx
  BY <1>1, EndTxOthers
<1>3. ~tx'[p].gone /\ ~tx'[p].added
  BY <1>2 DEF NoTx
<1>4. /\ index' = [index EXCEPT ![n] = NewRow(p)]
      /\ NewRow(p).id = tx[p].id /\ NewRow(p).parent = tx[p].parent /\ NewRow(p) # Absent
      /\ tx[p].id \in 1 .. MaxId /\ tx[p].id < nextId
      /\ \A m \in Names \ {n} : index[m] # Absent => index[m].id # tx[p].id
      /\ ParentThere(n) /\ tx[p].parent = ParentRow(n)
      /\ index[n] = Absent \/ index[n].id = tx[p].id
  BY CommitChanges
<1>5. n \in Names
  BY NameType
\* What is committed of a dataset, before and after.
<1>6. \A m \in Names : index'[m] = IF m = n THEN NewRow(p) ELSE index[m]
  BY <1>4 DEF TypeOK
<1>7. \A m \in Names : index[m] # Absent => index'[m] # Absent /\ index'[m].id = index[m].id
  BY <1>4, <1>5, <1>6
<1>8. \A m \in Names : ParentOf[m] # NoName =>
        ParentOf[m] \in Names /\ (ParentThere(m) => ParentThere(m)' /\ ParentRow(m)' = ParentRow(m))
  BY <1>7, ParentAssumption DEF ParentAssumption, ParentThere, ParentRow
<1>9. \A m \in Names : ParentThere(m) => ParentThere(m)' /\ ParentRow(m)' = ParentRow(m)
  BY <1>8 DEF ParentThere, ParentRow
<1>10. ASSUME NEW m \in Names PROVE RowInv(m)'
  <2>. SUFFICES ASSUME index'[m] # Absent PROVE RowInv(m)'
    BY DEF RowInv
  <2>1. CASE m = n
    <3>1. \A k \in Names \ {m} : index'[k] # Absent => index'[k].id # tx[p].id
      BY <1>4, <1>6, <2>1
    <3>2. ParentThere(m) /\ tx[p].parent = ParentRow(m)
      BY <1>4, <2>1
    <3>3. index'[m].id = tx[p].id /\ index'[m].parent = tx[p].parent
      BY <1>4, <1>6, <2>1
    <3>4. ParentThere(m)' /\ index'[m].parent = ParentRow(m)'
      BY <1>9, <3>2, <3>3
    <3>. QED
      BY <1>1, <1>4, <3>1, <3>3, <3>4 DEF RowInv
  <2>2. CASE m # n
    <3>1. RowInv(m) /\ index'[m] = index[m] /\ index[m] # Absent
      BY <1>6, <2>2 DEF ImporterInv
    <3>2. ParentThere(m)' /\ index'[m].parent = ParentRow(m)'
      BY <1>9, <3>1 DEF RowInv
    <3>3. \A k \in Names \ {m} : index'[k] # Absent => index'[k].id # index'[m].id
      BY <1>4, <1>6, <2>2, <3>1 DEF RowInv
    <3>. QED
      BY <1>1, <3>1, <3>2, <3>3 DEF RowInv
  <2>. QED
    BY <2>1, <2>2
<1>11. ASSUME NEW q \in Processes \ {p} PROVE TxInv(q)'
  <2>1. VersionInv(q) /\ IdInv(q) /\ LockInv(q) /\ ParentInv(q) /\ PairInv(p, q)
        /\ PairInv(q, p)
    BY DEF ImporterInv, TxInv
  <2>2. tx'[q] = tx[q] /\ NameOf(q)' = NameOf(q) /\ NameOf(q) \in Names
        /\ (pc'[q] = pc[q] \/ (pc[q] = "blocked" /\ pc'[q] \in {"delete", "parent"}))
    BY <1>2, NameType DEF OthersGoOn, NameOf
  <2>3. tx[p].added
    BY <1>1 DEF ImporterInv, TxInv, LockInv
  <2>4. VersionInv(q)'
    BY <2>1, <2>2 DEF VersionInv, WithId, AtDatabase
  <2>5. IdInv(q)'
    <3>. SUFFICES ASSUME pc[q] \in WithId, NEW m \in Names \ {NameOf(q)}, index'[m] # Absent
                  PROVE  index'[m].id # tx[q].id
      BY <1>1, <2>1, <2>2 DEF IdInv, WithId, AtDatabase
    <3>1. CASE m = n
      BY <1>1, <1>4, <1>6, <2>1, <3>1 DEF PairInv, WithId, AtDatabase
    <3>2. CASE m # n
      BY <1>6, <2>1, <3>2 DEF IdInv
    <3>. QED
      BY <3>1, <3>2
  <2>6. LockInv(q)'
    <3>1. CASE NameOf(q) = n
      <4>1. ~tx[q].gone /\ ~tx[q].added
        BY <2>1, <2>3, <3>1 DEF PairInv
      <4>2. pc[q] \notin {"extra", "commit"} /\ pc'[q] \notin {"extra", "commit"}
        BY <2>1, <2>2, <4>1 DEF LockInv
      <4>. QED
        BY <2>2, <4>1, <4>2 DEF LockInv
    <3>2. CASE NameOf(q) # n
      <4>1. index'[NameOf(q)] = index[NameOf(q)]
        BY <1>6, <2>2, <3>2
      <4>2. pc[q] = "blocked" => ~tx[q].gone /\ ~tx[q].added
        BY <2>1 DEF LockInv
      <4>3. tx'[q].gone =>
              /\ pc'[q] \in {"parent", "insert", "extra", "commit"}
              /\ index'[NameOf(q)'] # Absent /\ index'[NameOf(q)'].id = tx'[q].id
        BY <2>1, <2>2, <4>1, <4>2 DEF LockInv
      <4>4. tx'[q].added => index'[NameOf(q)'] = Absent \/ tx'[q].gone
        BY <2>1, <2>2, <4>1 DEF LockInv
      <4>5. tx'[q].added <=> pc'[q] \in {"extra", "commit"}
        BY <2>1, <2>2, <4>2 DEF LockInv
      <4>. QED
        BY <4>3, <4>4, <4>5 DEF LockInv
    <3>. QED
      BY <3>1, <3>2
  <2>7. ParentInv(q)'
    <3>. SUFFICES ASSUME pc'[q] \in {"insert", "extra", "commit"}
                  PROVE  ParentThere(NameOf(q))' /\ tx'[q].parent = ParentRow(NameOf(q))'
      BY <2>2 DEF ParentInv
    <3>1. ParentThere(NameOf(q)) /\ tx[q].parent = ParentRow(NameOf(q))
      BY <2>1, <2>2 DEF ParentInv
    <3>2. ParentThere(NameOf(q)') /\ tx'[q].parent = ParentRow(NameOf(q)')
      BY <2>2, <3>1
    <3>. QED
      BY <1>9, <2>2, <3>2 DEF ParentThere, ParentRow
  <2>. QED
    BY <2>4, <2>5, <2>6, <2>7 DEF TxInv
<1>12. TxInv(p)'
  BY <1>2, <1>3 DEF TxInv, VersionInv, IdInv, LockInv, ParentInv, WithId, AtDatabase
<1>13. ASSUME NEW q \in Processes, NEW r \in Processes, q # r PROVE PairInv(q, r)'
  <2>1. CASE q = p \/ r = p
    BY <1>2, <1>3, <2>1 DEF PairInv, WithId, AtDatabase
  <2>2. CASE q # p /\ r # p
    <3>1. PairInv(q, r)
      BY <1>13 DEF ImporterInv
    <3>2. \A s \in {q, r} :
            /\ tx'[s] = tx[s] /\ NameOf(s)' = NameOf(s)
            /\ pc'[s] \in WithId => pc[s] \in WithId
      BY <1>2, <2>2 DEF OthersGoOn, NameOf, WithId, AtDatabase
    <3>. QED
      BY <3>1, <3>2 DEF PairInv
  <2>. QED
    BY <2>1, <2>2
<1>. QED
  BY <1>10, <1>11, <1>12, <1>13 DEF ImporterInv

\* Every step preserves the invariant.
LEMMA InvStep ==
    ASSUME TypeOK, ImporterInv, [Next]_vars
    PROVE  ImporterInv'
<1>1. ASSUME NEW p \in Processes, NEW j \in Jobs, Begin(p, j) PROVE ImporterInv'
  <2>1. (IF j.kind = "write" THEN "open" ELSE "read") \in {"read"} \cup AtFiles
    BY DEF AtFiles
  <2>2. /\ pc[p] = "idle" /\ UNCHANGED <<database, tx>>
        /\ Goto(p, IF j.kind = "write" THEN "open" ELSE "read")
        /\ \A q \in Processes \ {p} : job'[q] = job[q]
    BY <1>1 DEF Begin, TypeOK
  <2>. QED
    BY <2>1, <2>2, FileStep
<1>2. ASSUME NEW p \in Processes, OpenFiles(p) PROVE ImporterInv'
  BY <1>2, FileStep DEF OpenFiles, AtFiles
<1>3. ASSUME NEW p \in Processes, LockFiles(p) PROVE ImporterInv'
  BY <1>3, FileStep DEF LockFiles, AtFiles
<1>4. ASSUME NEW p \in Processes, WriteFiles(p) PROVE ImporterInv'
  BY <1>4, FileStep DEF WriteFiles, AtFiles
<1>5. ASSUME NEW p \in Processes, Notify(p) PROVE ImporterInv'
  BY <1>5, EndInv DEF Notify
<1>6. ASSUME NEW p \in Processes, FilesFail(p) PROVE ImporterInv'
  BY <1>6, EndInv DEF FilesFail
<1>7. ASSUME NEW p \in Processes, WriteFails(p) PROVE ImporterInv'
  BY <1>7, FileStep DEF WriteFails, AtFiles
<1>8. ASSUME NEW p \in Processes, StatementFails(p) \/ Crash(p) PROVE ImporterInv'
  BY <1>8, AbortInv DEF StatementFails, Crash
<1>9. CASE UNCHANGED vars
  BY <1>9 DEF vars, database, ImporterInv, TxInv, VersionInv, IdInv, LockInv, ParentInv,
              PairInv, RowInv, ParentThere, ParentRow, NameOf
<1>. QED
  BY <1>1, <1>2, <1>3, <1>4, <1>5, <1>6, <1>7, <1>8, <1>9, ReadStep, DsIdStep, DeleteStep,
     WaitStep, ParentStep, InsertStep, ExtraStep, CommitStep DEF Next, Work, Failure

LEMMA InitInv == Init => TypeOK /\ ImporterInv
<1>. SUFFICES ASSUME Init PROVE TypeOK /\ ImporterInv
  OBVIOUS
<1>1. TypeOK
  BY NoJobType, NoTxType, ImporterAssumption DEF Init, TypeOK, ImporterAssumption
<1>2. \A p \in Processes : ~tx[p].gone /\ ~tx[p].added
  BY DEF Init, NoTx
<1>3. ImporterInv
  BY <1>2 DEF Init, ImporterInv, TxInv, VersionInv, IdInv, LockInv, ParentInv, PairInv,
              RowInv, WithId, AtDatabase
<1>. QED
  BY <1>1, <1>3

LEMMA ImporterInvariant == Spec => [](TypeOK /\ ImporterInv)
<1>1. TypeOK /\ ImporterInv /\ [Next]_vars => TypeOK' /\ ImporterInv'
  BY TypeStep, InvStep
<1>. QED
  BY <1>1, InitInv, PTL DEF Spec

(***************************************************************************)
(* Every variable of the importer keeps its type: a row is only committed  *)
(* with a version that was read and a ds_id of the sequence.               *)
(***************************************************************************)
THEOREM ImporterTypeCorrect == Spec => []TypeOK
  BY ImporterInvariant, PTL

(***************************************************************************)
(* The refinement.  Only a commit changes the entries of the catalogue.    *)
(***************************************************************************)
EntriesOf == [n \in Names |-> Entry(index[n])]

LEMMA OnlyCommits ==
    ASSUME [Next]_vars
    PROVE  index' = index \/ \E p \in Processes : Commit(p)
<1>1. \A p \in Processes : Abort(p) => index' = index
  BY DEF Abort, database
<1>2. \A p \in Processes, j \in Jobs : Begin(p, j) => index' = index
  BY DEF Begin, database
<1>3. \A p \in Processes :
        OpenFiles(p) \/ LockFiles(p) \/ WriteFiles(p) \/ Notify(p) => index' = index
  BY DEF OpenFiles, LockFiles, WriteFiles, Notify, database
<1>4. \A p \in Processes :
        ReadFiles(p) \/ GetDsId(p) \/ DeleteOld(p) \/ WaitForDelete(p) => index' = index
  BY <1>1 DEF ReadFiles, GetDsId, DeleteOld, WaitForDelete, database
<1>5. \A p \in Processes : GetParentId(p) => index' = index
  BY <1>1 DEF GetParentId, database
<1>6. \A p \in Processes : InsertRow(p) => index' = index
  BY <1>1 DEF InsertRow, database
<1>7. \A p \in Processes : ExtraSearch(p) => index' = index
  BY <1>1 DEF ExtraSearch, database
<1>8. \A p \in Processes : Failure(p) => index' = index
  BY <1>1 DEF Failure, FilesFail, WriteFails, StatementFails, Crash, database
<1>9. CASE UNCHANGED vars
  BY <1>9 DEF vars, database
<1>. QED
  BY <1>2, <1>3, <1>4, <1>5, <1>6, <1>7, <1>8, <1>9 DEF Next, Work

LEMMA CommitRefines ==
    ASSUME TypeOK, ImporterInv, NEW p \in Processes, Commit(p)
    PROVE  Promise!CatalogueNext
<1>. DEFINE n  == NameOf(p)
            id == tx[p].id
            v  == tx[p].version
<1>1. /\ index' = [index EXCEPT ![n] = NewRow(p)]
      /\ NewRow(p).id = id /\ NewRow(p).parent = tx[p].parent
      /\ NewRow(p).version = v /\ NewRow(p) # Absent /\ v \in Versions
      /\ id \in 1 .. MaxId
      /\ \A m \in Names \ {n} : index[m] # Absent => index[m].id # id
      /\ ParentThere(n) /\ tx[p].parent = ParentRow(n)
      /\ index[n] = Absent \/ index[n].id = id
  BY CommitChanges
<1>2. n \in Names
  BY NameType
<1>3. /\ \A m \in Names : index[m] = Absent => Entry(index[m]) = Absent
      /\ \A m \in Names : index[m] # Absent =>
            /\ Entry(index[m]) # Absent /\ Entry(index[m]).id = index[m].id
            /\ Entry(index[m]) = [id |-> index[m].id, parent |-> index[m].parent,
                                  version |-> index[m].version]
  <2>. SUFFICES ASSUME NEW m \in Names, index[m] # Absent
                PROVE  /\ Entry(index[m]) # Absent /\ Entry(index[m]).id = index[m].id
                       /\ Entry(index[m]) = [id |-> index[m].id, parent |-> index[m].parent,
                                             version |-> index[m].version]
    BY DEF Entry
  <2>1. index[m] \in IndexRows
    BY DEF TypeOK
  <2>2. Entry(index[m]) = [id |-> index[m].id, parent |-> index[m].parent,
                           version |-> index[m].version]
    BY DEF Entry
  <2>3. Entry(index[m]) \in Entries
    BY <2>1, <2>2 DEF Entries, IndexRows
  <2>4. Entry(index[m]).id = index[m].id
    BY <2>2
  <2>. QED
    BY <2>2, <2>3, <2>4, AbsentAssumption DEF AbsentAssumption
<1>4. Entry(NewRow(p)) = [id |-> id, parent |-> ParentRow(n), version |-> v]
  BY <1>1 DEF Entry
<1>5. EntriesOf' = [EntriesOf EXCEPT ![n] = Entry(NewRow(p))]
  <2>1. \A m \in Names : index'[m] = IF m = n THEN NewRow(p) ELSE index[m]
    BY <1>1, <1>2 DEF TypeOK
  <2>2. EntriesOf' = [m \in Names |-> Entry(index'[m])]
    BY DEF EntriesOf, Entry
  <2>. QED
    BY <1>2, <2>1, <2>2, Zenon DEF EntriesOf
<1>6. CASE index[n] = Absent
  <2>1. Promise!ParentId(n) = ParentRow(n)
    <3>1. ParentOf[n] # NoName => ParentOf[n] \in Names /\ index[ParentOf[n]] # Absent
      BY <1>1, <1>2, ParentAssumption DEF ParentAssumption, ParentThere
    <3>2. ParentOf[n] # NoName => Entry(index[ParentOf[n]]).id = index[ParentOf[n]].id
      BY <1>3, <3>1
    <3>. QED
      BY <3>1, <3>2 DEF Promise!ParentId, ParentRow
  <2>2. ParentOf[n] # NoName => EntriesOf[ParentOf[n]] # Absent
    BY <1>1, <1>2, <1>3, ParentAssumption DEF ParentAssumption, ParentThere, EntriesOf
  <2>3. \A m \in Names : EntriesOf[m] # Absent => EntriesOf[m].id # id
    BY <1>1, <1>3, <1>6 DEF EntriesOf
  <2>4. EntriesOf[n] = Absent
    BY <1>2, <1>3, <1>6 DEF EntriesOf
  <2>5. EntriesOf' = [EntriesOf EXCEPT ![n] =
                        [id |-> id, parent |-> Promise!ParentId(n), version |-> v]]
    BY <1>4, <1>5, <2>1
  <2>6. Promise!Add(n, id, v)
    BY <2>2, <2>3, <2>4, <2>5 DEF Promise!Add, EntriesOf
  <2>. QED
    BY <1>1, <1>2, <2>6 DEF Promise!CatalogueNext
<1>7. CASE index[n] # Absent
  <2>1. RowInv(n)
    BY <1>2 DEF ImporterInv
  <2>2. EntriesOf[n] = [id |-> id, parent |-> ParentRow(n), version |-> index[n].version]
    BY <1>1, <1>2, <1>3, <1>7, <2>1 DEF RowInv, EntriesOf
  <2>3. [EntriesOf[n] EXCEPT !.version = v] = Entry(NewRow(p))
    BY <1>4, <2>2
  <2>4. EntriesOf' = [EntriesOf EXCEPT ![n].version = v]
    BY <1>2, <1>5, <2>3 DEF EntriesOf
  <2>5. EntriesOf[n] # Absent
    BY <1>2, <1>3, <1>7 DEF EntriesOf
  <2>6. Promise!Replace(n, v)
    BY <2>4, <2>5 DEF Promise!Replace, EntriesOf
  <2>. QED
    BY <1>1, <1>2, <2>6 DEF Promise!CatalogueNext
<1>. QED
  BY <1>6, <1>7

(***************************************************************************)
(* write_to_database implements the catalogue: whatever processes, locks,  *)
(* failures and crashes do, a commit adds a row with a ds_id of its own or *)
(* gives an existing one another version, and no row is ever lost.         *)
(***************************************************************************)
THEOREM ImporterImplementsCatalogue == Spec => ImplementsCatalogue
<1>1. Init => Promise!CatalogueInit
  BY DEF Init, Promise!CatalogueInit, Entry
<1>2. TypeOK /\ ImporterInv /\ [Next]_vars
        => [Promise!CatalogueNext]_EntriesOf
  <2>. SUFFICES ASSUME TypeOK, ImporterInv, [Next]_vars, EntriesOf' # EntriesOf
                PROVE  Promise!CatalogueNext
    OBVIOUS
  <2>1. index' = index => EntriesOf' = EntriesOf
    BY DEF EntriesOf, Entry
  <2>. QED
    BY <2>1, OnlyCommits, CommitRefines
<1>. QED
  BY <1>1, <1>2, ImporterInvariant, PTL
  DEF Spec, ImplementsCatalogue, Promise!CatalogueSpec, EntriesOf

(***************************************************************************)
(* Subscribers.  A process is at "notify" after its commit only, and no    *)
(* row leaves the index after that.                                        *)
(***************************************************************************)
TellInv ==
    /\ ToldOfIndexed
    /\ \A p \in Processes : pc[p] = "notify" => index[NameOf(p)] # Absent

LEMMA RowsStay ==
    ASSUME TypeOK, ImporterInv, [Next]_vars, NEW n \in Names, index[n] # Absent
    PROVE  index'[n] # Absent
<1>1. ASSUME NEW p \in Processes, Commit(p) PROVE index'[n] # Absent
  BY <1>1, CommitChanges DEF TypeOK
<1>. QED
  BY <1>1, OnlyCommits

\* q comes to "notify" with a commit only, and tells of what it committed.
StaysSilent ==
    /\ told' = told
    /\ \A q \in Processes : pc'[q] = "notify" => pc[q] = "notify" /\ NameOf(q)' = NameOf(q)

LEMMA GotoSilent ==
    ASSUME TypeOK, NEW p \in Processes, NEW label \in Labels \ {"notify"},
           Goto(p, label), told' = told, \A q \in Processes \ {p} : job'[q] = job[q]
    PROVE  StaysSilent
<1>1. pc'[p] = label /\ \A q \in Processes \ {p} : pc'[q] = pc[q]
  BY GotoOthers
<1>. QED
  BY <1>1 DEF StaysSilent, NameOf

LEMMA EndSilent ==
    ASSUME TypeOK, NEW p \in Processes, NEW waiters \in {"delete", "parent", "blocked"},
           EndTx(p, "idle", waiters)
    PROVE  \A q \in Processes : pc'[q] = "notify" => pc[q] = "notify" /\ NameOf(q)' = NameOf(q)
  BY EndTxOthers DEF OthersGoOn, NameOf

LEMMA AbortSilent ==
    ASSUME TypeOK, NEW p \in Processes, Abort(p)
    PROVE  StaysSilent
<1>1. (IF tx[p].gone THEN "delete" ELSE "blocked") \in {"delete", "parent", "blocked"}
  OBVIOUS
<1>. QED
  BY <1>1, EndSilent DEF Abort, StaysSilent

LEMMA SilentSteps ==
    ASSUME TypeOK, ImporterInv, [Next]_vars
    PROVE  StaysSilent \/ \E p \in Processes : Commit(p) \/ Notify(p)
<1>1. ASSUME NEW p \in Processes, NEW j \in Jobs, Begin(p, j) PROVE StaysSilent
  <2>1. (IF j.kind = "write" THEN "open" ELSE "read") \in Labels \ {"notify"}
    BY DEF Labels, AtFiles, AtDatabase
  <2>2. \A q \in Processes \ {p} : job'[q] = job[q]
    BY <1>1 DEF Begin, TypeOK
  <2>. QED
    BY <1>1, <2>1, <2>2, GotoSilent DEF Begin
<1>2. ASSUME NEW p \in Processes, OpenFiles(p) \/ LockFiles(p) \/ WriteFiles(p) \/ WriteFails(p)
      PROVE  StaysSilent
  <2>1. job' = job /\ told' = told /\ \E label \in {"lock", "write", "read"} : Goto(p, label)
    BY <1>2 DEF OpenFiles, LockFiles, WriteFiles, WriteFails
  <2>. QED
    BY <2>1, GotoSilent DEF Labels, AtFiles, AtDatabase
<1>3. ASSUME NEW p \in Processes,
             ReadFiles(p) \/ GetParentId(p) \/ InsertRow(p) \/ ExtraSearch(p), ~Abort(p)
      PROVE  StaysSilent
  <2>1. job' = job /\ told' = told
    BY <1>3 DEF ReadFiles, GetParentId, InsertRow, ExtraSearch
  <2>2. \E label \in {"dsid", "insert", "extra", "commit"} : Goto(p, label)
    BY <1>3, Zenon DEF ReadFiles, GetParentId, InsertRow, ExtraSearch
  <2>. QED
    BY <2>1, <2>2, GotoSilent DEF Labels, AtFiles, AtDatabase
<1>4. ASSUME NEW p \in Processes, GetDsId(p) \/ DeleteOld(p) \/ WaitForDelete(p)
      PROVE  StaysSilent
  <2>1. job' = job /\ told' = told /\ \E label \in {"delete", "parent", "blocked"} : Goto(p, label)
    BY <1>4 DEF GetDsId, DeleteOld, WaitForDelete
  <2>. QED
    BY <2>1, GotoSilent DEF Labels, AtFiles, AtDatabase
<1>5. ASSUME NEW p \in Processes, FilesFail(p) PROVE StaysSilent
  BY <1>5, EndSilent DEF FilesFail, StaysSilent
<1>6. ASSUME NEW p \in Processes, StatementFails(p) \/ Crash(p) PROVE Abort(p)
  BY <1>6 DEF StatementFails, Crash
<1>7. CASE UNCHANGED vars
  BY <1>7 DEF vars, StaysSilent, NameOf
<1>. QED
  BY <1>1, <1>2, <1>3, <1>4, <1>5, <1>6, <1>7, AbortSilent DEF Next, Work, Failure

(***************************************************************************)
(* Subscribers are only told of datasets that are in the index, whatever   *)
(* became of the file pair or of other imports in between.                 *)
(***************************************************************************)
THEOREM OnlyIndexedAreTold == Spec => []ToldOfIndexed
<1>1. Init => TellInv
  BY DEF Init, TellInv, ToldOfIndexed
<1>2. TypeOK /\ ImporterInv /\ TellInv /\ [Next]_vars => TellInv'
  <2>. SUFFICES ASSUME TypeOK, ImporterInv, TellInv, [Next]_vars PROVE TellInv'
    OBVIOUS
  <2>1. \A t \in told : t[1] \in Names /\ index'[t[1]] # Absent
    BY RowsStay DEF TellInv, ToldOfIndexed, TypeOK
  <2>2. \A q \in Processes :
          NameOf(q) \in Names /\ (pc[q] = "notify" => index'[NameOf(q)] # Absent)
    BY RowsStay, NameType DEF TellInv
  <2>3. CASE StaysSilent
    BY <2>1, <2>2, <2>3 DEF StaysSilent, TellInv, ToldOfIndexed, NameOf
  <2>4. ASSUME NEW p \in Processes, Commit(p) PROVE TellInv'
    <3>1. index'[NameOf(p)] # Absent
      BY <2>2, <2>4, CommitChanges DEF TypeOK
    <3>2. told' = told
      BY <2>4 DEF Commit
    <3>3. OthersGoOn(p)
      BY <2>4, EndTxOthers DEF Commit
    <3>4. pc'[p] = "notify" => NameOf(p)' = NameOf(p)
      BY <2>4 DEF Commit, EndTx, NameOf, TypeOK
    <3>. QED
      BY <2>1, <2>2, <3>1, <3>2, <3>3, <3>4 DEF OthersGoOn, TellInv, ToldOfIndexed, NameOf
  <2>5. ASSUME NEW p \in Processes, Notify(p) PROVE TellInv'
    <3>1. \A q \in Processes : pc'[q] = "notify" => pc[q] = "notify" /\ NameOf(q)' = NameOf(q)
      BY <2>5, EndSilent DEF Notify
    <3>2. \A t \in told' : t \in told \/ t[1] = NameOf(p)
      BY <2>5 DEF Notify
    <3>3. index'[NameOf(p)] # Absent
      BY <2>2, <2>5 DEF Notify
    <3>. QED
      BY <2>1, <2>2, <3>1, <3>2, <3>3 DEF TellInv, ToldOfIndexed, NameOf
  <2>. QED
    BY <2>3, <2>4, <2>5, SilentSteps
<1>3. TellInv => ToldOfIndexed
  BY DEF TellInv
<1>. QED
  BY <1>1, <1>2, <1>3, ImporterInvariant, PTL DEF Spec
-----------------------------------------------------------------------------
(***************************************************************************)
(* Undisturbed work.  While nothing has got in the way of the work on a    *)
(* dataset, one process at most works on it, has read what its files still *)
(* say, found the row that is still there, and deleted it.                 *)
(***************************************************************************)
Right(p) ==
    LET n == NameOf(p)
    IN  /\ pc[p] \in {"dsid"} \cup WithId => tx[p].version = files[n]
        /\ pc[p] # "blocked"
        /\ pc[p] \in WithId /\ index[n] # Absent =>
              /\ index[n].id = tx[p].id
              /\ pc[p] # "delete" => tx[p].gone
        /\ pc[p] = "commit" /\ ParentOf[n] = NoName =>
              /\ tx[p].keep = ~files[n].listed
              /\ tx[p].product = IF files[n].listed /\ files[n].active THEN files[n] ELSE Absent
        /\ pc[p] = "notify" => Mirrors(n)

UndisturbedInv ==
    \A n \in Names : ~hindered[n] =>
        /\ \A p, q \in Active(n) : p = q
        /\ \A p \in Active(n) : Right(p)
        /\ Active(n) = {} /\ files[n] \in Versions => Mirrors(n)

\* A step of p changes nothing in the work of others, but for waits of those who
\* work on the same dataset.
Apart(p) ==
    \A q \in Processes \ {p} :
        /\ job'[q] = job[q] /\ tx'[q] = tx[q]
        /\ pc'[q] # pc[q] => pc[q] # "idle" /\ NameOf(q) = NameOf(p)

\* Nor does it change another dataset.
Elsewhere(n) ==
    \A m \in Names \ {n} :
        /\ hindered'[m] = hindered[m] /\ files'[m] = files[m] /\ index'[m] = index[m]
        /\ Mirrors(m) => Mirrors(m)'

\* The one who works on n undisturbed.
LEMMA Alone ==
    ASSUME UndisturbedInv, NEW p \in Processes, NEW n \in Names, n = NameOf(p),
           pc[p] # "idle", ~hindered[n]
    PROVE  Active(n) = {p} /\ Others(p) = {} /\ Right(p)
<1>1. p \in Active(n)
  BY DEF Active
<1>2. \A q \in Active(n) : q = p
  BY <1>1 DEF UndisturbedInv
<1>3. Active(n) = {p}
  BY <1>1, <1>2
<1>. QED
  BY <1>1, <1>3 DEF Others, UndisturbedInv

LEMMA UndisturbedStep ==
    ASSUME TypeOK, UndisturbedInv, NEW p \in Processes, NEW n \in Names, n = NameOf(p),
           pc[p] # "idle", Apart(p), Elsewhere(n), NameOf(p)' = n \/ pc'[p] = "idle",
           ~hindered'[n] =>
               /\ ~hindered[n]
               /\ pc'[p] # "idle" => Right(p)'
               /\ pc'[p] = "idle" /\ files'[n] \in Versions => Mirrors(n)'
    PROVE  UndisturbedInv'
<1>. SUFFICES ASSUME NEW m \in Names, ~hindered'[m]
              PROVE  /\ \A q, r \in Active(m)' : q = r
                     /\ \A q \in Active(m)' : Right(q)'
                     /\ Active(m)' = {} /\ files'[m] \in Versions => Mirrors(m)'
  BY DEF UndisturbedInv
<1>1. \A q \in Processes \ {p} : NameOf(q)' = NameOf(q)
  BY DEF Apart, NameOf
<1>2. CASE m = n
  <2>1. Active(n) = {p}
    BY <1>2, Alone
  <2>2. \A q \in Processes \ {p} : q \notin Active(n)
    BY <2>1
  <2>3. \A q \in Processes \ {p} : q \notin Active(n)'
    <3>. SUFFICES ASSUME NEW q \in Processes \ {p}, q \in Active(n)' PROVE FALSE
      OBVIOUS
    <3>1. pc'[q] # "idle" /\ NameOf(q) = n
      BY <1>1 DEF Active
    <3>2. pc[q] # "idle"
      BY <3>1 DEF Apart
    <3>. QED
      BY <2>2, <3>1, <3>2 DEF Active
  <2>4. \A q \in Active(n)' : q = p /\ pc'[p] # "idle"
    BY <2>3 DEF Active
  <2>5. Active(n)' = {} => pc'[p] = "idle"
    <3>. SUFFICES ASSUME pc'[p] # "idle" PROVE p \in Active(n)'
      OBVIOUS
    <3>. QED
      BY DEF Active
  <2>. QED
    BY <1>2, <2>4, <2>5
<1>3. CASE m # n
  <2>1. ~hindered[m] /\ files'[m] = files[m] /\ index'[m] = index[m]
        /\ (Mirrors(m) => Mirrors(m)')
    BY <1>3 DEF Elsewhere
  <2>2. \A q \in Active(m)' :
          /\ q \in Active(m) /\ q # p
          /\ pc'[q] = pc[q] /\ tx'[q] = tx[q] /\ NameOf(q)' = m
    BY <1>1, <1>3 DEF Active, Apart
  <2>3. \A q \in Active(m) : q \in Active(m)'
    BY <1>1, <1>3 DEF Active, Apart
  <2>4. ASSUME NEW q \in Active(m)' PROVE Right(q)'
    <3>1. Right(q) /\ NameOf(q) = m
      BY <2>1, <2>2 DEF UndisturbedInv, Active
    <3>. QED
      BY <2>1, <2>2, <3>1 DEF Right
  <2>5. Active(m)' = {} /\ files'[m] \in Versions => Mirrors(m)'
    BY <2>1, <2>3 DEF UndisturbedInv
  <2>6. \A q, r \in Active(m)' : q = r
    BY <2>1, <2>2 DEF UndisturbedInv
  <2>. QED
    BY <2>4, <2>5, <2>6
<1>. QED
  BY <1>2, <1>3

LEMMA MirrorsStays ==
    ASSUME NEW m, files'[m] = files[m], index'[m] = index[m], sru' = sru
    PROVE  Mirrors(m)' = Mirrors(m)
  BY DEF Mirrors

\* Before the commit: p alone has to be looked at.
LEMMA WorkUndisturbed ==
    ASSUME TypeOK, UndisturbedInv, NEW p \in Processes, NEW n \in Names, n = NameOf(p),
           pc[p] # "idle", NEW label, Goto(p, label), label # "idle", job' = job,
           \A q \in Processes \ {p} : tx'[q] = tx[q],
           index' = index, sru' = sru, \A m \in Names \ {n} : files'[m] = files[m],
           hindered' = hindered \/ Hinder(p),
           ~hindered[n] /\ hindered' = hindered /\ Active(n) = {p} /\ Others(p) = {} /\ Right(p)
               => Right(p)'
    PROVE  UndisturbedInv'
<1>1. pc'[p] = label /\ \A q \in Processes \ {p} : pc'[q] = pc[q]
  BY GotoOthers
<1>2. Apart(p) /\ NameOf(p)' = n
  BY <1>1 DEF Apart, NameOf
<1>3. \A m \in Names \ {n} : hindered'[m] = hindered[m]
  BY DEF Hinder, TypeOK
<1>4. Elsewhere(n)
  BY <1>3, MirrorsStays DEF Elsewhere
<1>5. ~hindered'[n] => ~hindered[n] /\ hindered' = hindered
  BY DEF Hinder, TypeOK
<1>. QED
  BY <1>1, <1>2, <1>4, <1>5, Alone, UndisturbedStep

LEMMA EndTxApart ==
    ASSUME TypeOK, NEW p \in Processes, NEW label, NEW waiters, EndTx(p, label, waiters)
    PROVE  Apart(p) /\ pc'[p] = label /\ (label # "idle" => NameOf(p)' = NameOf(p))
  BY DEF EndTx, Apart, NameOf, TypeOK

\* Work that ends without a commit was hindered.
LEMMA StopUndisturbed ==
    ASSUME TypeOK, UndisturbedInv, NEW p \in Processes, NEW n \in Names, n = NameOf(p),
           pc[p] # "idle", NEW waiters, EndTx(p, "idle", waiters),
           index' = index, sru' = sru, \A m \in Names \ {n} : files'[m] = files[m],
           hindered' = hindered \/ Hinder(p), hindered'[n]
    PROVE  UndisturbedInv'
<1>1. Apart(p) /\ pc'[p] = "idle"
  BY EndTxApart
<1>2. \A m \in Names \ {n} : hindered'[m] = hindered[m]
  BY DEF Hinder, TypeOK
<1>3. Elsewhere(n)
  BY <1>2, MirrorsStays DEF Elsewhere
<1>. QED
  BY <1>1, <1>3, UndisturbedStep

LEMMA AbortUndisturbed ==
    ASSUME TypeOK, UndisturbedInv, NEW p \in Processes, NEW n \in Names, n = NameOf(p),
           pc[p] # "idle", Abort(p), hindered' = hindered \/ Hinder(p),
           Hinder(p) \/ hindered[n]
    PROVE  UndisturbedInv'
<1>1. hindered'[n]
  BY DEF Hinder, TypeOK
<1>2. EndTx(p, "idle", IF tx[p].gone THEN "delete" ELSE "blocked")
      /\ files' = files /\ index' = index /\ sru' = sru
  BY DEF Abort, database
<1>. QED
  BY <1>1, <1>2, StopUndisturbed

LEMMA BeginUndisturbed ==
    ASSUME TypeOK, UndisturbedInv, NEW p \in Processes, NEW j \in Jobs, Begin(p, j)
    PROVE  UndisturbedInv'
<1>. DEFINE n == j.name
<1>1. /\ pc[p] = "idle" /\ n \in Names /\ NameOf(p)' = n
      /\ pc'[p] \in {"open", "read"} /\ \A q \in Processes \ {p} : pc'[q] = pc[q]
      /\ UNCHANGED <<files, index, sru, tx>>
      /\ \A q \in Processes \ {p} : NameOf(q)' = NameOf(q)
  BY GotoOthers DEF Begin, Jobs, NameOf, TypeOK, database
<1>2. \A m \in Names : hindered'[m] = IF m = n THEN Active(n) # {} ELSE hindered[m]
  BY DEF Begin, TypeOK
<1>3. \A m \in Names : Mirrors(m)' = Mirrors(m)
  BY <1>1, MirrorsStays
<1>4. \A m \in Names : Active(m)' = IF m = n THEN Active(m) \cup {p} ELSE Active(m)
  BY <1>1 DEF Active
<1>5. Right(p)'
  BY <1>1 DEF Right, WithId, AtDatabase
<1>6. \A q \in Processes \ {p} : Right(q) => Right(q)'
  BY <1>1, <1>3, NameType DEF Right
<1>7. \A m \in Names : p \notin Active(m)
  BY <1>1 DEF Active
<1>8. \A m \in Names : Active(m) \subseteq Processes
  BY DEF Active
<1>. SUFFICES ASSUME NEW m \in Names, ~hindered'[m]
              PROVE  /\ \A q, r \in Active(m)' : q = r
                     /\ \A q \in Active(m)' : Right(q)'
                     /\ Active(m)' = {} /\ files'[m] \in Versions => Mirrors(m)'
  BY DEF UndisturbedInv
<1>9. CASE m = n
  <2>1. Active(m)' = {p}
    BY <1>2, <1>4, <1>9
  <2>. QED
    BY <1>5, <2>1
<1>10. CASE m # n
  <2>1. ~hindered[m] /\ Active(m)' = Active(m)
    BY <1>2, <1>4, <1>10
  <2>. QED
    BY <1>1, <1>3, <1>6, <1>7, <1>8, <2>1 DEF UndisturbedInv
<1>. QED
  BY <1>9, <1>10

\* What a transaction keeps of what it has noted.
LEMMA StillRight ==
    ASSUME NEW p, pc[p] \in {"parent", "insert", "extra"}, NameOf(p)' = NameOf(p),
           files' = files, index' = index, tx'[p].version = tx[p].version,
           tx'[p].id = tx[p].id, tx'[p].gone = tx[p].gone, Right(p),
           \/ pc'[p] \in {"insert", "extra"}
           \/ pc'[p] = "commit" /\ (ParentOf[NameOf(p)] = NoName =>
                 /\ tx'[p].keep = ~files[NameOf(p)].listed
                 /\ tx'[p].product = IF files[NameOf(p)].listed /\ files[NameOf(p)].active
                                     THEN files[NameOf(p)] ELSE Absent)
    PROVE  Right(p)'
  BY DEF Right, WithId, AtDatabase

LEMMA DatabaseUndisturbed ==
    ASSUME TypeOK, ImporterInv, UndisturbedInv, NEW p \in Processes,
           \/ ReadFiles(p) \/ GetDsId(p) \/ DeleteOld(p) \/ WaitForDelete(p)
           \/ GetParentId(p) \/ InsertRow(p)
    PROVE  UndisturbedInv'
<1>. DEFINE n == NameOf(p)
<1>1. n \in Names /\ tx[p] \in Transactions
  BY NameType
<1>3. CASE ReadFiles(p)
  <2>1. CASE files[n] \in Versions
    <3>1. /\ pc[p] = "read" /\ Goto(p, "dsid") /\ NoFault /\ UNCHANGED <<files, database, job>>
          /\ tx' = [tx EXCEPT ![p].version = files[n]]
      BY <1>3, <2>1 DEF ReadFiles
    <3>2. tx'[p].version = files[n] /\ (\A q \in Processes \ {p} : tx'[q] = tx[q])
      BY <1>1, <3>1 DEF TypeOK, Transactions
    <3>3. Right(p)'
      BY <3>1, <3>2, GotoOthers DEF Right, NameOf, WithId, AtDatabase
    <3>. QED
      BY <1>1, <3>1, <3>2, <3>3, WorkUndisturbed DEF database, NoFault
  <2>2. CASE files[n] \notin Versions
    BY <1>1, <1>3, <2>2, AbortUndisturbed DEF ReadFiles
  <2>. QED
    BY <2>1, <2>2
<1>4. CASE GetDsId(p)
  <2>1. /\ pc[p] = "dsid" /\ Goto(p, "delete") /\ NoFault /\ UNCHANGED <<files, index, sru, job>>
        /\ tx' = [tx EXCEPT ![p].id = DsId(p)]
    BY <1>4 DEF GetDsId
  <2>2. tx'[p].id = DsId(p) /\ tx'[p].version = tx[p].version
        /\ (\A q \in Processes \ {p} : tx'[q] = tx[q])
    BY <1>1, <2>1 DEF TypeOK, Transactions
  <2>3. Right(p) => Right(p)'
    BY <2>1, <2>2, GotoOthers DEF Right, NameOf, WithId, AtDatabase, DsId
  <2>. QED
    BY <1>1, <2>1, <2>2, <2>3, WorkUndisturbed DEF NoFault
<1>5. CASE DeleteOld(p)
  <2>1. /\ pc[p] = "delete" /\ Goto(p, "parent") /\ NoFault /\ UNCHANGED <<files, database, job>>
        /\ tx' = [tx EXCEPT ![p].gone = RowToDelete(p)]
    BY <1>5 DEF DeleteOld
  <2>2. tx'[p].gone = RowToDelete(p) /\ tx'[p].version = tx[p].version /\ tx'[p].id = tx[p].id
        /\ (\A q \in Processes \ {p} : tx'[q] = tx[q])
    BY <1>1, <2>1 DEF TypeOK, Transactions
  <2>3. Right(p) /\ index[n] # Absent => tx'[p].gone /\ index[n].id = tx[p].id
    BY <2>1, <2>2 DEF Right, WithId, AtDatabase, RowToDelete
  <2>4. pc'[p] = "parent" /\ NameOf(p)' = n /\ files' = files /\ index' = index
    BY <2>1, GotoOthers DEF NameOf, database
  <2>5. Right(p) => Right(p)'
    BY <2>1, <2>2, <2>3, <2>4 DEF Right, WithId, AtDatabase
  <2>. QED
    BY <1>1, <2>1, <2>2, <2>5, WorkUndisturbed DEF database, NoFault
<1>6. CASE WaitForDelete(p)
  <2>1. /\ pc[p] = "delete" /\ Goto(p, "blocked") /\ NoFault
        /\ UNCHANGED <<files, database, job, tx>> /\ Others(p) # {}
    BY <1>6 DEF WaitForDelete, Deleting
  <2>. QED
    BY <1>1, <2>1, WorkUndisturbed DEF database, NoFault
<1>7. CASE GetParentId(p)
  <2>. DEFINE parent == ParentOf[n]
              id     == IF parent = NoName THEN 0 ELSE index[parent].id
  <2>1. CASE parent # NoName /\ index[parent] = Absent
    BY <1>1, <1>7, <2>1, AbortUndisturbed DEF GetParentId
  <2>2. CASE ~ (parent # NoName /\ index[parent] = Absent)
    <3>1. /\ pc[p] = "parent" /\ Goto(p, "insert") /\ NoFault
          /\ UNCHANGED <<files, database, job>> /\ tx' = [tx EXCEPT ![p].parent = id]
      BY <1>7, <2>2 DEF GetParentId
    <3>. HIDE DEF id
    <3>2. /\ tx'[p].version = tx[p].version /\ tx'[p].id = tx[p].id /\ tx'[p].gone = tx[p].gone
          /\ \A q \in Processes \ {p} : tx'[q] = tx[q]
      BY <1>1, <3>1 DEF TypeOK, Transactions
    <3>3. Right(p) => Right(p)'
      BY <3>1, <3>2, GotoOthers, StillRight DEF NameOf, database
    <3>. QED
      BY <1>1, <3>1, <3>2, <3>3, WorkUndisturbed DEF database, NoFault
  <2>. QED
    BY <2>1, <2>2
<1>8. CASE InsertRow(p)
  <2>1. CASE UniqueViolation(p)
    <3>1. pc[p] = "insert" /\ Abort(p) /\ NoFault
      BY <1>8, <2>1 DEF InsertRow
    <3>2. ~Right(p)
      BY <2>1, <3>1 DEF Right, UniqueViolation, WithId, AtDatabase
    <3>3. hindered[n]
      BY <1>1, <3>1, <3>2, Alone
    <3>. QED
      BY <1>1, <3>1, <3>3, AbortUndisturbed DEF NoFault
  <2>2. CASE ~UniqueViolation(p)
    <3>. DEFINE label == IF ParentOf[n] = NoName THEN "extra" ELSE "commit"
    <3>1. /\ pc[p] = "insert" /\ Goto(p, label) /\ NoFault
          /\ UNCHANGED <<files, database, job>> /\ tx' = [tx EXCEPT ![p].added = TRUE]
      BY <1>8, <2>2 DEF InsertRow
    <3>2. /\ tx'[p].version = tx[p].version /\ tx'[p].id = tx[p].id /\ tx'[p].gone = tx[p].gone
          /\ \A q \in Processes \ {p} : tx'[q] = tx[q]
      BY <1>1, <3>1 DEF TypeOK, Transactions
    <3>3. pc'[p] = label
      BY <3>1, GotoOthers
    <3>4. Right(p) => Right(p)'
      BY <3>1, <3>2, <3>3, StillRight DEF NameOf, database
    <3>. QED
      BY <1>1, <3>1, <3>2, <3>4, WorkUndisturbed DEF database, NoFault
  <2>. QED
    BY <2>1, <2>2
<1>. QED
  BY <1>3, <1>4, <1>5, <1>6, <1>7, <1>8

LEMMA ExtraUndisturbed ==
    ASSUME TypeOK, UndisturbedInv, NEW p \in Processes, ExtraSearch(p)
    PROVE  UndisturbedInv'
<1>. DEFINE n == NameOf(p)
<1>1. n \in Names /\ tx[p] \in Transactions /\ pc[p] = "extra"
  BY NameType DEF ExtraSearch
<1>2. CASE Abort(p) /\ Hinder(p)
  BY <1>1, <1>2, AbortUndisturbed
<1>3. ASSUME NEW iso \in {files[n], Absent}, tx' = [tx EXCEPT ![p] = Product(p, iso)],
             Goto(p, "commit"), UNCHANGED <<files, database, job>>, files[n] \in Versions,
             (iso = files[n] /\ NoFault) \/ Fault(p, "isoFails")
      PROVE  UndisturbedInv'
  <2>1. tx'[p] = Product(p, iso) /\ \A q \in Processes \ {p} : tx'[q] = tx[q]
    BY <1>1, <1>3 DEF TypeOK
  <2>2. /\ tx'[p].version = tx[p].version /\ tx'[p].id = tx[p].id /\ tx'[p].gone = tx[p].gone
        /\ tx'[p].keep = ~tx[p].version.listed
        /\ tx'[p].product = IF tx[p].version.listed /\ tx[p].version.active
                               /\ iso # Absent /\ iso.active
                            THEN iso ELSE Absent
    BY <1>1, <2>1 DEF Product, Transactions
  <2>3. CASE Fault(p, "isoFails")
    <3>1. ~ (hindered' = hindered /\ ~hindered[n])
      BY <1>1, <2>3 DEF Fault, Hinder, TypeOK
    <3>. QED
      BY <1>1, <1>3, <2>1, <2>3, <3>1, WorkUndisturbed DEF database, Fault
  <2>4. CASE iso = files[n] /\ NoFault
    <3>1. iso # Absent
      BY <1>3, <2>4, ImporterAssumption DEF ImporterAssumption
    <3>2. Right(p) => tx[p].version = files[n]
      BY <1>1 DEF Right, WithId, AtDatabase
    <3>3. Right(p) => Right(p)'
      BY <1>1, <1>3, <2>2, <2>4, <3>1, <3>2, GotoOthers, StillRight DEF NameOf, database
    <3>. QED
      BY <1>1, <1>3, <2>1, <2>4, <3>3, WorkUndisturbed DEF database, NoFault
  <2>. QED
    BY <1>3, <2>3, <2>4
<1>. QED
  BY <1>2, <1>3 DEF ExtraSearch

\* An undisturbed commit makes the index what the files say.
LEMMA CommitUndisturbed ==
    ASSUME TypeOK, ImporterInv, UndisturbedInv, NEW p \in Processes, Commit(p)
    PROVE  UndisturbedInv'
<1>0. PICK n \in Names : n = NameOf(p)
  BY NameType
<1>. DEFINE v == files[n]
            id == tx[p].id
<1>1. /\ index' = [index EXCEPT ![n] = NewRow(p)]
      /\ NewRow(p).id = id /\ NewRow(p).version = tx[p].version /\ NewRow(p) # Absent
      /\ NewRow(p).metadata = (IF tx[p].version.active THEN {tx[p].version} ELSE {})
      /\ tx[p].version \in Versions
      /\ \A m \in Names \ {n} : index[m] # Absent => index[m].id # id
  BY <1>0, CommitChanges DEF NewRow
<1>2. pc[p] = "commit" /\ NoFault /\ files' = files /\ tx[p] \in Transactions
  BY NameType DEF Commit
<1>3. \A m \in Names : index'[m] = IF m = n THEN NewRow(p) ELSE index[m]
  BY <1>1 DEF TypeOK
<1>4. sru' = IF tx[p].keep THEN sru
             ELSE {r \in sru : r.id # id} \cup [id : {id}, version : {tx[p].product} \ {Absent}]
  BY DEF Commit
<1>5. Apart(p) /\ pc'[p] \in {"notify", "idle"} /\ (pc'[p] # "idle" => NameOf(p)' = n)
  BY <1>0, EndTxApart DEF Commit
<1>6. Elsewhere(n)
  <2>. SUFFICES ASSUME NEW m \in Names \ {n}
                PROVE  Mirrors(m) => Mirrors(m)'
    BY <1>2, <1>3 DEF Elsewhere, NoFault
  <2>. SUFFICES ASSUME Mirrors(m) PROVE Mirrors(m)'
    OBVIOUS
  <2>1. index'[m] = index[m] /\ index[m] # Absent /\ index[m].id # id
    BY <1>1, <1>3 DEF Mirrors
  <2>2. {s \in sru' : s.id = index[m].id} = {s \in sru : s.id = index[m].id}
    BY <1>4, <2>1
  <2>. QED
    BY <1>2, <2>1, <2>2 DEF Mirrors
<1>7. ASSUME ~hindered[n] PROVE Mirrors(n)'
  <2>1. Right(p)
    BY <1>0, <1>2, <1>7, Alone
  <2>2. tx[p].version = v
    BY <1>0, <1>2, <2>1 DEF Right, WithId, AtDatabase
  <2>3. ASSUME ParentOf[n] = NoName, v.listed
        PROVE  {r.version : r \in {s \in sru' : s.id = id}} = (IF v.active THEN {v} ELSE {})
    <3>1. tx[p].keep = FALSE /\ tx[p].product = (IF v.active THEN v ELSE Absent)
      BY <1>0, <1>2, <2>1, <2>3 DEF Right
    <3>2. {s \in sru' : s.id = id} = [id : {id}, version : {tx[p].product} \ {Absent}]
      BY <1>4, <3>1
    <3>3. v # Absent
      BY <1>1, <2>2, ImporterAssumption DEF ImporterAssumption
    <3>. DEFINE W == {tx[p].product} \ {Absent}
    <3>4. W = IF v.active THEN {v} ELSE {}
      BY <3>1, <3>3
    <3>. HIDE DEF W
    <3>5. {r.version : r \in [id : {id}, version : W]} = W
      <4>1. \A w \in W : [id |-> id, version |-> w] \in [id : {id}, version : W]
                         /\ [id |-> id, version |-> w].version = w
        OBVIOUS
      <4>2. \A r \in [id : {id}, version : W] : r.version \in W
        OBVIOUS
      <4>. QED
        BY <4>1, <4>2
    <3>. QED
      BY <3>2, <3>4, <3>5 DEF W
  <2>. QED
    BY <1>1, <1>2, <1>3, <2>2, <2>3 DEF Mirrors
<1>8. Right(p)' \/ pc'[p] = "idle" \/ hindered[n]
  BY <1>5, <1>7 DEF Right, WithId, AtDatabase
<1>. QED
  BY <1>0, <1>2, <1>5, <1>6, <1>7, <1>8, UndisturbedStep DEF NoFault

LEMMA UndisturbedNext ==
    ASSUME TypeOK, ImporterInv, UndisturbedInv, [Next]_vars
    PROVE  UndisturbedInv'
<1>1. ASSUME NEW p \in Processes, OpenFiles(p) \/ LockFiles(p) \/ WriteFiles(p) \/ WriteFails(p)
      PROVE  UndisturbedInv'
  <2>1. /\ NameOf(p) \in Names /\ pc[p] # "idle" /\ UNCHANGED <<database, job, tx>>
        /\ \A m \in Names \ {NameOf(p)} : files'[m] = files[m]
        /\ hindered' = hindered \/ Hinder(p)
    BY <1>1, NameType
    DEF OpenFiles, LockFiles, WriteFiles, WriteFails, NoFault, Fault, TypeOK
  <2>2. PICK label \in {"lock", "write", "read"} : Goto(p, label)
    BY <1>1 DEF OpenFiles, LockFiles, WriteFiles, WriteFails
  <2>3. Right(p)'
    BY <2>2, GotoOthers DEF Right, WithId, AtDatabase
  <2>. QED
    BY <2>1, <2>2, <2>3, WorkUndisturbed DEF database
<1>2. ASSUME NEW p \in Processes, Notify(p) PROVE UndisturbedInv'
  <2>0. PICK n \in Names : n = NameOf(p)
    BY NameType
  <2>1. /\ pc[p] = "notify" /\ UNCHANGED <<files, database, hindered>>
        /\ Apart(p) /\ pc'[p] = "idle"
    BY <1>2, EndTxApart DEF Notify, NoFault
  <2>2. Elsewhere(n) /\ Mirrors(n)' = Mirrors(n)
    BY <2>1, MirrorsStays DEF Elsewhere, database
  <2>3. ~hindered[n] => Mirrors(n)
    BY <2>0, <2>1, Alone DEF Right
  <2>. QED
    BY <2>0, <2>1, <2>2, <2>3, UndisturbedStep
<1>3. ASSUME NEW p \in Processes, FilesFail(p) PROVE UndisturbedInv'
  <2>. DEFINE n == NameOf(p)
  <2>1. /\ n \in Names /\ pc[p] # "idle" /\ UNCHANGED database /\ Hinder(p)
        /\ EndTx(p, "idle", "blocked")
        /\ \A m \in Names \ {n} : files'[m] = files[m]
    BY <1>3, NameType DEF FilesFail, Fault, TypeOK
  <2>2. hindered'[n]
    BY <2>1 DEF Hinder, TypeOK
  <2>. QED
    BY <2>1, <2>2, StopUndisturbed DEF database
<1>4. ASSUME NEW p \in Processes, StatementFails(p) \/ Crash(p) PROVE UndisturbedInv'
  <2>1. NameOf(p) \in Names /\ pc[p] # "idle" /\ Abort(p) /\ Hinder(p)
    BY <1>4, NameType DEF StatementFails, Crash, Fault
  <2>. QED
    BY <2>1, AbortUndisturbed
<1>5. CASE UNCHANGED vars
  <2>1. UNCHANGED <<files, index, sru, pc, job, tx, hindered>>
    BY <1>5 DEF vars, database
  <2>2. \A m \in Names : Mirrors(m)' = Mirrors(m) /\ Active(m)' = Active(m)
    BY <2>1, MirrorsStays DEF Active, NameOf
  <2>3. \A q \in Processes : Right(q)' = Right(q)
    BY <2>1, <2>2, NameType DEF Right, NameOf
  <2>4. \A m \in Names : Active(m) \subseteq Processes
    BY DEF Active
  <2>. QED
    BY <2>1, <2>2, <2>3, <2>4 DEF UndisturbedInv
<1>. QED
  BY <1>1, <1>2, <1>3, <1>4, <1>5, BeginUndisturbed, DatabaseUndisturbed, ExtraUndisturbed,
     CommitUndisturbed DEF Next, Work, Failure

(***************************************************************************)
(* One writeToFile or import that nothing gets in the way of makes rows,   *)
(* metadata and product those of the files, for every number of datasets   *)
(* and processes, and after any history of collisions and failures.        *)
(***************************************************************************)
THEOREM UndisturbedMirror == Spec => []UndisturbedImportsMirror
<1>1. Init => UndisturbedInv
  BY ImporterAssumption DEF Init, UndisturbedInv, Active, ImporterAssumption
<1>2. TypeOK /\ ImporterInv /\ UndisturbedInv /\ [Next]_vars => UndisturbedInv'
  BY UndisturbedNext
<1>3. UndisturbedInv => UndisturbedImportsMirror
  BY DEF UndisturbedInv, UndisturbedImportsMirror
<1>. QED
  BY <1>1, <1>2, <1>3, ImporterInvariant, PTL DEF Spec
=============================================================================
