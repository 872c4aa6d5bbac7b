-------------------------- MODULE OaiSource_proofs --------------------------
(***************************************************************************)
(* Proofs about the harvester and a repository that keeps to OAI-PMH, for  *)
(* every set of records, every length of a day, and every number and kind  *)
(* of faults.                                                              *)
(***************************************************************************)
EXTENDS OaiSource, TLAPS, WellFoundedInduction

-----------------------------------------------------------------------------
\* The date of a time stamp is not after it.
LEMMA StartOfDayBound ==
    ASSUME NEW t \in Time
    PROVE  StartOfDay(t) \in Int /\ StartOfDay(t) <= t
<1>1. MaxTime \in Nat /\ DayLength \in Nat \ {0}
  BY CommonAssumption DEF CommonAssumption
<1>2. t \in Nat
  BY <1>1 DEF Time
<1>3. \A d \in Nat \ {0} : (t \div d) \in Int /\ (t \div d) * d <= t
  BY <1>2
<1>. QED
  BY <1>1, <1>2, <1>3 DEF StartOfDay, Day

LEMMA FromBound ==
    ASSUME HarvesterTypeOK
    PROVE  /\ From \in Int
           /\ \A t \in Time : hsTime # Never /\ hsTime <= t => From <= t
           /\ \A t \in Time : hsTime = Never => From <= t
<1>1. MaxTime \in Nat
  BY CommonAssumption DEF CommonAssumption
<1>2. CASE hsTime = Never
  BY <1>1, <1>2 DEF From, Time
<1>3. CASE hsTime # Never
  <2>1. hsTime \in Time
    BY <1>3 DEF HarvesterTypeOK
  <2>2. StartOfDay(hsTime) \in Int /\ StartOfDay(hsTime) <= hsTime
    BY <2>1, StartOfDayBound
  <2>. QED
    BY <1>1, <1>3, <2>1, <2>2 DEF From, Time
<1>. QED
  BY <1>2, <1>3

\* The records of a page are processed in the order of their ids.
LEMMA FirstIsSmallest ==
    ASSUME NEW records \in SUBSET Records, records # {}
    PROVE  First(records) \in records
<1>. DEFINE S == {r.id : r \in records}
            LT == {ss \in Nat \X Nat : ss[1] < ss[2]}
<1>1. S \in SUBSET Nat /\ S # {}
  BY CommonAssumption DEF CommonAssumption, Records
<1>2. \A y \in S : \E r \in records : r.id = y
  OBVIOUS
<1>3. \A r \in records : r.id \in S
  OBVIOUS
<1>. HIDE DEF S
<1>4. IsWellFoundedOn(LT, Nat)
  BY NatLessThanWellFounded DEF OpToRel
<1>5. PICK x \in S : \A y \in S : ~ (<<y, x>> \in LT)
  BY <1>1, <1>4, WFMin
<1>6. \A y \in S : x <= y
  <2>1. SUFFICES ASSUME NEW y \in S, y < x PROVE FALSE
    BY <1>1
  <2>2. <<y, x>> \in Nat \X Nat
    BY <1>1
  <2>. QED
    BY <1>5, <2>1, <2>2
<1>7. PICK r \in records : r.id = x
  BY <1>2
<1>8. \A s \in records : r.id <= s.id
  BY <1>3, <1>6, <1>7
<1>. QED
  BY <1>8 DEF First
-----------------------------------------------------------------------------
(***************************************************************************)
(* The inductive invariant.  Its parts: where the harvester is, a page is  *)
(* empty or not, and the rest is empty when no token is left; the time     *)
(* stamps it compares were taken in this order; what is on a page was the  *)
(* state of its record when it was delivered, is the last thing the copy   *)
(* has to catch up with, and is there once; files and rows follow each     *)
(* other; and what a running harvest will let HS_time pass is still in the *)
(* list, on the page, copied, or lost.                                     *)
(***************************************************************************)
PageInv ==
    /\ hpc \in {"idle", "first", "more"} => page = {}
    /\ hpc = "import" => page # {} /\ files[First(page).id] = Entry(First(page))
    /\ hpc # "first" /\ next = NoToken => rest = {} \/ hpc = "idle"
    /\ \A i \in rest : src[i] # Absent

ClockInv ==
    /\ asked <= now
    /\ txn # Never => txn <= now
    /\ hsTime # Never => hsTime <= now /\ (hpc # "idle" => hsTime <= asked)
    /\ \A i \in Ids : src[i] # Absent => src[i].stamp <= now

Current(r) == r.stamp = src[r.id].stamp /\ r.status = src[r.id].status

DeliveryInv ==
    /\ \A r \in page :
          /\ src[r.id] # Absent
          /\ Current(r) \/ src[r.id].stamp >= asked
          /\ r.stamp <= src[r.id].stamp
          /\ rows[r.id] # Absent => rows[r.id].stamp <= r.stamp
    /\ \A r, s \in page : r.id = s.id => r = s

CopyInv ==
    \A i \in Ids :
        /\ files[i] = Absent => rows[i] = Absent
        /\ rows[i] # Absent => src[i] # Absent /\ rows[i].stamp <= src[i].stamp

HarvestInv ==
    hpc # "idle" =>
        \A i \in Ids : src[i] # Absent /\ src[i].stamp < asked =>
            \/ i \in lost \/ Mirrors(i)
            \/ i \in rest
            \/ \E r \in page : r.id = i

SourceInv ==
    /\ TypeOK
    /\ PageInv /\ ClockInv /\ DeliveryInv /\ CopyInv
    /\ HarvestInv /\ OnlyLostAreMissed
-----------------------------------------------------------------------------
(***************************************************************************)
(* The two ways a harvest ends.                                            *)
(***************************************************************************)

\* A die leaves HS_time alone.
LEMMA GiveUpStep ==
    ASSUME SourceInv, GiveUp, UNCHANGED <<now, src, rest, asked, rows>>,
           faultsLeft' \in 0 .. MaxFaults,
           files' \in [Ids -> Entries \cup {Absent, Torn}],
           \A i \in Ids : files'[i] = Absent => files[i] = Absent,
           lost' \subseteq Ids, \A i \in lost : i \in lost' \/ Mirrors(i)'
    PROVE  SourceInv'
<1>. USE DEF SourceInv, GiveUp, EndHarvest
<1>1. TypeOK'
  BY DEF TypeOK, HarvesterTypeOK
<1>2. PageInv' /\ DeliveryInv' /\ HarvestInv'
  BY DEF PageInv, DeliveryInv, HarvestInv
<1>3. ClockInv'
  BY DEF ClockInv
<1>4. CopyInv'
  BY DEF CopyInv
<1>5. OnlyLostAreMissed'
  BY DEF OnlyLostAreMissed, Mirrors, From
<1>. QED
  BY <1>1, <1>2, <1>3, <1>4, <1>5

\* updatestatus lets HS_time pass what is read, and what was changed meanwhile.
LEMMA UpdateStep ==
    ASSUME SourceInv, UpdateStatus, hpc # "idle",
           UNCHANGED <<now, src, rest, asked, copies>>,
           faultsLeft' \in 0 .. MaxFaults,
           lost' \subseteq Ids, \A i \in lost \cup ChangedMeanwhile : i \in lost' \/ Mirrors(i)',
           From' > From =>
              \A i \in Ids : i \in rest \/ (\E r \in page : r.id = i) => i \in lost' \/ Mirrors(i)'
    PROVE  SourceInv'
<1>. USE DEF SourceInv, UpdateStatus, EndHarvest, copies
<1>1. TypeOK'
  BY DEF TypeOK, HarvesterTypeOK
<1>2. PageInv' /\ DeliveryInv' /\ HarvestInv'
  BY DEF PageInv, DeliveryInv, HarvestInv
<1>3. ClockInv'
  <2>1. now \in Int
    BY CommonAssumption DEF CommonAssumption, TypeOK, Time
  <2>. QED
    BY <2>1 DEF ClockInv
<1>4. CopyInv'
  BY DEF CopyInv
<1>5. OnlyLostAreMissed'
  <2>1. SUFFICES ASSUME NEW i \in Ids, i \notin lost', src[i] # Absent, src[i].stamp < From'
                 PROVE  Mirrors(i)'
    BY DEF OnlyLostAreMissed
  <2>2. Mirrors(i)' <=> Mirrors(i)
    BY DEF Mirrors
  <2>3. From \in Int /\ src[i].stamp \in Int /\ asked \in Int
    BY <2>1, FromBound, CommonAssumption DEF TypeOK, Entries, Time, CommonAssumption
  <2>4. From' \in Int
    <3>1. hsTime' \in Time
      BY <1>1, HarvesterAssumption DEF TypeOK, HarvesterTypeOK, HarvesterAssumption
    <3>. QED
      BY <3>1, StartOfDayBound DEF From
  <2>5. CASE src[i].stamp < From
    BY <2>1, <2>2, <2>5 DEF OnlyLostAreMissed
  <2>6. CASE src[i].stamp >= asked
    BY <2>1, <2>3, <2>4, <2>6 DEF ChangedMeanwhile
  <2>7. CASE src[i].stamp >= From /\ src[i].stamp < asked
    BY <2>1, <2>2, <2>3, <2>4, <2>7 DEF HarvestInv
  <2>. QED
    BY <2>3, <2>5, <2>6, <2>7
<1>. QED
  BY <1>1, <1>2, <1>3, <1>4, <1>5
-----------------------------------------------------------------------------
\* What Lose leaves out of the lost records is copied.
LEMMA LoseType ==
    ASSUME NEW ids \in SUBSET Ids, Lose(ids)
    PROVE  lost' \subseteq Ids /\ \A i \in ids : i \in lost' \/ Mirrors(i)'
BY DEF Lose

LEMMA FaultType ==
    ASSUME SourceInv
    PROVE  /\ \A f \in AllFaults : Fault(f) => faultsLeft' \in 0 .. MaxFaults
           /\ NoFault => faultsLeft' \in 0 .. MaxFaults
<1>1. faultsLeft \in 0 .. MaxFaults /\ MaxFaults \in Nat
  BY HarvesterAssumption DEF SourceInv, TypeOK, HarvesterTypeOK, HarvesterAssumption
<1>. QED
  BY <1>1 DEF Fault, NoFault

LEMMA ChangeStep ==
    ASSUME SourceInv, NEW i \in Ids, NEW status \in {"active", "deleted"}, Change(i, status)
    PROVE  SourceInv'
<1>. USE DEF SourceInv, Change, harvester, copies
<1>1. now \in Time /\ now \in Int /\ asked \in Int
  BY CommonAssumption DEF TypeOK, CommonAssumption, Time
<1>2. /\ src' \in [Ids -> Entries \cup {Absent}]
      /\ src'[i] = [stamp |-> now, status |-> status]
      /\ \A j \in Ids \ {i} : src'[j] = src[j]
  BY <1>1 DEF TypeOK, Entries
<1>3. src'[i] # Absent
  BY <1>1, <1>2, EntryAssumption DEF Entries
<1>4. \A j \in Ids \ {i} : Mirrors(j)' <=> Mirrors(j)
  BY <1>2 DEF Mirrors
<1>5. TypeOK'
  BY <1>2 DEF TypeOK, HarvesterTypeOK
<1>6. PageInv'
  BY <1>2, <1>3 DEF PageInv
<1>7. ClockInv'
  BY <1>1, <1>2 DEF ClockInv
<1>8. DeliveryInv'
  <2>1. SUFFICES ASSUME NEW r \in page
                 PROVE  /\ src'[r.id] # Absent
                        /\ Current(r)' \/ src'[r.id].stamp >= asked
                        /\ r.stamp <= src'[r.id].stamp
    BY DEF DeliveryInv
  <2>2. CASE r.id = i
    <3>1. r.stamp <= src[i].stamp /\ src[i] # Absent /\ src[i].stamp <= now
      BY <2>2 DEF DeliveryInv, ClockInv
    <3>2. r.stamp \in Int /\ src[i].stamp \in Int
      BY <2>1, <3>1, CommonAssumption DEF TypeOK, HarvesterTypeOK, Records, Entries, Time, CommonAssumption
    <3>. QED
      BY <1>1, <1>2, <1>3, <2>2, <3>1, <3>2 DEF ClockInv
  <2>3. CASE r.id # i
    <3>1. r.id \in Ids \ {i}
      BY <2>1, <2>3 DEF TypeOK, HarvesterTypeOK, Records
    <3>. QED
      BY <1>2, <2>1, <3>1 DEF DeliveryInv, Current
  <2>. QED
    BY <2>2, <2>3
<1>9. CopyInv'
  <2>1. \A j \in Ids : rows[j] # Absent => rows[j].stamp \in Int /\ src[j].stamp \in Int
    BY CommonAssumption DEF CopyInv, TypeOK, HarvesterTypeOK, Entries, Time, CommonAssumption
  <2>. QED
    BY <1>1, <1>2, <1>3, <2>1 DEF CopyInv, ClockInv
<1>10. HarvestInv'
  <2>1. asked <= now
    BY DEF ClockInv
  <2>. QED
    BY <1>1, <1>2, <1>4, <2>1 DEF HarvestInv
<1>11. OnlyLostAreMissed'
  <2>1. From <= now /\ From \in Int /\ From' = From
    BY <1>1, FromBound DEF TypeOK, ClockInv, From
  <2>. QED
    BY <1>1, <1>2, <1>4, <2>1 DEF OnlyLostAreMissed
<1>. QED
  BY <1>5, <1>6, <1>7, <1>8, <1>9, <1>10, <1>11

LEMMA AskStep ==
    ASSUME SourceInv, Ask
    PROVE  SourceInv'
<1>. USE DEF SourceInv, Ask, StartHarvest, copies
<1>1. now \in Time /\ now \in Int
  BY CommonAssumption DEF TypeOK, CommonAssumption, Time
<1>2. From' = From /\ From \in Int /\ page = {}
  BY FromBound DEF From, TypeOK, PageInv
<1>3. \A i \in Ids : Mirrors(i)' <=> Mirrors(i)
  BY DEF Mirrors
<1>4. TypeOK'
  BY <1>1 DEF TypeOK, HarvesterTypeOK
<1>5. PageInv' /\ DeliveryInv' /\ CopyInv'
  BY <1>2 DEF PageInv, DeliveryInv, CopyInv, Listed
<1>6. ClockInv'
  BY <1>1 DEF ClockInv
<1>7. HarvestInv'
  <2>1. SUFFICES ASSUME NEW i \in Ids, src[i] # Absent, i \notin lost, ~ Mirrors(i)
                 PROVE  i \in rest'
    BY <1>3 DEF HarvestInv
  <2>2. src[i].stamp \in Int
    BY <2>1, CommonAssumption DEF TypeOK, Entries, Time, CommonAssumption
  <2>3. ~ (src[i].stamp < From)
    BY <2>1 DEF OnlyLostAreMissed
  <2>. QED
    BY <1>2, <2>1, <2>2, <2>3 DEF Listed
<1>8. OnlyLostAreMissed'
  BY <1>2, <1>3 DEF OnlyLostAreMissed
<1>. QED
  BY <1>4, <1>5, <1>6, <1>7, <1>8

LEMMA AskMoreStep ==
    ASSUME SourceInv, AskMore
    PROVE  SourceInv'
<1>. USE DEF SourceInv, AskMore, FollowToken, copies
<1>1. \A i \in Ids : Mirrors(i)' <=> Mirrors(i)
  BY DEF Mirrors
<1>2. TypeOK'
  BY DEF TypeOK, HarvesterTypeOK
<1>3. PageInv' /\ ClockInv' /\ CopyInv'
  BY DEF PageInv, ClockInv, CopyInv
<1>4. DeliveryInv' /\ HarvestInv' /\ OnlyLostAreMissed'
  BY <1>1 DEF DeliveryInv, HarvestInv, OnlyLostAreMissed, From, Current
<1>. QED
  BY <1>2, <1>3, <1>4

LEMMA PassTimeStep ==
    ASSUME SourceInv, PassTime
    PROVE  SourceInv'
<1>. USE DEF SourceInv, PassTime, Tick, harvester, copies
<1>1. now \in Int /\ now' \in Time /\ now' = now + 1
  BY CommonAssumption DEF TypeOK, CommonAssumption, Time
<1>2. \A i \in Ids : Mirrors(i)' <=> Mirrors(i)
  BY DEF Mirrors
<1>3. TypeOK'
  BY <1>1 DEF TypeOK, HarvesterTypeOK
<1>4. ClockInv'
  <2>1. /\ asked \in Int
        /\ txn # Never => txn \in Int
        /\ hsTime # Never => hsTime \in Int
        /\ \A i \in Ids : src[i] # Absent => src[i].stamp \in Int
    BY CommonAssumption DEF TypeOK, HarvesterTypeOK, Entries, Time, CommonAssumption
  <2>. QED
    BY <1>1, <2>1 DEF ClockInv
<1>5. PageInv' /\ DeliveryInv' /\ CopyInv'
  BY DEF PageInv, DeliveryInv, CopyInv, Current, Entry
<1>6. HarvestInv' /\ OnlyLostAreMissed'
  BY <1>2 DEF HarvestInv, OnlyLostAreMissed, From
<1>. QED
  BY <1>3, <1>4, <1>5, <1>6

\* A page takes its records out of the rest, and holds them as they are now.
LEMMA DeliverStep ==
    ASSUME SourceInv, NEW last \in rest, Deliver(last)
    PROVE  SourceInv'
<1>. DEFINE ids == {i \in rest : i <= last}
<1>. USE DEF SourceInv, Deliver, Receive, copies, NoFault
<1>1. /\ Waiting /\ hpc' = "records"
      /\ page' = {RecordOf(i) : i \in ids}
      /\ rest' = rest \ ids
      /\ next' = IF rest' = {} THEN NoToken ELSE Token
      /\ UNCHANGED <<now, hsTime, txn, files, rows, faultsLeft, src, asked, lost>>
  BY DEF Error
<1>2. ids \subseteq Ids /\ \A i \in ids : src[i] # Absent /\ src[i] \in Entries
  BY DEF TypeOK, PageInv
<1>3. \A i \in ids : RecordOf(i) \in Records /\ RecordOf(i).id = i
  BY <1>2 DEF RecordOf, Records, Entries
<1>4. \A r \in page' : r.id \in ids /\ r = RecordOf(r.id)
  BY <1>1, <1>3
<1>5. TypeOK'
  BY <1>1, <1>3 DEF TypeOK, HarvesterTypeOK
<1>6. PageInv'
  BY <1>1, SourceAssumption DEF PageInv, SourceAssumption
<1>7. ClockInv'
  BY <1>1 DEF ClockInv, Waiting
<1>8. CopyInv' /\ OnlyLostAreMissed'
  BY <1>1 DEF CopyInv, OnlyLostAreMissed, Mirrors, From
<1>9. DeliveryInv'
  <2>1. \A r \in page' : r.stamp = src[r.id].stamp /\ r.status = src[r.id].status
    BY <1>4 DEF RecordOf
  <2>2. \A r \in page' : src[r.id].stamp \in Int
    BY <1>2, <1>4, CommonAssumption DEF Entries, Time, CommonAssumption
  <2>. QED
    BY <1>1, <1>2, <1>4, <2>1, <2>2 DEF DeliveryInv, Current, CopyInv
<1>10. HarvestInv'
  <2>1. \A i \in ids : \E r \in page' : r.id = i
    BY <1>1, <1>3
  <2>2. \A i \in Ids : Mirrors(i)' <=> Mirrors(i)
    BY <1>1 DEF Mirrors
  <2>3. page = {} /\ hpc # "idle"
    BY <1>1 DEF PageInv, Waiting
  <2>. QED
    BY <1>1, <2>1, <2>2, <2>3 DEF HarvestInv
<1>. QED
  BY <1>5, <1>6, <1>7, <1>8, <1>9, <1>10

LEMMA DeliverNothingStep ==
    ASSUME SourceInv, DeliverNothing
    PROVE  SourceInv'
<1>. USE DEF DeliverNothing, Receive, Error
<1>1. UpdateStatus /\ hpc \in {"first", "more"}
  BY DEF Waiting
<1>2. page = {} /\ rest = {}
  BY <1>1 DEF SourceInv, PageInv
<1>3. /\ lost' \subseteq Ids
      /\ \A i \in lost \cup ChangedMeanwhile : i \in lost' \/ Mirrors(i)'
  <2>. lost \cup ChangedMeanwhile \subseteq Ids
    BY DEF ChangedMeanwhile, SourceInv, TypeOK
  <2>. QED
    BY LoseType
<1>. QED
  BY <1>1, <1>2, <1>3, FaultType, UpdateStep

LEMMA ExpireStep ==
    ASSUME SourceInv, Expire
    PROVE  SourceInv'
<1>. USE DEF Expire, Receive, Error
<1>1. GiveUp /\ UNCHANGED <<now, src, rest, asked, lost, files, rows>>
  BY DEF copies
<1>2. faultsLeft' \in 0 .. MaxFaults
  BY FaultType DEF AllFaults
<1>. QED
  BY <1>1, <1>2, GiveUpStep DEF SourceInv, TypeOK, HarvesterTypeOK

(***************************************************************************)
(* What the harvester does without an answer of the source.                *)
(***************************************************************************)

\* A record or an empty body breaks the list off: the rest of it is passed over.
LEMMA BreakOffStep ==
    ASSUME SourceInv, RejectRecord \/ EmptyResponse,
           UNCHANGED <<now, src, rest, asked>>,
           Lose(lost \cup Unread \cup ChangedMeanwhile)
    PROVE  SourceInv'
<1>. USE DEF RejectRecord, EmptyResponse
<1>1. lost \cup Unread \cup ChangedMeanwhile \subseteq Ids
  BY DEF Unread, ChangedMeanwhile, SourceInv, TypeOK
<1>2. /\ lost' \subseteq Ids
      /\ \A i \in lost \cup Unread \cup ChangedMeanwhile : i \in lost' \/ Mirrors(i)'
  BY <1>1, LoseType
<1>3. faultsLeft' \in 0 .. MaxFaults
  BY FaultType DEF AllFaults
<1>4. CASE GiveUp
  BY <1>2, <1>3, <1>4, GiveUpStep DEF copies, SourceInv, TypeOK, HarvesterTypeOK
<1>5. CASE UpdateStatus /\ hpc # "idle"
  <2>1. From' > From =>
           \A i \in Ids : i \in rest \/ (\E r \in page : r.id = i) => i \in lost' \/ Mirrors(i)'
    BY <1>2 DEF Unread
  <2>. QED
    BY <1>2, <1>3, <1>5, <2>1, UpdateStep
<1>. QED
  BY <1>4, <1>5 DEF Waiting

\* The loop has ended: nothing of the list is left, and HS_time is written or not.
LEMMA FinishListStep ==
    ASSUME SourceInv, FinishList, UNCHANGED <<now, src, rest, asked>>,
           Lose(lost \cup ChangedMeanwhile)
    PROVE  SourceInv'
<1>. USE DEF FinishList
<1>1. page = {} /\ rest = {} /\ hpc = "records"
  BY DEF SourceInv, PageInv
<1>2. lost \cup ChangedMeanwhile \subseteq Ids
  BY DEF ChangedMeanwhile, SourceInv, TypeOK
<1>3. /\ lost' \subseteq Ids
      /\ \A i \in lost \cup ChangedMeanwhile : i \in lost' \/ Mirrors(i)'
  BY <1>2, LoseType
<1>4. faultsLeft' \in 0 .. MaxFaults
  BY FaultType DEF AllFaults
<1>5. CASE UpdateStatus
  BY <1>1, <1>3, <1>4, <1>5, UpdateStep
<1>6. CASE GiveUp
  BY <1>3, <1>4, <1>6, GiveUpStep DEF copies, SourceInv, TypeOK, HarvesterTypeOK
<1>. QED
  BY <1>5, <1>6

\* A failed request and a crash leave HS_time alone; the crash may leave a torn
\* file, which is there none the less.
LEMMA FailureStep ==
    ASSUME SourceInv, BadResponse \/ Crash, UNCHANGED <<now, src, rest, asked>>,
           Lose(lost \cup ChangedMeanwhile)
    PROVE  SourceInv'
<1>1. lost \cup ChangedMeanwhile \subseteq Ids
  BY DEF ChangedMeanwhile, SourceInv, TypeOK
<1>2. lost' \subseteq Ids /\ \A i \in lost : i \in lost' \/ Mirrors(i)'
  BY <1>1, LoseType
<1>3. GiveUp /\ rows' = rows /\ faultsLeft' \in 0 .. MaxFaults
  BY FaultType DEF BadResponse, Crash, AllFaults, copies
<1>4. /\ files' \in [Ids -> Entries \cup {Absent, Torn}]
      /\ \A i \in Ids : files'[i] = Absent => files[i] = Absent
  <2>1. files \in [Ids -> Entries \cup {Absent, Torn}]
    BY DEF SourceInv, TypeOK, HarvesterTypeOK
  <2>. QED
    BY <2>1, EntryAssumption DEF BadResponse, Crash, copies
<1>. QED
  BY <1>2, <1>3, <1>4, GiveUpStep

\* The file pair gets what the page says of its record.
LEMMA WriteFileStep ==
    ASSUME SourceInv, WriteFile, UNCHANGED <<now, src, rest, asked>>,
           Lose(lost \cup ChangedMeanwhile)
    PROVE  SourceInv'
<1>1. PICK r \in page : /\ Writing(r)
                        /\ Write(r) \/ (WriteFails(r) /\ GiveUp)
  BY DEF WriteFile
<1>2. hpc = "records" /\ page # {} /\ r = First(page) /\ r \in Records
  BY <1>1 DEF Writing, SourceInv, TypeOK, HarvesterTypeOK
<1>3. Entry(r) \in Entries /\ r.id \in Ids
  BY <1>2 DEF Entry, Entries, Records
<1>4. files \in [Ids -> Entries \cup {Absent, Torn}]
  BY DEF SourceInv, TypeOK, HarvesterTypeOK
<1>5. lost \cup ChangedMeanwhile \subseteq Ids
  BY DEF ChangedMeanwhile, SourceInv, TypeOK
<1>6. /\ lost' \subseteq Ids
      /\ \A i \in lost \cup ChangedMeanwhile : i \in lost' \/ Mirrors(i)'
  BY <1>5, LoseType
<1>7. CASE WriteFails(r) /\ GiveUp
  <2>1. rows' = rows /\ faultsLeft' \in 0 .. MaxFaults
    BY <1>7, FaultType DEF WriteFails, AllFaults
  <2>2. /\ files' \in [Ids -> Entries \cup {Absent, Torn}]
        /\ \A i \in Ids : files'[i] = Absent => files[i] = Absent
    BY <1>3, <1>4, <1>7, EntryAssumption DEF WriteFails
  <2>. QED
    BY <1>6, <1>7, <2>1, <2>2, GiveUpStep
<1>8. CASE Write(r)
  <2>. USE <1>8 DEF Write, NoFault
  <2>1. files' \in [Ids -> Entries \cup {Absent, Torn}] /\ files'[r.id] = Entry(r)
    BY <1>3, <1>4
  <2>2. \A i \in Ids : Mirrors(i)' <=> Mirrors(i)
    BY DEF Mirrors
  <2>3. \A i \in lost : i \in lost' \/ Mirrors(i)
    BY <1>5, <1>6, <2>2
  <2>4. TypeOK'
    BY <1>6, <2>1 DEF SourceInv, TypeOK, HarvesterTypeOK
  <2>5. PageInv'
    BY <1>2, <2>1 DEF SourceInv, PageInv
  <2>6. ClockInv' /\ DeliveryInv'
    BY <1>2 DEF SourceInv, ClockInv, DeliveryInv, Current
  <2>7. CopyInv'
    BY <1>3, <1>4, <2>1, EntryAssumption DEF SourceInv, CopyInv
  <2>8. HarvestInv' /\ OnlyLostAreMissed'
    BY <1>2, <2>2, <2>3 DEF SourceInv, HarvestInv, OnlyLostAreMissed, From
  <2>. QED
    BY <2>4, <2>5, <2>6, <2>7, <2>8 DEF SourceInv
<1>. QED
  BY <1>1, <1>7, <1>8

\* A record leaves the page: when nothing newer came since the list was asked
\* for, the copy is what the source holds, or the record is lost.
LEMMA LeavePageStep ==
    ASSUME SourceInv, NEW r \in page, hpc \in {"records", "import"},
           hpc' = "records", page' = page \ {r},
           UNCHANGED <<now, src, rest, asked, hsTime, next, files>>,
           txn' \in {txn, Never}, faultsLeft' \in 0 .. MaxFaults,
           rows' \in [Ids -> Entries \cup {Absent}],
           \A i \in Ids \ {r.id} : rows'[i] = rows[i],
           lost' \subseteq Ids, \A i \in lost : i \in lost' \/ Mirrors(i)',
           rows'[r.id] = rows[r.id] \/ rows'[r.id] = Entry(r),
           rows'[r.id] # Absent => files[r.id] # Absent,
           Current(r) => r.id \in lost' \/ Mirrors(r.id)'
    PROVE  SourceInv'
<1>1. /\ r \in Records /\ r.id \in Ids /\ r.stamp \in Int /\ src[r.id].stamp \in Int
      /\ src[r.id] # Absent
  <2>1. r \in Records /\ r.id \in Ids /\ r.stamp \in Time
    BY DEF SourceInv, TypeOK, HarvesterTypeOK, Records
  <2>2. src[r.id] # Absent /\ src[r.id] \in Entries \cup {Absent}
    BY <2>1 DEF SourceInv, TypeOK, DeliveryInv
  <2>. QED
    BY <2>1, <2>2, CommonAssumption DEF Entries, Time, CommonAssumption
<1>2. r.stamp <= src[r.id].stamp
  BY DEF SourceInv, DeliveryInv
<1>3. \A i \in Ids \ {r.id} : Mirrors(i)' <=> Mirrors(i)
  BY DEF Mirrors
<1>4. TypeOK'
  BY DEF SourceInv, TypeOK, HarvesterTypeOK
<1>5. PageInv'
  BY DEF SourceInv, PageInv
<1>6. ClockInv'
  BY DEF SourceInv, ClockInv
<1>7. DeliveryInv'
  <2>1. \A s \in page' : s \in page /\ s.id \in Ids \ {r.id}
    BY <1>1 DEF SourceInv, TypeOK, HarvesterTypeOK, DeliveryInv, Records
  <2>. QED
    BY <2>1 DEF SourceInv, DeliveryInv, Current
<1>8. CopyInv'
  BY <1>1, <1>2 DEF SourceInv, CopyInv, Entry
<1>9. \A i \in Ids \ {r.id} : (\E s \in page : s.id = i) => \E s \in page' : s.id = i
  OBVIOUS
<1>10. HarvestInv'
  <2>1. SUFFICES ASSUME NEW i \in Ids, src[i] # Absent, src[i].stamp < asked
                 PROVE  i \in lost' \/ Mirrors(i)' \/ i \in rest \/ \E s \in page' : s.id = i
    BY DEF HarvestInv
  <2>2. CASE i = r.id
    <3>1. asked \in Int
      BY CommonAssumption DEF SourceInv, TypeOK, Time, CommonAssumption
    <3>. QED
      BY <1>1, <2>1, <2>2, <3>1 DEF SourceInv, DeliveryInv
  <2>3. CASE i # r.id
    BY <1>3, <1>9, <2>1, <2>3 DEF SourceInv, HarvestInv
  <2>. QED
    BY <2>2, <2>3
<1>11. OnlyLostAreMissed'
  <2>1. SUFFICES ASSUME NEW i \in Ids, i \notin lost', src[i] # Absent, src[i].stamp < From
                 PROVE  Mirrors(i)'
    BY DEF OnlyLostAreMissed, From
  <2>2. CASE i = r.id
    <3>1. asked \in Int /\ asked \in Time /\ From \in Int /\ From <= asked
      BY FromBound, CommonAssumption DEF SourceInv, TypeOK, ClockInv, Time, CommonAssumption
    <3>. QED
      BY <1>1, <2>1, <2>2, <3>1 DEF SourceInv, DeliveryInv
  <2>3. CASE i # r.id
    BY <1>3, <2>1, <2>3 DEF SourceInv, OnlyLostAreMissed
  <2>. QED
    BY <2>2, <2>3
<1>. QED
  BY <1>4, <1>5, <1>6, <1>7, <1>8, <1>10, <1>11 DEF SourceInv

\* A deleted record without a file has no row either, and needs none.
LEMMA SkipRecordStep ==
    ASSUME SourceInv, SkipRecord, UNCHANGED <<now, src, rest, asked>>,
           Lose(lost \cup ChangedMeanwhile)
    PROVE  SourceInv'
<1>. USE DEF SkipRecord, copies
<1>1. PICK r \in page : r = First(page) /\ r.id \in Ids
  BY FirstIsSmallest DEF SourceInv, TypeOK, HarvesterTypeOK, Records
<1>2. lost \cup ChangedMeanwhile \subseteq Ids
  BY DEF ChangedMeanwhile, SourceInv, TypeOK
<1>3. lost' \subseteq Ids /\ \A i \in lost : i \in lost' \/ Mirrors(i)'
  BY <1>2, LoseType
<1>4. r.status = "deleted" /\ files[r.id] = Absent /\ rows[r.id] = Absent
  BY <1>1 DEF Ignored, SourceInv, CopyInv
<1>5. Current(r) => Mirrors(r.id)'
  BY <1>4 DEF Current, Mirrors
<1>6. /\ faultsLeft' \in 0 .. MaxFaults
      /\ rows' \in [Ids -> Entries \cup {Absent}]
  BY DEF SourceInv, TypeOK, HarvesterTypeOK
<1>7. page' = page \ {r} /\ hpc = "records" /\ hpc' = "records"
  BY <1>1
<1>. QED
  BY <1>1, <1>3, <1>4, <1>5, <1>6, <1>7, LeavePageStep

\* An import makes the row what the file pair says, or fails and loses the record.
LEMMA ImportFileStep ==
    ASSUME SourceInv, ImportFile, UNCHANGED <<now, src, rest, asked>>,
           Lose(lost \cup NotImported)
    PROVE  SourceInv'
<1>0. hpc = "import" /\ page # {} /\ page \subseteq Records
  BY DEF ImportFile, SourceInv, PageInv, TypeOK, HarvesterTypeOK
<1>1. PICK r \in page : r = First(page)
  BY <1>0, FirstIsSmallest
<1>2. r \in Records /\ r.id \in Ids /\ files[r.id] = Entry(r)
  BY <1>0, <1>1 DEF SourceInv, PageInv, Records
<1>3. Entry(r) \in Entries /\ Entry(r) # Absent
  BY <1>2, EntryAssumption DEF Entry, Entries, Records
<1>4. rows \in [Ids -> Entries \cup {Absent}]
  BY DEF SourceInv, TypeOK, HarvesterTypeOK
<1>5. /\ rows' \in [Ids -> Entries \cup {Absent}]
      /\ \A i \in Ids \ {r.id} : rows'[i] = rows[i]
      /\ rows'[r.id] = rows[r.id] \/ rows'[r.id] = Entry(r)
  BY <1>1, <1>2, <1>3, <1>4 DEF ImportFile
<1>6. /\ lost' \subseteq Ids
      /\ \A i \in lost \cup NotImported : i \in lost' \/ Mirrors(i)'
  <2>. lost \cup NotImported \subseteq Ids
    BY DEF NotImported, SourceInv, TypeOK
  <2>. QED
    BY LoseType
<1>7. faultsLeft' \in 0 .. MaxFaults
  BY FaultType DEF ImportFile, AllFaults
<1>8. Current(r) => r.id \in lost' \/ Mirrors(r.id)'
  <2>1. CASE rows'[r.id] = Entry(r)
    <3>1. SUFFICES ASSUME Current(r) PROVE src'[r.id] = Entry(r)
      BY <2>1 DEF Mirrors
    <3>2. src[r.id] \in Entries
      BY <1>2 DEF SourceInv, DeliveryInv, TypeOK
    <3>. QED
      BY <3>1, <3>2 DEF Current, Entry, Entries
  <2>2. CASE rows'[r.id] # Entry(r)
    BY <1>1, <1>2, <1>6, <2>2 DEF NotImported
  <2>. QED
    BY <2>1, <2>2
<1>9. /\ hpc' = "records" /\ page' = page \ {r} /\ txn' = Never
      /\ UNCHANGED <<hsTime, next, files>>
  BY <1>1 DEF ImportFile
<1>. QED
  BY <1>0, <1>2, <1>3, <1>5, <1>6, <1>7, <1>8, <1>9, LeavePageStep
-----------------------------------------------------------------------------
(***************************************************************************)
(* The invariant, and what follows from it.                                *)
(***************************************************************************)

\* The invariant holds before the first harvest.
LEMMA SourceInit == Init => SourceInv
<1>. SUFFICES ASSUME Init PROVE SourceInv
  OBVIOUS
<1>. USE DEF Init, HarvesterInit
<1>1. TypeOK
  BY CommonAssumption, HarvesterAssumption
     DEF TypeOK, HarvesterTypeOK, Time, CommonAssumption, HarvesterAssumption
<1>2. PageInv /\ ClockInv /\ DeliveryInv /\ CopyInv /\ HarvestInv /\ OnlyLostAreMissed
  BY DEF PageInv, ClockInv, DeliveryInv, CopyInv, HarvestInv, OnlyLostAreMissed
<1>. QED
  BY <1>1, <1>2 DEF SourceInv

\* Every step keeps the invariant.
LEMMA SourceStep == SourceInv /\ [Next]_vars => SourceInv'
<1>. SUFFICES ASSUME SourceInv, [Next]_vars PROVE SourceInv'
  OBVIOUS
<1>1. CASE \E i \in Ids, status \in {"active", "deleted"} : Change(i, status)
  BY <1>1, ChangeStep
<1>2. CASE Ask
  BY <1>2, AskStep
<1>3. CASE AskMore
  BY <1>3, AskMoreStep
<1>4. CASE Answer
  BY <1>4, DeliverStep, DeliverNothingStep DEF Answer
<1>5. CASE Expire
  BY <1>5, ExpireStep
<1>6. CASE Local
  BY <1>6, BreakOffStep, FinishListStep, FailureStep, WriteFileStep, SkipRecordStep,
     ImportFileStep DEF Local
<1>7. CASE PassTime
  BY <1>7, PassTimeStep
<1>8. CASE UNCHANGED vars
  <2>. USE <1>8 DEF vars, harvester, SourceInv
  <2>1. TypeOK' /\ PageInv' /\ ClockInv' /\ CopyInv'
    BY DEF TypeOK, HarvesterTypeOK, PageInv, ClockInv, CopyInv
  <2>2. DeliveryInv' /\ HarvestInv' /\ OnlyLostAreMissed'
    BY DEF DeliveryInv, HarvestInv, OnlyLostAreMissed, Current, Mirrors, From
  <2>. QED
    BY <2>1, <2>2
<1>. QED
  BY <1>1, <1>2, <1>3, <1>4, <1>5, <1>6, <1>7, <1>8 DEF Next

\* The inductive invariant holds in every state of every behaviour.
LEMMA SourceInvariant == Spec => []SourceInv
  BY SourceInit, SourceStep, PTL DEF Spec

\* The harvester and its source are in a state of their types.
THEOREM SourceTyping == Spec => []TypeOK
<1>1. SourceInv => TypeOK
  BY DEF SourceInv
<1>. QED
  BY <1>1, SourceInvariant, PTL

(***************************************************************************)
(* updatestatus never lets HS_time pass a record that is not copied, but   *)
(* those harvester.pl passed over without notice.                          *)
(***************************************************************************)
THEOREM MissedAreLost == Spec => []OnlyLostAreMissed
<1>1. SourceInv => OnlyLostAreMissed
  BY DEF SourceInv
<1>. QED
  BY <1>1, SourceInvariant, PTL

(***************************************************************************)
(* No import makes a DataSet row older than it was, whatever list was      *)
(* broken off and asked for again.                                         *)
(***************************************************************************)
THEOREM CopiesGoForward == Spec => CopyNeverRegresses
<1>. DEFINE Forward == \A i \in Ids : rows[i] # Absent =>
                          rows'[i] # Absent /\ rows'[i].stamp >= rows[i].stamp
<1>1. SourceInv /\ [Next]_vars => [Forward]_rows
  <2>. SUFFICES ASSUME SourceInv, [Next]_vars, rows' # rows PROVE Forward
    OBVIOUS
  <2>1. ImportFile
    BY DEF Next, vars, harvester, copies, Change, Ask, StartHarvest, AskMore, FollowToken,
           Answer, Deliver, DeliverNothing, Receive, Expire, Local, RejectRecord, EmptyResponse,
           SkipRecord, WriteFile, Write, WriteFails, FinishList, BadResponse, Crash, PassTime, Tick
  <2>. DEFINE r == First(page)
  <2>2. hpc = "import" /\ page # {} /\ files[r.id] = Entry(r)
    BY <2>1 DEF ImportFile, SourceInv, PageInv
  <2>3. r \in page /\ r \in Records /\ r.id \in Ids
    BY <2>2, FirstIsSmallest DEF SourceInv, TypeOK, HarvesterTypeOK, Records
  <2>4. rows' = [rows EXCEPT ![r.id] = Entry(r)] /\ rows \in [Ids -> Entries \cup {Absent}]
    BY <2>1, <2>2 DEF ImportFile, SourceInv, TypeOK, HarvesterTypeOK
  <2>5. Entry(r) # Absent /\ Entry(r).stamp = r.stamp
    BY <2>3, EntryAssumption DEF Entry, Entries, Records
  <2>6. \A i \in Ids : rows[i] # Absent => rows[i].stamp \in Int
    BY <2>4, CommonAssumption DEF Entries, Time, CommonAssumption
  <2>7. rows[r.id] # Absent => rows[r.id].stamp <= r.stamp
    BY <2>3 DEF SourceInv, DeliveryInv
  <2>8. r.stamp \in Int
    BY <2>3, CommonAssumption DEF Records, Time, CommonAssumption
  <2>. HIDE DEF r
  <2>9. SUFFICES ASSUME NEW i \in Ids, rows[i] # Absent
                 PROVE  rows'[i] # Absent /\ rows'[i].stamp >= rows[i].stamp
    OBVIOUS
  <2>10. CASE i = r.id
    BY <2>3, <2>4, <2>5, <2>6, <2>7, <2>8, <2>9, <2>10
  <2>11. CASE i # r.id
    BY <2>4, <2>6, <2>9, <2>11
  <2>. QED
    BY <2>10, <2>11
<1>. QED
  BY <1>1, SourceInvariant, PTL DEF Spec, CopyNeverRegresses
=============================================================================
