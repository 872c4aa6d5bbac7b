-------------------------- MODULE OaiSync_proofs --------------------------
(***************************************************************************)
(* Proofs about the data provider, for every set of clients, every page    *)
(* size, every configuration of sets and every import; and about the       *)
(* harvester that follows it while the writers of METAMOD change what it   *)
(* delivers, whose proofs rest on those about the provider.                *)
(***************************************************************************)
EXTENDS OaiSync, TLAPS, FiniteSetTheorems, WellFoundedInduction

-----------------------------------------------------------------------------
(***************************************************************************)
(* Positions in an ordered list (ORDER BY ds_id ... LIMIT ... OFFSET).     *)
(***************************************************************************)

\* A nonempty set of naturals has a smallest element.
LEMMA SmallestElement ==
    ASSUME NEW S \in SUBSET Nat, S # {}
    PROVE  \E x \in S : \A y \in S : x <= y
<1>. DEFINE LT == {ss \in Nat \X Nat : ss[1] < ss[2]}
<1>1. IsWellFoundedOn(LT, Nat)
  BY NatLessThanWellFounded DEF OpToRel
<1>2. PICK x \in S : \A y \in S : ~ (<<y, x>> \in LT)
  BY <1>1, WFMin
<1>3. \A y \in S : ~ (y < x)
  <2>. SUFFICES ASSUME NEW y \in S, y < x PROVE <<y, x>> \in LT
    BY <1>2
  <2>1. <<y, x>> \in Nat \X Nat
    OBVIOUS
  <2>. QED
    BY <2>1
<1>. QED
  BY <1>3

\* A bounded one has a largest.
LEMMA LargestElement ==
    ASSUME NEW S \in SUBSET Nat, S # {}, NEW n \in Nat, \A s \in S : s < n
    PROVE  \E x \in S : \A y \in S : y <= x
<1>. DEFINE D == {d \in Nat : \E s \in S : d = n - s}
<1>1. D # {}
  <2>1. PICK s \in S : TRUE
    OBVIOUS
  <2>2. n - s \in D
    BY <2>1
  <2>. QED
    BY <2>2
<1>2. PICK d \in D : \A e \in D : d <= e
  BY <1>1, SmallestElement
<1>3. PICK x \in S : d = n - x
  BY <1>2
<1>4. \A y \in S : n - x <= n - y
  BY <1>2, <1>3
<1>. QED
  BY <1>4

\* The position of an element of a list of ids is less than the length.
LEMMA RankBounds ==
    ASSUME NEW list \in SUBSET Ids, NEW i \in Ids
    PROVE  /\ IsFiniteSet(list)
           /\ Cardinality(list) \in Nat
           /\ Rank(i, list) \in Nat
           /\ i \in list => Rank(i, list) < Cardinality(list)
<1>. DEFINE below == {j \in list : j < i}
<1>1. IsFiniteSet(list)
  BY FS_Subset, CommonAssumption DEF CommonAssumption
<1>2. IsFiniteSet(below) /\ Cardinality(below) <= Cardinality(list)
  BY <1>1, FS_Subset
<1>3. Cardinality(list) \in Nat /\ Cardinality(below) \in Nat
  BY <1>1, <1>2, FS_CardinalityType
<1>4. ASSUME i \in list  PROVE Cardinality(below) # Cardinality(list)
  <2>1. i \in list /\ i \notin below
    BY <1>4, CommonAssumption DEF CommonAssumption
  <2>2. below # list
    BY <2>1
  <2>. QED
    BY <1>1, <2>2, FS_Subset
<1>. HIDE DEF below
<1>5. i \in list => Cardinality(below) < Cardinality(list)
  BY <1>2, <1>3, <1>4
<1>. QED
  BY <1>1, <1>3, <1>5 DEF Rank, below

\* The positions of a list have no gaps: what lies at or behind offset n makes
\* the element at offset n exist, and a page from there is not empty.
LEMMA RankWithoutGaps ==
    ASSUME NEW list \in SUBSET Ids, NEW n \in Nat, NEW i \in list, n <= Rank(i, list)
    PROVE  \E j \in list : Rank(j, list) = n
<1>. DEFINE behind == {j \in list : n <= Rank(j, list)}
<1>0. Ids \subseteq Nat /\ list \subseteq Nat
  BY CommonAssumption DEF CommonAssumption
<1>1. behind \in SUBSET Nat /\ behind # {}
  BY <1>0
<1>2. PICK j \in behind : \A k \in behind : j <= k
  BY <1>1, SmallestElement
<1>3. Rank(j, list) \in Nat /\ n <= Rank(j, list) /\ j \in list
  BY <1>2, RankBounds
<1>4. CASE Rank(j, list) = n
  BY <1>3, <1>4
<1>5. CASE Rank(j, list) # n
  <2>. DEFINE below == {k \in list : k < j}
  <2>1. IsFiniteSet(below) /\ Cardinality(below) = Rank(j, list)
    BY RankBounds, FS_Subset DEF Rank
  <2>2. Cardinality(below) # 0
    BY <1>3, <1>5, <2>1
  <2>3. below # {}
    BY <2>2, FS_EmptySet
  <2>4. below \in SUBSET Nat /\ j \in Nat /\ \A s \in below : s < j
    BY <1>0, <1>3
  <2>5. PICK m \in below : \A k \in below : k <= m
    BY <2>3, <2>4, LargestElement
  <2>. DEFINE rest == {k \in list : k < m}
  <2>6. m \in list /\ m < j /\ m \in Nat
    BY <1>0, <1>3, <2>5
  <2>7. Cardinality(rest) = Cardinality(below) - 1
    <3>1. \A k \in Nat : k < m <=> k < j /\ k # m /\ (k < j => k <= m)
      BY <2>4, <2>6
    <3>2. \A k \in list : k \in rest <=> k \in below \ {m}
      BY <1>0, <2>5, <3>1
    <3>3. rest = below \ {m}
      BY <3>2
    <3>4. m \in below
      BY <2>5
    <3>. HIDE DEF rest, below
    <3>. QED
      BY <2>1, <3>3, <3>4, FS_RemoveElement
  <2>8. Rank(m, list) = Rank(j, list) - 1
    BY <2>1, <2>7 DEF Rank
  <2>9. m \in behind
    BY <1>3, <1>5, <2>6, <2>8
  <2>. QED
    BY <1>0, <1>2, <1>3, <2>6, <2>9
<1>. QED
  BY <1>4, <1>5

-----------------------------------------------------------------------------
(***************************************************************************)
(* Type correctness.                                                       *)
(***************************************************************************)

LEMMA QueryType ==
    ASSUME NEW r \in Requests
    PROVE  /\ Query(r) \in AllQueries
           /\ Offset(r) \in Nat
  BY ProviderAssumption DEF Query, Offset, Requests, Tokens, ProviderAssumption

LEMMA NewTokenType ==
    ASSUME NEW q \in AllQueries, NEW cursor \in Nat, NEW size, now \in Time
    PROVE  NewToken(q, cursor, size) \in Tokens \cup {NoToken}
  BY ProviderAssumption, CommonAssumption
  DEF NewToken, Tokens, Time, ProviderAssumption, CommonAssumption

LEMMA MatchingType == \A table, q : Matching(table, q) \in SUBSET Ids
  BY DEF Matching

LEMMA RecordType ==
    ASSUME NEW i \in Ids, ds[i] \in Rows, NEW prefix
    PROVE  OaiRecord(i, prefix) \in Records
  BY DEF OaiRecord, MetadataDies, Records, Rows, Time

LEMMA PageRowsMatch ==
    ASSUME NEW c
    PROVE  PageRows(c) \subseteq Matching(ds, Query(req[c]))
  BY DEF PageRows, Window

\* An import keeps the types, whatever row of the table it writes.
LEMMA ImportType ==
    ASSUME TypeOK, NEW i \in Ids, NEW row \in Rows, Import(i, row)
    PROVE  TypeOK'
<1>. USE DEF TypeOK
<1>1. ds' \in [Ids -> Rows \cup {Absent}]
  BY DEF Import
<1>2. stayed' \in [Clients -> SUBSET Ids]
  BY DEF Import
<1>3. moved' \in [Clients -> SUBSET Ids]
  <2>1. \A c \in Clients : moved[c] \cup {i} \in SUBSET Ids /\ moved[c] \in SUBSET Ids
    OBVIOUS
  <2>2. \A c \in Clients : moved'[c] \in {moved[c] \cup {i}, moved[c]}
    BY ZenonT(30) DEF Import
  <2>3. moved' = [c \in Clients |-> moved'[c]]
    BY DEF Import
  <2>. QED
    BY <2>1, <2>2, <2>3
<1>. QED
  BY <1>1, <1>2, <1>3 DEF Import, provider

\* What a request of a client does.
ClientStep(c) ==
    \/ \E q \in AllQueries : BeginWalk(c, q)
    \/ Resume(c)
    \/ Server(c)

\* A step of a request keeps the types, whatever list is asked for.
LEMMA ClientType ==
    ASSUME TypeOK, NEW c \in Clients, ClientStep(c)
    PROVE  TypeOK'
<1>. USE DEF TypeOK
<1>1. ASSUME NEW q \in AllQueries, BeginWalk(c, q) PROVE TypeOK'
  BY <1>1, MatchingType DEF BeginWalk, Requests
<1>2. CASE Resume(c)
  <2>1. reply[c] \in Replies /\ req[c] \in Requests
    OBVIOUS
  <2>2. reply[c].token \in Tokens \cup {NoToken}
    BY <2>1 DEF Replies
  <2>3. [req[c] EXCEPT !.prefix = NoFormat, !.token = reply[c].token] \in Requests
    BY <2>1, <2>2 DEF Requests
  <2>4. req' = [req EXCEPT ![c] = [req[c] EXCEPT !.prefix = NoFormat, !.token = reply[c].token]]
    BY <1>2, <2>1 DEF Resume
  <2>5. req' \in [Clients -> Requests]
    BY <2>3, <2>4
  <2>. QED
    BY <1>2, <2>5 DEF Resume, history
<1>3. CASE RejectToken(c)
  BY <1>3 DEF RejectToken, history, Replies, Error
<1>4. CASE CountList(c)
  <2>. DEFINE q         == Query(req[c])
              size      == Cardinality(Matching(ds, q))
              nextToken == NewToken(q, Offset(req[c]), size)
  <2>1. nextToken \in Tokens \cup {NoToken} /\ Offset(req[c]) \in Nat
    BY QueryType, NewTokenType
  <2>2. [limited |-> TRUE, offset |-> Offset(req[c]), next |-> nextToken] \in Plans
    BY <2>1 DEF Plans
  <2>3. NoPlan \in Plans
    BY DEF NoPlan, Plans
  <2>. HIDE DEF nextToken, size
  <2>4. plan' \in [Clients -> Plans] /\ tokens' \subseteq Tokens
    BY <1>4, <2>1, <2>2, <2>3 DEF CountList, nextToken, size
  <2>. QED
    BY <1>4, <2>4 DEF CountList, history
<1>5. CASE FetchPage(c)
  <2>1. PageRows(c) \subseteq Ids /\ \A i \in PageRows(c) : ds[i] \in Rows
    BY PageRowsMatch, MatchingType DEF Matching, Matches, Exportable
  <2>2. {OaiRecord(i, req[c].prefix) : i \in PageRows(c)} \subseteq Records
    BY <2>1, RecordType
  <2>3. reply' \in [Clients -> Replies]
    BY <1>5, <2>2 DEF FetchPage, Replies, Error, Plans
  <2>. QED
    BY <1>5, <2>1, <2>3 DEF FetchPage, history
<1>. HIDE DEF TypeOK
<1>. QED
  BY <1>1, <1>2, <1>3, <1>4, <1>5 DEF ClientStep, Server

(***************************************************************************)
(* Every variable of the data provider keeps its type: in particular a     *)
(* page only ever lists rows the catalogue holds, and every token the      *)
(* provider stores is one it can read back.                                *)
(***************************************************************************)
THEOREM ProviderTypeCorrect == Spec => []TypeOK
<1>1. Init => TypeOK
  BY CommonAssumption, InputAssumption
  DEF Init, TypeOK, CommonAssumption, InputAssumption, Time, Requests, NoPlan, Plans,
      Error, Replies
<1>2. TypeOK /\ [Next]_vars => TypeOK'
  <2>. SUFFICES ASSUME TypeOK, [Next]_vars PROVE TypeOK'
    OBVIOUS
  <2>1. ASSUME NEW i \in Ids, NEW row \in ImportedRows, Import(i, row) PROVE TypeOK'
    BY <2>1, ImportType, InputAssumption DEF InputAssumption
  <2>2. ASSUME NEW c \in Clients, NEW q \in Queries, BeginWalk(c, q) PROVE TypeOK'
    BY <2>2, ClientType, InputAssumption DEF ClientStep, InputAssumption
  <2>3. ASSUME NEW c \in Clients, Resume(c) \/ Server(c) PROVE TypeOK'
    BY <2>3, ClientType DEF ClientStep
  <2>4. ASSUME NEW t \in tokens, CleanToken(t) PROVE TypeOK'
    BY <2>4 DEF CleanToken, history, TypeOK
  <2>5. CASE PassTime
    BY <2>5, CommonAssumption
    DEF TypeOK, PassTime, Tick, provider, history, Time, CommonAssumption
  <2>6. CASE UNCHANGED vars
    BY <2>6 DEF TypeOK, vars, provider, history
  <2>. QED
    BY <2>1, <2>2, <2>3, <2>4, <2>5, <2>6 DEF Next
<1>. QED
  BY <1>1, <1>2, PTL DEF Spec
-----------------------------------------------------------------------------
(***************************************************************************)
(* Completeness of a walk.  The datasets with which nothing can go wrong   *)
(* are the settled ones: they have matched all the time, and so has, or    *)
(* has not, every dataset before them, so that their position in the list  *)
(* has been the same for all the pages.                                    *)
(***************************************************************************)
List(c) == Matching(ds, Query(req[c]))

Settled(c) == {i \in stayed[c] : \A j \in moved[c] : ~ (j < i)}

\* Everything settled at a position less than n has been delivered.
DeliveredUpTo(c, n) == \A i \in Settled(c) : Rank(i, List(c)) < n => i \in seen[c]

\* What has stayed is in the list still.
StayedInList(c) == Walking(c) => stayed[c] \subseteq List(c)

\* Before a page is asked for, all pages before its offset were delivered.
CountInv(c) == pc[c] = "count" => DeliveredUpTo(c, Offset(req[c]))

\* Between the two queries, the count query's plan fits what was delivered; a
\* last page reaches to the end of what is settled.
RowsInv(c) == pc[c] = "rows" =>
    /\ ~plan[c].limited => plan[c].next = NoToken
    /\ plan[c].limited => DeliveredUpTo(c, plan[c].offset)
    /\ plan[c].limited /\ plan[c].next = NoToken =>
          \A i \in Settled(c) : Rank(i, List(c)) < plan[c].offset + MaxRecords
    /\ plan[c].next # NoToken =>
          plan[c].next.query = Query(req[c]) /\ plan[c].next.cursor = plan[c].offset

\* A page's token continues the same list behind what was delivered.
PageInv(c) == pc[c] = "page" =>
    /\ reply[c].token # NoToken
    /\ reply[c].token.query = Query(req[c])
    /\ DeliveredUpTo(c, reply[c].token.cursor + MaxRecords)

CompleteInv(c) == pc[c] = "complete" => \A i \in Settled(c) : i \in seen[c]

ClientInv(c) ==
    StayedInList(c) /\ CountInv(c) /\ RowsInv(c) /\ PageInv(c) /\ CompleteInv(c)

WalkInv == \A c \in Clients : ClientInv(c)

LEMMA WalkInvImpliesPagingComplete == WalkInv => PagingComplete
  BY DEF WalkInv, ClientInv, CompleteInv, Settled, PagingComplete

LEMMA ListType ==
    ASSUME NEW c
    PROVE  List(c) \in SUBSET Ids
  BY MatchingType DEF List

\* A step that leaves alone all that concerns a client keeps its invariant.
LEMMA Unaffected ==
    ASSUME NEW c, ClientInv(c), ds' = ds, pc'[c] = pc[c], req'[c] = req[c],
           plan'[c] = plan[c], reply'[c] = reply[c], seen'[c] = seen[c],
           stayed'[c] = stayed[c], moved'[c] = moved[c]
    PROVE  ClientInv(c)'
<1>1. List(c)' = List(c) /\ Settled(c)' = Settled(c) /\ Walking(c)' = Walking(c)
  BY DEF List, Settled, Walking
<1>2. \A n : DeliveredUpTo(c, n)' <=> DeliveredUpTo(c, n)
  BY <1>1 DEF DeliveredUpTo
<1>3. StayedInList(c)'
  BY <1>1 DEF ClientInv, StayedInList
<1>4. CountInv(c)'
  BY <1>2 DEF ClientInv, CountInv
<1>5. RowsInv(c)'
  BY <1>1, <1>2 DEF ClientInv, RowsInv
<1>6. PageInv(c)'
  BY <1>2 DEF ClientInv, PageInv
<1>7. CompleteInv(c)'
  BY <1>1 DEF ClientInv, CompleteInv
<1>. QED
  BY <1>3, <1>4, <1>5, <1>6, <1>7 DEF ClientInv

\* While a client walks, an import does not move what remains settled.
LEMMA ImportKeepsRank ==
    ASSUME TypeOK, NEW i \in Ids, NEW row, Import(i, row), NEW c \in Clients, Walking(c)
    PROVE  /\ Settled(c)' \subseteq Settled(c)
           /\ \A s \in Settled(c)' : Rank(s, List(c)') = Rank(s, List(c))
<1>1. stayed'[c] = stayed[c] \cap List(c)'
  BY DEF Import, List, TypeOK, provider
<1>2. req' = req
  BY DEF Import, provider
<1>3. moved[c] \subseteq moved'[c] /\ ((i \in List(c)') # (i \in List(c)) => i \in moved'[c])
  <2>1. CASE (i \in List(c)') # (i \in List(c))
    <3>1. moved'[c] = moved[c] \cup {i}
      BY <2>1, <1>2, Zenon DEF Import, List, TypeOK
    <3>. QED
      BY <3>1
  <2>2. CASE ~ ((i \in List(c)') # (i \in List(c)))
    <3>1. moved'[c] = moved[c]
      BY <2>2, <1>2, Zenon DEF Import, List, TypeOK
    <3>. QED
      BY <3>1, <2>2
  <2>. QED
    BY <2>1, <2>2
<1>4. \A j \in Ids : j # i => (j \in List(c)' <=> j \in List(c))
  BY <1>2 DEF Import, List, Matching, TypeOK
<1>5. Settled(c)' \subseteq Settled(c)
  BY <1>1, <1>3 DEF Settled
<1>6. ASSUME NEW s \in Settled(c)' PROVE Rank(s, List(c)') = Rank(s, List(c))
  <2>1. \A j \in Ids : j < s => (j \in List(c)' <=> j \in List(c))
    BY <1>3, <1>4 DEF Settled
  <2>2. List(c) \in SUBSET Ids /\ List(c)' \in SUBSET Ids
    BY MatchingType DEF List
  <2>3. {j \in List(c)' : j < s} = {j \in List(c) : j < s}
    BY <2>1, <2>2
  <2>. QED
    BY <2>3 DEF Rank
<1>. QED
  BY <1>5, <1>6

LEMMA ImportStep ==
    ASSUME TypeOK, WalkInv, NEW i \in Ids, NEW row, Import(i, row), NEW c \in Clients
    PROVE  ClientInv(c)'
<1>1. /\ pc' = pc /\ req' = req /\ plan' = plan /\ reply' = reply /\ seen' = seen
  BY DEF Import, provider
<1>2. ClientInv(c)
  BY DEF WalkInv
<1>3. CASE Walking(c)
  <2>1. \A s \in Settled(c)' : s \in Settled(c) /\ Rank(s, List(c)') = Rank(s, List(c))
    BY <1>3, ImportKeepsRank
  <2>2. \A n : DeliveredUpTo(c, n) => DeliveredUpTo(c, n)'
    BY <1>1, <2>1 DEF DeliveredUpTo
  <2>3. StayedInList(c)'
    BY <1>1, <1>3 DEF StayedInList, Import, List, Walking, TypeOK
  <2>4. CountInv(c)'
    BY <1>1, <1>2, <2>2 DEF ClientInv, CountInv
  <2>5. RowsInv(c)'
    BY <1>1, <1>2, <2>1, <2>2 DEF ClientInv, RowsInv
  <2>6. PageInv(c)'
    BY <1>1, <1>2, <2>2 DEF ClientInv, PageInv
  <2>7. CompleteInv(c)'
    BY <1>1, <1>3 DEF CompleteInv, Walking
  <2>. QED
    BY <2>3, <2>4, <2>5, <2>6, <2>7 DEF ClientInv
<1>4. CASE ~Walking(c)
  <2>1. stayed'[c] = stayed[c] /\ moved'[c] = moved[c]
    BY <1>4 DEF Import, TypeOK
  <2>2. Settled(c)' = Settled(c)
    BY <2>1 DEF Settled
  <2>. QED
    BY <1>1, <1>2, <1>4, <2>2
    DEF ClientInv, StayedInList, CountInv, RowsInv, PageInv, CompleteInv, Walking
<1>. QED
  BY <1>3, <1>4

LEMMA BeginWalkStep ==
    ASSUME TypeOK, NEW c \in Clients, NEW q \in AllQueries, BeginWalk(c, q)
    PROVE  ClientInv(c)'
<1>1. pc'[c] = "count" /\ req'[c] = [prefix |-> "dif", query |-> q, token |-> NoToken]
  BY DEF BeginWalk, TypeOK
<1>2. List(c)' = Matching(ds, q) /\ stayed'[c] = List(c)' /\ Offset(req'[c]) = 0
  BY <1>1 DEF BeginWalk, List, Query, Offset, TypeOK
<1>3. StayedInList(c)'
  BY <1>2 DEF StayedInList
<1>4. CountInv(c)'
  <2>1. \A i \in Settled(c)' : i \in Ids /\ ~ (Rank(i, List(c)') < 0)
    BY <1>2, MatchingType, RankBounds DEF Settled
  <2>. QED
    BY <1>2, <2>1 DEF CountInv, DeliveredUpTo
<1>. QED
  BY <1>1, <1>3, <1>4 DEF ClientInv, RowsInv, PageInv, CompleteInv

LEMMA ResumeStep ==
    ASSUME TypeOK, WalkInv, NEW c \in Clients, Resume(c)
    PROVE  ClientInv(c)'
<1>. DEFINE token == reply[c].token
<1>1. ClientInv(c) /\ pc[c] = "page"
  BY DEF WalkInv, Resume
<1>2. token # NoToken /\ token.query = Query(req[c])
  BY <1>1 DEF ClientInv, PageInv
<1>3. pc'[c] = "count" /\ req'[c].token = token
  <2>1. req[c] \in Requests
    BY DEF TypeOK
  <2>2. req'[c] = [req[c] EXCEPT !.prefix = NoFormat, !.token = token]
    BY DEF Resume, TypeOK
  <2>. QED
    BY <2>1, <2>2 DEF Requests, Resume, TypeOK
<1>4. Query(req'[c]) = Query(req[c]) /\ Offset(req'[c]) = token.cursor + MaxRecords
  BY <1>2, <1>3 DEF Query, Offset
<1>5. List(c)' = List(c) /\ Settled(c)' = Settled(c) /\ seen'[c] = seen[c]
      /\ stayed'[c] = stayed[c]
  BY <1>4 DEF Resume, history, List, Settled
<1>6. StayedInList(c)'
  BY <1>1, <1>5 DEF ClientInv, StayedInList, Walking
<1>7. CountInv(c)'
  BY <1>1, <1>4, <1>5 DEF ClientInv, PageInv, CountInv, DeliveredUpTo
<1>. QED
  BY <1>3, <1>6, <1>7 DEF ClientInv, RowsInv, PageInv, CompleteInv

LEMMA RejectTokenStep ==
    ASSUME TypeOK, NEW c \in Clients, RejectToken(c)
    PROVE  ClientInv(c)'
  BY DEF RejectToken, TypeOK, ClientInv, StayedInList, Walking, CountInv, RowsInv, PageInv,
         CompleteInv

LEMMA CountListStep ==
    ASSUME TypeOK, WalkInv, NEW c \in Clients, CountList(c)
    PROVE  ClientInv(c)'
<1>. DEFINE q      == Query(req[c])
            size   == Cardinality(Matching(ds, q))
            offset == Offset(req[c])
            nextToken   == NewToken(q, offset, size)
<1>1. ClientInv(c) /\ pc[c] = "count" /\ pc'[c] = "rows"
  BY DEF WalkInv, CountList, TypeOK
<1>2. List(c)' = List(c) /\ Settled(c)' = Settled(c) /\ seen'[c] = seen[c]
      /\ stayed'[c] = stayed[c] /\ req' = req
  BY DEF CountList, history, List, Settled
<1>3. \A n : n = offset => DeliveredUpTo(c, n)'
  BY <1>1, <1>2 DEF ClientInv, CountInv, DeliveredUpTo
<1>4. StayedInList(c)'
  BY <1>1, <1>2 DEF ClientInv, StayedInList, Walking
<1>5. nextToken # NoToken => nextToken.query = q /\ nextToken.cursor = offset
  BY DEF NewToken
<1>6. ASSUME nextToken = NoToken, NEW i \in Settled(c)
      PROVE  Rank(i, List(c)) < offset + MaxRecords
  <2>1. i \in List(c)
    BY <1>1 DEF ClientInv, StayedInList, Walking, Settled
  <2>2. Rank(i, List(c)) < size /\ Rank(i, List(c)) \in Nat /\ size \in Nat
    BY <2>1, RankBounds, MatchingType DEF List
  <2>3. offset \in Nat /\ now + TokenLife \in Nat
    BY QueryType, ProviderAssumption, CommonAssumption
    DEF TypeOK, ProviderAssumption, CommonAssumption, Time
  <2>4. ~ (offset + MaxRecords < size)
    <3>1. [query |-> q, cursor |-> offset, expires |-> now + TokenLife] \in Tokens
      BY <2>3, QueryType DEF Tokens, TypeOK
    <3>. QED
      BY <1>6, <3>1, NoneAssumption DEF NewToken, NoneAssumption
  <2>. HIDE DEF size, offset
  <2>. QED
    BY <2>2, <2>3, <2>4, ProviderAssumption DEF ProviderAssumption
<1>7. plan'[c] \in {NoPlan, [limited |-> TRUE, offset |-> offset, next |-> nextToken]}
  BY DEF CountList, TypeOK
<1>. HIDE DEF nextToken, offset, q
<1>8. RowsInv(c)'
  <2>1. CASE plan'[c] = NoPlan
    BY <2>1 DEF RowsInv, NoPlan
  <2>2. CASE plan'[c] = [limited |-> TRUE, offset |-> offset, next |-> nextToken]
    BY <1>2, <1>3, <1>5, <1>6, <2>2 DEF RowsInv, q
  <2>. QED
    BY <1>7, <2>1, <2>2
<1>. QED
  BY <1>1, <1>4, <1>8 DEF ClientInv, CountInv, PageInv, CompleteInv

LEMMA FetchPageStep ==
    ASSUME TypeOK, WalkInv, NEW c \in Clients, FetchPage(c)
    PROVE  ClientInv(c)'
<1>. DEFINE listed    == PageRows(c)
            offset    == plan[c].offset
            nextToken == plan[c].next
<1>1. ClientInv(c) /\ pc[c] = "rows" /\ StayedInList(c) /\ RowsInv(c) /\ Walking(c)
  BY DEF WalkInv, ClientInv, FetchPage, Walking
<1>2. /\ List(c)' = List(c) /\ Settled(c)' = Settled(c) /\ Query(req[c])' = Query(req[c])
      /\ stayed'[c] = stayed[c] /\ seen'[c] = seen[c] \cup listed
  BY DEF FetchPage, history, List, Settled, TypeOK
<1>3. /\ pc'[c] = IF listed = {} \/ nextToken = NoToken THEN "complete" ELSE "page"
      /\ listed # {} => reply'[c].token = nextToken
  BY DEF FetchPage, TypeOK
<1>4. offset \in Nat /\ Settled(c) \subseteq List(c) /\ List(c) \in SUBSET Ids
  BY <1>1, ListType DEF TypeOK, Plans, StayedInList, Settled
<1>5. ASSUME plan[c].limited, NEW i \in Settled(c), Rank(i, List(c)) < offset + MaxRecords
      PROVE  i \in seen'[c]
  <2>1. CASE Rank(i, List(c)) < offset
    BY <1>1, <1>2, <1>5, <2>1 DEF RowsInv, DeliveredUpTo
  <2>2. CASE ~ (Rank(i, List(c)) < offset)
    <3>1. i \in Ids /\ i \in List(c) /\ Rank(i, List(c)) \in Nat
      BY <1>4, RankBounds
    <3>2. i \in Window(List(c), offset)
      BY <1>4, <1>5, <2>2, <3>1 DEF Window
    <3>. QED
      BY <1>2, <1>5, <3>2 DEF PageRows, List
  <2>. QED
    BY <2>1, <2>2
<1>6. StayedInList(c)'
  BY <1>1, <1>2 DEF StayedInList
<1>7. PageInv(c)'
  <2>. SUFFICES ASSUME listed # {}, nextToken # NoToken
                PROVE  /\ reply'[c].token # NoToken
                       /\ reply'[c].token.query = Query(req[c])
                       /\ \A i \in Settled(c) :
                            Rank(i, List(c)) < reply'[c].token.cursor + MaxRecords => i \in seen'[c]
    BY <1>2, <1>3 DEF PageInv, DeliveredUpTo
  <2>1. plan[c].limited /\ nextToken.query = Query(req[c]) /\ nextToken.cursor = offset
    BY <1>1 DEF RowsInv
  <2>. QED
    BY <1>3, <1>5, <2>1
<1>8. CompleteInv(c)'
  <2>. SUFFICES ASSUME listed = {} \/ nextToken = NoToken, NEW i \in Settled(c)
                PROVE  i \in seen'[c]
    BY <1>2, <1>3 DEF CompleteInv
  <2>1. CASE ~plan[c].limited
    BY <1>2, <1>4, <2>1 DEF PageRows, List
  <2>2. CASE plan[c].limited /\ nextToken = NoToken
    BY <1>1, <1>5, <2>2 DEF RowsInv
  <2>3. CASE plan[c].limited /\ listed = {}
    <3>1. ~ (offset <= Rank(i, List(c)))
      <4>. SUFFICES ASSUME offset <= Rank(i, List(c)) PROVE FALSE
        OBVIOUS
      <4>1. PICK j \in List(c) : Rank(j, List(c)) = offset
        BY <1>4, RankWithoutGaps
      <4>2. j \in Window(List(c), offset)
        BY <1>4, <4>1, ProviderAssumption DEF Window, ProviderAssumption
      <4>. QED
        BY <2>3, <4>2 DEF PageRows, List
    <3>2. Rank(i, List(c)) \in Nat
      BY <1>4, RankBounds
    <3>3. Rank(i, List(c)) < offset + MaxRecords
      BY <1>4, <3>1, <3>2, ProviderAssumption DEF ProviderAssumption
    <3>. QED
      BY <1>5, <2>3, <3>3
  <2>. QED
    BY <2>1, <2>2, <2>3
<1>. QED
  BY <1>3, <1>6, <1>7, <1>8 DEF ClientInv, CountInv, RowsInv

\* A step of a request keeps the invariant of every client.
LEMMA ClientWalk ==
    ASSUME TypeOK, WalkInv, NEW c \in Clients, ClientStep(c)
    PROVE  WalkInv'
<1>. SUFFICES ASSUME NEW d \in Clients PROVE ClientInv(d)'
  BY DEF WalkInv
<1>1. ClientInv(d)
  BY DEF WalkInv
<1>2. CASE c = d
  BY <1>2, BeginWalkStep, ResumeStep, RejectTokenStep, CountListStep, FetchPageStep
  DEF ClientStep, Server
<1>3. CASE c # d
  <2>1. ASSUME NEW q \in AllQueries, BeginWalk(c, q) PROVE ClientInv(d)'
    BY <1>1, <1>3, <2>1, Unaffected DEF BeginWalk, TypeOK
  <2>2. CASE Resume(c)
    BY <1>1, <1>3, <2>2, Unaffected DEF Resume, history, TypeOK
  <2>3. CASE RejectToken(c)
    BY <1>1, <1>3, <2>3, Unaffected DEF RejectToken, history, TypeOK
  <2>4. CASE CountList(c)
    BY <1>1, <1>3, <2>4, Unaffected DEF CountList, history, TypeOK
  <2>5. CASE FetchPage(c)
    BY <1>1, <1>3, <2>5, Unaffected DEF FetchPage, history, TypeOK
  <2>. QED
    BY <2>1, <2>2, <2>3, <2>4, <2>5 DEF ClientStep, Server
<1>. QED
  BY <1>2, <1>3

(***************************************************************************)
(* A list walked to its end misses nothing that matched all the time,      *)
(* unless the list changed before it: the property _search_datasets gives  *)
(* harvesters by ordering the rows and numbering the pages by offset.      *)
(***************************************************************************)
THEOREM WalksAreComplete == Spec => []PagingComplete
<1>1. Init => WalkInv
  BY DEF Init, WalkInv, ClientInv, StayedInList, Walking, CountInv, RowsInv, PageInv, CompleteInv
<1>2. TypeOK /\ WalkInv /\ [Next]_vars => WalkInv'
  <2>. SUFFICES ASSUME TypeOK, WalkInv, [Next]_vars PROVE WalkInv'
    OBVIOUS
  <2>1. ASSUME NEW i \in Ids, NEW row \in ImportedRows, Import(i, row) PROVE WalkInv'
    BY <2>1, ImportStep DEF WalkInv
  <2>2. ASSUME NEW c \in Clients, NEW q \in Queries, BeginWalk(c, q) PROVE WalkInv'
    BY <2>2, ClientWalk, InputAssumption DEF ClientStep, InputAssumption
  <2>3. ASSUME NEW c \in Clients, Resume(c) \/ Server(c) PROVE WalkInv'
    BY <2>3, ClientWalk DEF ClientStep
  <2>4. ASSUME NEW t \in tokens, CleanToken(t) PROVE WalkInv'
    BY <2>4, Unaffected DEF WalkInv, CleanToken, history
  <2>5. CASE PassTime
    BY <2>5, Unaffected DEF WalkInv, PassTime, provider, history
  <2>6. CASE UNCHANGED vars
    BY <2>6, Unaffected DEF WalkInv, vars, provider, history
  <2>. QED
    BY <2>1, <2>2, <2>3, <2>4, <2>5, <2>6 DEF Next
<1>. QED
  BY <1>1, <1>2, ProviderTypeCorrect, WalkInvImpliesPagingComplete, PTL DEF Spec
-----------------------------------------------------------------------------
(***************************************************************************)
(* No repetitions.  As long as nothing has moved, what was delivered are   *)
(* the first rows of the list, up to the offset of the page under way; and *)
(* a list of which a page was delivered does not fit in a page.            *)
(***************************************************************************)
SeenBelow(c, n) == \A i \in seen[c] : i \in List(c) /\ Rank(i, List(c)) < n

Long(c) == Cardinality(List(c)) > MaxRecords

PrefixInv(c) == moved[c] = {} =>
    /\ repeated[c] = {}
    /\ pc[c] = "count" => SeenBelow(c, Offset(req[c])) /\ (seen[c] # {} => Long(c))
    /\ pc[c] = "rows" =>
          /\ plan[c].limited => Long(c) /\ SeenBelow(c, plan[c].offset)
          /\ ~plan[c].limited => seen[c] = {} /\ plan[c].next = NoToken
          /\ plan[c].next # NoToken =>
                plan[c].next.query = Query(req[c]) /\ plan[c].next.cursor = plan[c].offset
    /\ pc[c] = "page" =>
          /\ Long(c)
          /\ reply[c].token # NoToken
          /\ reply[c].token.query = Query(req[c])
          /\ SeenBelow(c, reply[c].token.cursor + MaxRecords)

\* A step that leaves alone all that concerns a client keeps its invariant.
LEMMA PrefixUnaffected ==
    ASSUME NEW c, PrefixInv(c), moved'[c] = {} => moved[c] = {} /\ List(c)' = List(c),
           pc'[c] = pc[c], req'[c] = req[c], plan'[c] = plan[c], reply'[c] = reply[c],
           seen'[c] = seen[c], repeated'[c] = repeated[c]
    PROVE  PrefixInv(c)'
<1>. SUFFICES ASSUME moved'[c] = {} PROVE PrefixInv(c)'
  BY DEF PrefixInv
<1>1. List(c)' = List(c) /\ Long(c)' = Long(c)
  BY DEF Long
<1>2. \A n : SeenBelow(c, n)' <=> SeenBelow(c, n)
  BY <1>1 DEF SeenBelow
<1>. QED
  BY <1>1, <1>2 DEF PrefixInv

\* An import that moves nothing in a client's list leaves the list as it is.
LEMMA ImportMoves ==
    ASSUME TypeOK, NEW i \in Ids, NEW row, Import(i, row), NEW c \in Clients, Walking(c)
    PROVE  moved'[c] = {} => moved[c] = {} /\ List(c)' = List(c)
<1>1. req' = req
  BY DEF Import, provider
<1>2. \A j \in Ids : j # i => (j \in List(c)' <=> j \in List(c))
  BY <1>1 DEF Import, List, Matching, TypeOK
<1>3. CASE (i \in List(c)') # (i \in List(c))
  <2>1. moved'[c] = moved[c] \cup {i}
    BY <1>3, <1>1, Zenon DEF Import, List, TypeOK
  <2>. QED
    BY <2>1
<1>4. CASE ~ ((i \in List(c)') # (i \in List(c)))
  <2>1. moved'[c] = moved[c]
    BY <1>4, <1>1, Zenon DEF Import, List, TypeOK
  <2>2. List(c)' = List(c)
    <3>1. \A j \in Ids : j \in List(c)' <=> j \in List(c)
      BY <1>2, <1>4
    <3>2. List(c) \in SUBSET Ids /\ List(c)' \in SUBSET Ids
      BY MatchingType DEF List
    <3>. QED
      BY <3>1, <3>2
  <2>. QED
    BY <2>1, <2>2
<1>. QED
  BY <1>3, <1>4

LEMMA ImportPrefix ==
    ASSUME TypeOK, NEW i \in Ids, NEW row, Import(i, row), NEW c \in Clients, PrefixInv(c)
    PROVE  PrefixInv(c)'
<1>1. /\ pc' = pc /\ req' = req /\ plan' = plan /\ reply' = reply /\ seen' = seen
      /\ repeated' = repeated
  BY DEF Import, provider
<1>2. CASE Walking(c)
  BY <1>1, <1>2, ImportMoves, PrefixUnaffected
<1>3. CASE ~Walking(c)
  <2>1. moved'[c] = moved[c]
    BY <1>3 DEF Import, TypeOK
  <2>. QED
    BY <1>1, <1>3, <2>1 DEF PrefixInv, Walking
<1>. QED
  BY <1>2, <1>3

LEMMA CountListPrefix ==
    ASSUME TypeOK, NEW c \in Clients, PrefixInv(c), CountList(c)
    PROVE  PrefixInv(c)'
<1>. DEFINE q      == Query(req[c])
            size   == Cardinality(Matching(ds, q))
            offset == Offset(req[c])
            nextToken   == NewToken(q, offset, size)
<1>. SUFFICES ASSUME moved[c] = {} PROVE PrefixInv(c)'
  BY DEF PrefixInv, CountList, history
<1>1. /\ pc[c] = "count" /\ pc'[c] = "rows"
      /\ List(c)' = List(c) /\ seen'[c] = seen[c] /\ req' = req /\ repeated'[c] = repeated[c]
  BY DEF CountList, history, List, TypeOK
<1>2. /\ SeenBelow(c, offset) /\ (seen[c] # {} => Long(c)) /\ repeated[c] = {}
  BY <1>1 DEF PrefixInv
<1>3. \A n : SeenBelow(c, n)' <=> SeenBelow(c, n)
  BY <1>1 DEF SeenBelow
<1>4. Long(c)' = Long(c) /\ (Long(c) <=> size > MaxRecords)
  BY <1>1 DEF Long, List
<1>5. nextToken # NoToken => nextToken.query = q /\ nextToken.cursor = offset
  BY DEF NewToken
<1>6. /\ Long(c)  => plan'[c] = [limited |-> TRUE, offset |-> offset, next |-> nextToken]
      /\ ~Long(c) => plan'[c] = NoPlan
  BY <1>4 DEF CountList, TypeOK
<1>. HIDE DEF nextToken, offset, q
<1>7. CASE Long(c)
  BY <1>1, <1>2, <1>3, <1>4, <1>5, <1>6, <1>7 DEF PrefixInv, q
<1>8. CASE ~Long(c)
  BY <1>1, <1>2, <1>6, <1>8 DEF PrefixInv, NoPlan
<1>. QED
  BY <1>7, <1>8

LEMMA FetchPagePrefix ==
    ASSUME TypeOK, NEW c \in Clients, PrefixInv(c), FetchPage(c)
    PROVE  PrefixInv(c)'
<1>. DEFINE listed    == PageRows(c)
            offset    == plan[c].offset
            nextToken == plan[c].next
<1>. SUFFICES ASSUME moved[c] = {} PROVE PrefixInv(c)'
  BY DEF PrefixInv, FetchPage, history
<1>1. /\ pc[c] = "rows" /\ List(c)' = List(c) /\ Query(req[c])' = Query(req[c])
      /\ seen'[c] = seen[c] \cup listed
      /\ repeated'[c] = repeated[c] \cup (seen[c] \cap listed)
      /\ pc'[c] = IF listed = {} \/ nextToken = NoToken THEN "complete" ELSE "page"
      /\ listed # {} => reply'[c].token = nextToken
  BY DEF FetchPage, history, List, TypeOK
<1>2. offset \in Nat /\ List(c) \in SUBSET Ids /\ listed \subseteq List(c) /\ MaxRecords \in Nat
  BY ListType, PageRowsMatch, ProviderAssumption DEF TypeOK, Plans, List, ProviderAssumption
<1>3. repeated'[c] = {}
  <2>1. CASE plan[c].limited
    <3>1. \A i \in seen[c] : Rank(i, List(c)) < offset /\ i \in Ids
      BY <1>1, <1>2, <2>1 DEF PrefixInv, SeenBelow
    <3>2. \A i \in listed : offset <= Rank(i, List(c))
      BY <2>1 DEF PageRows, Window, List
    <3>3. \A i \in seen[c] : i \notin listed
      BY <1>2, <3>1, <3>2, RankBounds
    <3>. QED
      BY <1>1, <3>3 DEF PrefixInv
  <2>2. CASE ~plan[c].limited
    BY <1>1, <2>2 DEF PrefixInv
  <2>. QED
    BY <2>1, <2>2
<1>4. ASSUME pc'[c] = "page"
      PROVE  /\ Long(c) /\ reply'[c].token = nextToken /\ nextToken # NoToken
             /\ nextToken.query = Query(req[c]) /\ nextToken.cursor = offset
             /\ \A i \in seen'[c] : i \in List(c) /\ Rank(i, List(c)) < offset + MaxRecords
  <2>1. listed # {} /\ nextToken # NoToken /\ plan[c].limited
    BY <1>1, <1>4 DEF PrefixInv
  <2>2. \A i \in listed : Rank(i, List(c)) < offset + MaxRecords
    BY <2>1 DEF PageRows, Window, List
  <2>3. \A i \in seen[c] : i \in List(c) /\ Rank(i, List(c)) < offset /\ Rank(i, List(c)) \in Nat
    BY <1>1, <1>2, <2>1, RankBounds DEF PrefixInv, SeenBelow
  <2>4. \A i \in seen[c] : Rank(i, List(c)) < offset + MaxRecords
    BY <1>2, <2>3
  <2>. QED
    BY <1>1, <1>2, <2>1, <2>2, <2>3, <2>4 DEF PrefixInv
<1>5. Long(c)' = Long(c)
  BY <1>1 DEF Long
<1>6. pc'[c] \in {"complete", "page"}
  BY <1>1
<1>. QED
  BY <1>1, <1>3, <1>4, <1>5, <1>6 DEF PrefixInv, SeenBelow

(***************************************************************************)
(* The pages of a list that does not change are disjoint: without a change *)
(* during the walk, _search_datasets delivers no dataset twice.            *)
(***************************************************************************)
THEOREM PagesAreDisjoint == Spec => []RepeatsOnlyAfterChange
<1>. DEFINE Inv == \A c \in Clients : PrefixInv(c)
<1>1. Init => Inv
  BY DEF Init, PrefixInv
<1>2. TypeOK /\ Inv /\ [Next]_vars => Inv'
  <2>. SUFFICES ASSUME TypeOK, Inv, [Next]_vars, NEW d \in Clients PROVE PrefixInv(d)'
    OBVIOUS
  <2>1. PrefixInv(d)
    OBVIOUS
  <2>2. ASSUME NEW i \in Ids, NEW row \in ImportedRows, Import(i, row) PROVE PrefixInv(d)'
    BY <2>1, <2>2, ImportPrefix
  <2>3. ASSUME NEW c \in Clients, NEW q \in Queries, BeginWalk(c, q) PROVE PrefixInv(d)'
    <3>1. CASE c = d
      BY <2>3, <3>1 DEF BeginWalk, PrefixInv, SeenBelow, TypeOK
    <3>2. CASE c # d
      BY <2>1, <2>3, <3>2, PrefixUnaffected DEF BeginWalk, List, TypeOK
    <3>. QED
      BY <3>1, <3>2
  <2>4. ASSUME NEW c \in Clients, Resume(c) PROVE PrefixInv(d)'
    <3>1. CASE c = d
      <4>. DEFINE token == reply[c].token
      <4>1. req[c] \in Requests /\ pc[c] = "page"
        BY <2>4 DEF Resume, TypeOK
      <4>2. req'[c] = [req[c] EXCEPT !.prefix = NoFormat, !.token = token]
        BY <2>4 DEF Resume, TypeOK
      <4>3. pc'[c] = "count" /\ req'[c].token = token
        BY <2>4, <4>1, <4>2 DEF Resume, Requests, TypeOK
      <4>4. /\ seen'[c] = seen[c] /\ repeated'[c] = repeated[c] /\ moved'[c] = moved[c]
            /\ ds' = ds
        BY <2>4 DEF Resume, history
      <4>. SUFFICES ASSUME moved[c] = {} PROVE PrefixInv(c)'
        BY <3>1, <4>4 DEF PrefixInv
      <4>5. /\ Long(c) /\ token # NoToken /\ token.query = Query(req[c])
            /\ SeenBelow(c, token.cursor + MaxRecords) /\ repeated[c] = {}
        BY <2>1, <3>1, <4>1 DEF PrefixInv
      <4>6. Query(req'[c]) = Query(req[c]) /\ Offset(req'[c]) = token.cursor + MaxRecords
        BY <4>3, <4>5 DEF Query, Offset
      <4>7. List(c)' = List(c) /\ Long(c)' = Long(c)
        BY <4>4, <4>6 DEF List, Long
      <4>. QED
        BY <4>3, <4>4, <4>5, <4>6, <4>7 DEF PrefixInv, SeenBelow
    <3>2. CASE c # d
      BY <2>1, <2>4, <3>2, PrefixUnaffected DEF Resume, history, List, TypeOK
    <3>. QED
      BY <3>1, <3>2
  <2>5. ASSUME NEW c \in Clients, RejectToken(c) PROVE PrefixInv(d)'
    <3>1. CASE c = d
      BY <2>1, <2>5, <3>1 DEF RejectToken, history, PrefixInv, TypeOK
    <3>2. CASE c # d
      BY <2>1, <2>5, <3>2, PrefixUnaffected DEF RejectToken, history, List, TypeOK
    <3>. QED
      BY <3>1, <3>2
  <2>6. ASSUME NEW c \in Clients, CountList(c) PROVE PrefixInv(d)'
    <3>1. CASE c = d
      BY <2>1, <2>6, <3>1, CountListPrefix
    <3>2. CASE c # d
      BY <2>1, <2>6, <3>2, PrefixUnaffected DEF CountList, history, List, TypeOK
    <3>. QED
      BY <3>1, <3>2
  <2>7. ASSUME NEW c \in Clients, FetchPage(c) PROVE PrefixInv(d)'
    <3>1. CASE c = d
      BY <2>1, <2>7, <3>1, FetchPagePrefix
    <3>2. CASE c # d
      BY <2>1, <2>7, <3>2, PrefixUnaffected DEF FetchPage, history, List, TypeOK
    <3>. QED
      BY <3>1, <3>2
  <2>8. ASSUME NEW t \in tokens, CleanToken(t) PROVE PrefixInv(d)'
    BY <2>1, <2>8, PrefixUnaffected DEF CleanToken, history, List
  <2>9. CASE PassTime
    BY <2>1, <2>9, PrefixUnaffected DEF PassTime, provider, history, List
  <2>10. CASE UNCHANGED vars
    BY <2>1, <2>10, PrefixUnaffected DEF vars, provider, history, List
  <2>. QED
    BY <2>2, <2>3, <2>4, <2>5, <2>6, <2>7, <2>8, <2>9, <2>10 DEF Next, Server
<1>3. Inv => RepeatsOnlyAfterChange
  BY DEF PrefixInv, RepeatsOnlyAfterChange
<1>. QED
  BY <1>1, <1>2, <1>3, ProviderTypeCorrect, PTL DEF Spec
-----------------------------------------------------------------------------
(***************************************************************************)
(* The harvester beside the provider.  First what holds whatever the       *)
(* configuration is: the types, the walk of the harvester's requests, and  *)
(* how the steps of the harvester and of the provider go together.         *)
(***************************************************************************)

\* Where the harvester is and where its request is.
LinkInv ==
    /\ hpc = "idle" => ~Walking(harvesterClient)
    /\ Waiting => pc[harvesterClient] \in {"count", "rows"}
    /\ hpc \in {"records", "import"} =>
          pc[harvesterClient] = IF next = NoToken THEN "complete" ELSE "page"
    /\ page # {} => hpc \in {"records", "import"}

\* Files come before rows, and what is being imported is what was written.
CopyInv ==
    /\ \A i \in Ids : files[i] = Absent => rows[i] = Absent
    /\ hpc = "import" => page # {} /\ files[First(page).id] = Entry(First(page))

BaseInv == SyncTypeOK /\ WalkInv /\ LinkInv /\ CopyInv

LEMMA HarvesterIsClient == harvesterClient \in Clients
  BY SyncAssumption DEF SyncAssumption, harvesterClient

\* The records of a page are processed in the order of their ids.
LEMMA FirstIsSmallest ==
    ASSUME NEW records \in SUBSET Records, records # {}
    PROVE  First(records) \in records
<1>. DEFINE S == {r.id : r \in records}
<1>1. S \in SUBSET Nat /\ S # {}
  BY CommonAssumption DEF CommonAssumption, Records
<1>2. PICK x \in S : \A y \in S : x <= y
  BY <1>1, SmallestElement
<1>3. PICK r \in records : r.id = x
  OBVIOUS
<1>4. \A s \in records : r.id <= s.id
  BY <1>2, <1>3
<1>. QED
  BY <1>3, <1>4 DEF First

LEMMA EntryType ==
    ASSUME NEW r \in Records
    PROVE  Entry(r) \in Entries /\ Entry(r) # Absent
  BY EntryAssumption DEF Entry, Entries, Records

LEMMA InfoType ==
    ASSUME SyncTypeOK, NEW i \in Ids
    PROVE  Info(i) \in Rows
  BY SyncAssumption DEF Info, NewInfo, Rows, SyncTypeOK, TypeOK, SyncAssumption

\* Days are in the order of their instants, and begin with their first one.
LEMMA DayBounds ==
    ASSUME NEW t \in Nat
    PROVE  /\ Day(t) \in Nat
           /\ StartOfDay(t) \in Nat
           /\ StartOfDay(t) <= t
           /\ t < (Day(t) + 1) * DayLength
<1>1. \A d \in Nat \ {0} : /\ t \div d \in Nat
                           /\ (t \div d) * d \in Nat
                           /\ (t \div d) * d <= t
                           /\ t < ((t \div d) + 1) * d
  OBVIOUS
<1>. QED
  BY <1>1, CommonAssumption DEF CommonAssumption, Day, StartOfDay

LEMMA DayOrder ==
    ASSUME NEW s \in Nat, NEW t \in Nat
    PROVE  /\ s <= t => Day(s) <= Day(t)
           /\ s < StartOfDay(t) => Day(s) < Day(t)
<1>1. \A a, b, d \in Nat : a <= b => a * d <= b * d
  OBVIOUS
<1>2. Day(s) \in Nat /\ Day(t) \in Nat /\ DayLength \in Nat
  BY DayBounds, CommonAssumption DEF CommonAssumption
<1>3. CASE Day(t) <= Day(s)
  <2>1. StartOfDay(t) <= StartOfDay(s)
    BY <1>1, <1>2, <1>3 DEF StartOfDay
  <2>2. ~ (s < StartOfDay(t))
    BY <2>1, DayBounds
  <2>3. ASSUME s <= t PROVE Day(s) <= Day(t)
    <3>1. CASE Day(t) + 1 <= Day(s)
      <4>1. (Day(t) + 1) * DayLength <= StartOfDay(s)
        BY <1>1, <1>2, <3>1 DEF StartOfDay
      <4>. HIDE DEF StartOfDay
      <4>2. t < StartOfDay(s) /\ StartOfDay(s) <= s
        <5>. DEFINE e == (Day(t) + 1) * DayLength
        <5>1. t < e /\ e <= StartOfDay(s) /\ StartOfDay(s) <= s /\ e \in Nat /\ StartOfDay(s) \in Nat
          BY <4>1, <1>2, DayBounds
        <5>. HIDE DEF e
        <5>. QED
          BY <5>1
      <4>. QED
        BY <4>2, <2>3, DayBounds
    <3>. QED
      BY <1>2, <3>1
  <2>. QED
    BY <1>3, <1>2, <2>2, <2>3
<1>. QED
  BY <1>2, <1>3

LEMMA NextQueryType ==
    ASSUME SyncTypeOK
    PROVE  NextQuery \in AllQueries
<1>1. MaxTime \in Nat
  BY CommonAssumption DEF CommonAssumption
<1>2. \A t \in Time : StartOfDay(t) \in Time
  BY <1>1, DayBounds DEF Time
<1>. QED
  BY <1>1, <1>2, SyncAssumption
  DEF NextQuery, From, AllQueries, SyncTypeOK, HarvesterTypeOK, SyncAssumption, Time
-----------------------------------------------------------------------------
\* A change by one of the writers writes a row of the table.
LEMMA ChangeIsImport ==
    ASSUME SyncTypeOK, NEW i \in Ids, NEW valid \in BOOLEAN,
           \/ Edit(i, valid) \/ EndDigest(i, valid)
           \/ \E status \in {"active", "deleted"}, tag \in Tags : Manage(i, status, tag)
    PROVE  /\ \E row \in Rows : ImportChange(i, row)
           /\ digesting' \in [Ids -> Rows \cup {Absent}]
<1>. USE DEF SyncTypeOK
<1>1. now \in Time /\ ds[i] \in Rows \cup {Absent} /\ digesting[i] \in Rows \cup {Absent}
  BY DEF TypeOK
<1>2. CASE Edit(i, valid)
  <2>1. [Info(i) EXCEPT !.stamp = now, !.valid = valid] \in Rows
    BY <1>1, InfoType DEF Rows
  <2>. QED
    BY <1>2, <2>1 DEF Edit
<1>3. CASE EndDigest(i, valid)
  <2>1. digesting[i] \in Rows
    BY <1>1, <1>3 DEF EndDigest
  <2>2. [digesting[i] EXCEPT !.valid = valid] \in Rows
    BY <2>1 DEF Rows
  <2>. QED
    BY <1>3, <2>2 DEF EndDigest
<1>4. ASSUME NEW status \in {"active", "deleted"}, NEW tag \in Tags, Manage(i, status, tag)
      PROVE  \E row \in Rows : ImportChange(i, row) /\ UNCHANGED digesting
  <2>1. ds[i] \in Rows
    BY <1>1, <1>4 DEF Manage
  <2>2. [ds[i] EXCEPT !.status = status, !.tag = tag] \in Rows
    BY <2>1 DEF Rows
  <2>. QED
    BY <1>4, <2>2 DEF Manage
<1>. QED
  BY <1>2, <1>3, <1>4

LEMMA ImportBase ==
    ASSUME BaseInv, NEW i \in Ids, NEW row \in Rows, ImportChange(i, row),
           digesting' \in [Ids -> Rows \cup {Absent}]
    PROVE  BaseInv'
<1>. USE DEF BaseInv, ImportChange, harvester
<1>1. Import(i, row) /\ pc' = pc
  BY DEF Import, provider
<1>2. TypeOK'
  BY <1>1, ImportType DEF SyncTypeOK
<1>3. WalkInv'
  BY <1>1, ImportStep DEF SyncTypeOK, WalkInv
<1>4. SyncTypeOK'
  BY <1>2 DEF SyncTypeOK, HarvesterTypeOK, TypeOK
<1>5. LinkInv'
  BY <1>1 DEF LinkInv, Walking, Waiting
<1>6. CopyInv'
  BY DEF CopyInv
<1>. QED
  BY <1>3, <1>4, <1>5, <1>6

\* Steps of the provider's side with what the harvester does in them.
LEMMA RequestBase ==
    ASSUME BaseInv, ClientStep(harvesterClient), HarvesterTypeOK',
           UNCHANGED <<digesting, changedAt, copies>>, astray' \subseteq Ids,
           hpc' # "import", LinkInv'
    PROVE  BaseInv'
<1>1. TypeOK' /\ WalkInv'
  BY HarvesterIsClient, ClientType, ClientWalk DEF BaseInv, SyncTypeOK
<1>2. SyncTypeOK'
  BY <1>1 DEF BaseInv, SyncTypeOK
<1>3. CopyInv'
  BY DEF BaseInv, CopyInv, copies
<1>. QED
  BY <1>1, <1>2, <1>3 DEF BaseInv

LEMMA AskBase ==
    ASSUME BaseInv, Ask \/ AskMore \/ Count
    PROVE  BaseInv'
<1>. DEFINE c == harvesterClient
<1>. USE HarvesterIsClient
<1>1. TypeOK /\ HarvesterTypeOK /\ LinkInv /\ now \in Time /\ astray \subseteq Ids
  BY DEF BaseInv, SyncTypeOK, TypeOK
<1>2. CASE Ask
  <2>1. ClientStep(c) /\ pc'[c] = "count"
    BY <1>1, <1>2, NextQueryType DEF Ask, ClientStep, BeginWalk, BaseInv, TypeOK
  <2>2. HarvesterTypeOK' /\ LinkInv'
    BY <1>1, <1>2, <2>1
    DEF Ask, StartHarvest, HarvesterTypeOK, copies, LinkInv, Waiting, BeginWalk
  <2>. QED
    BY <1>1, <1>2, <2>1, <2>2, RequestBase DEF Ask, StartHarvest
<1>3. CASE AskMore
  <2>1. ClientStep(c) /\ pc'[c] = "count"
    BY <1>1, <1>3 DEF AskMore, ClientStep, Resume, TypeOK
  <2>2. HarvesterTypeOK' /\ LinkInv'
    BY <1>1, <1>3, <2>1
    DEF AskMore, FollowToken, HarvesterTypeOK, copies, LinkInv, Waiting
  <2>. QED
    BY <1>1, <1>3, <2>1, <2>2, RequestBase DEF AskMore, FollowToken
<1>4. CASE Count
  <2>1. ClientStep(c) /\ pc'[c] = "rows"
    BY <1>1, <1>4 DEF Count, ClientStep, Server, CountList, TypeOK
  <2>2. HarvesterTypeOK' /\ LinkInv' /\ UNCHANGED copies /\ hpc' # "import"
    BY <1>1, <1>4, <2>1
    DEF Count, harvester, HarvesterTypeOK, copies, LinkInv, Waiting
  <2>. QED
    BY <1>1, <1>4, <2>1, <2>2, RequestBase DEF Count
<1>. QED
  BY <1>2, <1>3, <1>4

LEMMA AnswerBase ==
    ASSUME BaseInv, Answer
    PROVE  BaseInv'
<1>. DEFINE c == harvesterClient
<1>. USE HarvesterIsClient
<1>1. TypeOK /\ HarvesterTypeOK /\ LinkInv /\ astray \subseteq Ids /\ Waiting
  BY DEF BaseInv, SyncTypeOK, Answer, Receive
<1>2. ClientStep(c) /\ UNCHANGED <<now, digesting, changedAt, copies, faultsLeft>>
  BY DEF Answer, ClientStep, Server, Receive, NoFault, RejectToken, FetchPage
<1>3. TypeOK'
  BY <1>1, <1>2, ClientType
<1>4. reply'[c] \in Replies /\ now \in Time
  BY <1>1, <1>3 DEF TypeOK
<1>5. HarvesterTypeOK'
  BY <1>1, <1>2, <1>4
  DEF Answer, Receive, HarvesterTypeOK, copies, Replies, UpdateStatus, GiveUp, EndHarvest
<1>6. LinkInv' /\ hpc' # "import"
  <2>1. CASE RejectToken(c)
    <3>1. reply'[c].code = "badResumptionToken" /\ pc'[c] = "failed"
      BY <1>1, <2>1 DEF RejectToken, TypeOK, Error
    <3>2. hpc' = "idle" /\ page' = {}
      BY <1>1, <3>1 DEF Answer, Receive, GiveUp, EndHarvest
    <3>. QED
      BY <3>1, <3>2 DEF LinkInv, Walking, Waiting
  <2>2. CASE FetchPage(c)
    <3>1. CASE PageRows(c) = {}
      <4>1. reply'[c].code = "noRecordsMatch" /\ pc'[c] = "complete"
        BY <1>1, <2>2, <3>1 DEF FetchPage, TypeOK, Error
      <4>2. hpc' = "idle" /\ page' = {}
        BY <1>1, <4>1 DEF Answer, Receive, UpdateStatus, EndHarvest
      <4>. QED
        BY <4>1, <4>2 DEF LinkInv, Walking, Waiting
    <3>2. CASE PageRows(c) # {}
      <4>1. /\ reply'[c].code = "records" /\ reply'[c].token = plan[c].next
            /\ pc'[c] = IF plan[c].next = NoToken THEN "complete" ELSE "page"
        BY <1>1, <2>2, <3>2 DEF FetchPage, TypeOK
      <4>2. hpc' = "records" /\ next' = plan[c].next
        BY <1>1, <4>1 DEF Answer, Receive
      <4>. QED
        BY <4>1, <4>2 DEF LinkInv, Walking, Waiting
    <3>. QED
      BY <3>1, <3>2
  <2>. QED
    BY <2>1, <2>2 DEF Answer
<1>7. astray' \subseteq Ids
  <2>1. Misreported \subseteq Ids
    BY <1>4 DEF Misreported, Replies, Records
  <2>2. SkippedOver \subseteq Ids
    BY <1>1 DEF SkippedOver, TypeOK
  <2>. QED
    BY <1>1, <2>1, <2>2 DEF Answer
<1>. QED
  BY <1>2, <1>5, <1>6, <1>7, RequestBase

\* What the harvester has in hand: First(page), of a page that is not empty.
LEMMA FirstOfPage ==
    ASSUME HarvesterTypeOK, page # {}
    PROVE  /\ First(page) \in page /\ First(page) \in Records
           /\ First(page).id \in Ids
           /\ Entry(First(page)) \in Entries /\ Entry(First(page)) # Absent
  BY FirstIsSmallest, EntryType DEF HarvesterTypeOK, Records

\* With the provider nothing changes in its walks, whatever the clock shows.
LEMMA ProviderUnchanged ==
    ASSUME TypeOK, WalkInv, UNCHANGED <<ds, provider, history>>, now' \in Time
    PROVE  TypeOK' /\ WalkInv'
<1>1. TypeOK'
  BY DEF TypeOK, provider, history
<1>2. \A c \in Clients : ClientInv(c)'
  BY Unaffected DEF WalkInv, provider, history
<1>. QED
  BY <1>1, <1>2 DEF WalkInv

LEMMA TornType == Torn \in Entries \cup {Absent, Torn} /\ Torn # Absent
  BY EntryAssumption

\* The steps of the harvester on its own keep its types and its copies.
LEMMA LocalHarvester ==
    ASSUME BaseInv, LocalStep, now' = now
    PROVE  /\ HarvesterTypeOK' /\ CopyInv'
           /\ page' # {} => hpc' \in {"records", "import"}
           /\ \/ hpc' = "idle" /\ page' = {}
              \/ hpc \in {"records", "import"} /\ hpc' \in {"records", "import"} /\ next' = next
<1>. DEFINE r == First(page)
<1>0. HarvesterTypeOK /\ CopyInv /\ LinkInv /\ now \in Time
  BY DEF BaseInv, SyncTypeOK, TypeOK
<1>1. CASE EndHarvest /\ rows' = rows /\ hsTime' \in Time \cup {Never}
                      /\ faultsLeft' \in 0 .. MaxFaults
                      /\ \/ files' = files
                         \/ page # {} /\ files' = [files EXCEPT ![r.id] = Torn]
  <2>1. files' \in [Ids -> Entries \cup {Absent, Torn}]
    BY <1>0, <1>1, TornType DEF HarvesterTypeOK
  <2>2. \A i \in Ids : files'[i] = Absent => rows'[i] = Absent
    BY <1>0, <1>1, TornType DEF CopyInv, HarvesterTypeOK
  <2>. QED
    BY <1>0, <1>1, <2>1, <2>2 DEF HarvesterTypeOK, CopyInv, EndHarvest
<1>2. \A f : Fault(f) => faultsLeft' \in 0 .. MaxFaults
  BY <1>0, HarvesterAssumption DEF Fault, HarvesterTypeOK, HarvesterAssumption
<1>3. NoFault => faultsLeft' \in 0 .. MaxFaults
  BY <1>0 DEF NoFault, HarvesterTypeOK
<1>4. (UpdateStatus => hsTime' \in Time \cup {Never}) /\ (GiveUp => hsTime' \in Time \cup {Never})
  BY <1>0 DEF UpdateStatus, GiveUp, HarvesterTypeOK
<1>5. (UpdateStatus => EndHarvest) /\ (GiveUp => EndHarvest)
  BY DEF UpdateStatus, GiveUp
<1>6. CASE RejectRecord
  BY <1>1, <1>2, <1>3, <1>4, <1>5, <1>6 DEF RejectRecord, copies
<1>7. CASE SkipRecord
  BY <1>0, <1>7 DEF SkipRecord, copies, HarvesterTypeOK, CopyInv
<1>8. CASE WriteFile
  <2>1. PICK s \in page : Writing(s) /\ (Write(s) \/ (WriteFails(s) /\ GiveUp))
    BY <1>8 DEF WriteFile
  <2>2. s = r /\ page # {} /\ hpc = "records"
    BY <2>1 DEF Writing
  <2>3. r \in page /\ r.id \in Ids /\ Entry(r) \in Entries /\ Entry(r) # Absent
    BY <1>0, <2>2, FirstOfPage
  <2>4. CASE Write(r)
    <3>1. files' \in [Ids -> Entries \cup {Absent, Torn}]
      BY <1>0, <2>3, <2>4 DEF Write, HarvesterTypeOK
    <3>2. CopyInv'
      BY <1>0, <2>2, <2>3, <2>4 DEF Write, CopyInv, HarvesterTypeOK
    <3>. QED
      BY <1>0, <2>2, <2>4, <3>1, <3>2 DEF Write, NoFault, HarvesterTypeOK
  <2>5. CASE WriteFails(r) /\ GiveUp
    BY <1>1, <1>2, <1>4, <1>5, <2>2, <2>5 DEF WriteFails
  <2>. QED
    BY <2>1, <2>2, <2>4, <2>5
<1>9. CASE ImportFile
  <2>1. hpc = "import" /\ page # {} /\ files[r.id] = Entry(r)
    BY <1>0, <1>9 DEF ImportFile, CopyInv
  <2>2. r.id \in Ids /\ files[r.id] \in Entries /\ files[r.id] # Absent
    BY <1>0, <2>1, FirstOfPage
  <2>3. rows' \in [Ids -> Entries \cup {Absent}]
    BY <1>0, <1>9, <2>2 DEF ImportFile, HarvesterTypeOK
  <2>4. CopyInv'
    BY <1>0, <1>9, <2>2 DEF ImportFile, CopyInv, HarvesterTypeOK
  <2>5. faultsLeft' \in 0 .. MaxFaults
    BY <1>2, <1>3, <1>9 DEF ImportFile
  <2>. QED
    BY <1>0, <1>9, <2>1, <2>3, <2>4, <2>5 DEF ImportFile, HarvesterTypeOK
<1>10. CASE FinishList
  BY <1>1, <1>2, <1>3, <1>4, <1>5, <1>10 DEF FinishList, copies
<1>11. CASE BadResponse
  BY <1>1, <1>2, <1>4, <1>5, <1>11 DEF BadResponse, copies
<1>12. CASE EmptyResponse
  BY <1>1, <1>2, <1>4, <1>5, <1>12 DEF EmptyResponse, copies
<1>13. CASE Crash
  BY <1>1, <1>2, <1>4, <1>5, <1>13 DEF Crash
<1>. QED
  BY <1>6, <1>7, <1>8, <1>9, <1>10, <1>11, <1>12, <1>13 DEF LocalStep

LEMMA LocalBase ==
    ASSUME BaseInv, Local
    PROVE  BaseInv'
<1>. DEFINE c == harvesterClient
<1>. USE HarvesterIsClient
<1>1. SyncTypeOK /\ TypeOK /\ WalkInv /\ LinkInv /\ LocalStep
  BY DEF BaseInv, SyncTypeOK, Local
<1>2. /\ HarvesterTypeOK' /\ CopyInv'
      /\ page' # {} => hpc' \in {"records", "import"}
      /\ \/ hpc' = "idle" /\ page' = {}
         \/ hpc \in {"records", "import"} /\ hpc' \in {"records", "import"} /\ next' = next
  BY LocalHarvester DEF Local
<1>3. astray' \subseteq Ids
  BY <1>1 DEF Local, SyncTypeOK
<1>4. CASE hpc' = "idle"
  <2>1. Forget /\ UNCHANGED <<now, ds, digesting, changedAt>>
    BY <1>4 DEF Local, catalogue
  <2>2. TypeOK'
    <3>1. [prefix |-> "dif", query |-> NextQuery, token |-> NoToken] \in Requests
      BY <1>1, NextQueryType DEF Requests
    <3>2. NoPlan \in Plans /\ Error("none") \in Replies
      BY DEF NoPlan, Plans, Error, Replies
    <3>. QED
      BY <1>1, <2>1, <3>1, <3>2 DEF TypeOK, Forget
  <2>3. ASSUME NEW d \in Clients
        PROVE  ClientInv(d)'
    <3>1. CASE d = c
      <4>1. pc'[c] = "idle"
        BY <1>1, <2>1 DEF Forget, TypeOK
      <4>. QED
        BY <3>1, <4>1
        DEF ClientInv, StayedInList, Walking, CountInv, RowsInv, PageInv, CompleteInv
    <3>2. CASE d # c
      <4>1. /\ pc'[d] = pc[d] /\ req'[d] = req[d] /\ plan'[d] = plan[d]
            /\ reply'[d] = reply[d] /\ seen'[d] = seen[d]
            /\ stayed'[d] = stayed[d] /\ moved'[d] = moved[d]
        BY <1>1, <2>1, <3>2 DEF Forget, TypeOK
      <4>. QED
        BY <1>1, <2>1, <4>1, Unaffected DEF WalkInv
    <3>. QED
      BY <3>1, <3>2
  <2>4. LinkInv'
    <3>1. pc'[c] = "idle"
      BY <1>1, <2>1 DEF Forget, TypeOK
    <3>2. page' = {}
      BY <1>2, <1>4
    <3>. QED
      BY <1>4, <3>1, <3>2 DEF LinkInv, Walking, Waiting
  <2>. QED
    BY <1>1, <1>2, <1>3, <2>1, <2>2, <2>3, <2>4 DEF BaseInv, SyncTypeOK, WalkInv
<1>5. CASE hpc' # "idle"
  <2>1. UNCHANGED <<now, ds, digesting, changedAt, provider, history>>
    BY <1>5 DEF Local, catalogue
  <2>2. TypeOK' /\ WalkInv'
    BY <1>1, <2>1, ProviderUnchanged DEF TypeOK
  <2>3. LinkInv'
    BY <1>1, <1>2, <1>5, <2>1 DEF LinkInv, Walking, Waiting, provider
  <2>. QED
    BY <1>1, <1>2, <1>3, <2>1, <2>2, <2>3 DEF BaseInv, SyncTypeOK
<1>. QED
  BY <1>4, <1>5

LEMMA BeginDigestBase ==
    ASSUME BaseInv, NEW i \in Ids, BeginDigest(i)
    PROVE  BaseInv'
<1>1. SyncTypeOK /\ TypeOK /\ WalkInv /\ LinkInv /\ CopyInv
  BY DEF BaseInv, SyncTypeOK
<1>2. digesting' \in [Ids -> Rows \cup {Absent}]
  BY <1>1, InfoType DEF BeginDigest, SyncTypeOK
<1>3. UNCHANGED <<now, ds, changedAt, provider, history, harvester, astray>>
  BY DEF BeginDigest
<1>4. TypeOK' /\ WalkInv'
  BY <1>1, <1>3, ProviderUnchanged DEF TypeOK
<1>5. SyncTypeOK' /\ LinkInv' /\ CopyInv'
  BY <1>1, <1>2, <1>3, <1>4
  DEF SyncTypeOK, HarvesterTypeOK, LinkInv, CopyInv, harvester, provider, Walking, Waiting
<1>. QED
  BY <1>4, <1>5 DEF BaseInv

LEMMA PassTimeBase ==
    ASSUME BaseInv, SyncPassTime
    PROVE  BaseInv'
<1>1. SyncTypeOK /\ TypeOK /\ WalkInv /\ LinkInv /\ CopyInv
  BY DEF BaseInv, SyncTypeOK
<1>2. now' \in Time /\ UNCHANGED <<ds, digesting, changedAt, provider, history, harvester, astray>>
  BY <1>1, CommonAssumption DEF SyncPassTime, Tick, TypeOK, Time, CommonAssumption, catalogue
<1>3. TypeOK' /\ WalkInv'
  BY <1>1, <1>2, ProviderUnchanged
<1>4. SyncTypeOK' /\ LinkInv' /\ CopyInv'
  BY <1>1, <1>2, <1>3
  DEF SyncTypeOK, HarvesterTypeOK, LinkInv, CopyInv, harvester, provider, Walking, Waiting
<1>. QED
  BY <1>3, <1>4 DEF BaseInv

LEMMA BaseStep ==
    ASSUME BaseInv, [SyncNext]_syncVars
    PROVE  BaseInv'
<1>1. CASE Change
  <2>1. PICK i \in Ids, valid \in BOOLEAN :
          \/ Edit(i, valid) \/ BeginDigest(i) \/ EndDigest(i, valid)
          \/ \E status \in {"active", "deleted"}, tag \in Tags : Manage(i, status, tag)
    BY <1>1 DEF Change
  <2>2. CASE BeginDigest(i)
    BY <2>2, BeginDigestBase
  <2>3. CASE ~ BeginDigest(i)
    <3>1. PICK row \in Rows : ImportChange(i, row)
      BY <2>1, <2>3, ChangeIsImport DEF BaseInv
    <3>2. digesting' \in [Ids -> Rows \cup {Absent}]
      BY <2>1, <2>3, ChangeIsImport DEF BaseInv
    <3>. QED
      BY <3>1, <3>2, ImportBase
  <2>. QED
    BY <2>2, <2>3
<1>2. CASE Ask \/ AskMore \/ Count
  BY <1>2, AskBase
<1>3. CASE Answer
  BY <1>3, AnswerBase
<1>4. CASE Local
  BY <1>4, LocalBase
<1>5. CASE SyncPassTime
  BY <1>5, PassTimeBase
<1>6. CASE UNCHANGED syncVars
  <2>1. SyncTypeOK /\ TypeOK /\ WalkInv /\ LinkInv /\ CopyInv
    BY DEF BaseInv, SyncTypeOK
  <2>2. UNCHANGED <<now, ds, digesting, changedAt, provider, history, harvester, astray>>
    BY <1>6 DEF syncVars, catalogue
  <2>3. TypeOK' /\ WalkInv'
    BY <2>1, <2>2, ProviderUnchanged DEF TypeOK
  <2>. QED
    BY <2>1, <2>2, <2>3
    DEF BaseInv, SyncTypeOK, HarvesterTypeOK, LinkInv, CopyInv, harvester, provider, Walking,
        Waiting
<1>. QED
  BY <1>1, <1>2, <1>3, <1>4, <1>5, <1>6 DEF SyncNext

LEMMA BaseInit == SyncInit => BaseInv
<1>. SUFFICES ASSUME SyncInit PROVE BaseInv
  OBVIOUS
<1>1. TypeOK
  BY CommonAssumption, InputAssumption
  DEF SyncInit, Init, TypeOK, CommonAssumption, InputAssumption, Time, Requests, NoPlan,
      Plans, Error, Replies
<1>2. SyncTypeOK
  BY <1>1, HarvesterAssumption
  DEF SyncInit, HarvesterInit, SyncTypeOK, HarvesterTypeOK, HarvesterAssumption
<1>3. \A c \in Clients : pc[c] = "idle"
  BY DEF SyncInit, Init
<1>4. WalkInv
  BY <1>3
  DEF WalkInv, ClientInv, StayedInList, Walking, CountInv, RowsInv, PageInv, CompleteInv
<1>5. LinkInv /\ CopyInv
  BY <1>3, HarvesterIsClient DEF SyncInit, HarvesterInit, LinkInv, CopyInv, Walking, Waiting
<1>. QED
  BY <1>2, <1>4, <1>5 DEF BaseInv

(***************************************************************************)
(* Every variable of the two installations keeps its type, whatever fails  *)
(* and whatever the writers do: in particular the harvester imports only   *)
(* file pairs it has written completely, never a torn one.                 *)
(***************************************************************************)
THEOREM SyncTypeCorrect == SyncSpec => []SyncTypeOK
<1>1. BaseInv => SyncTypeOK
  BY DEF BaseInv
<1>. QED
  BY <1>1, BaseInit, BaseStep, PTL DEF SyncSpec
-----------------------------------------------------------------------------
(***************************************************************************)
(* What the harvester may rely on.  A dataset that was imported on the day *)
(* of its datestamp, and not today, is not going to be asked for by the    *)
(* next harvest if that is today's last; so wherever the harvester is,     *)
(* such a dataset is copied, or its record is on the page at hand, or the  *)
(* walk is still to deliver it.                                            *)
(***************************************************************************)

Due(i) == Exported(i) /\ changedAt[i] # Never /\ Day(changedAt[i]) = Day(ds[i].stamp)

Old(i) == Due(i) /\ Day(ds[i].stamp) < Day(now)

\* HS_time is not in the future; the transaction of a harvest is of its day.
DayInv ==
    /\ hsTime # Never => Day(hsTime) <= Day(now)
    /\ hpc # "idle" /\ txn # Never => Day(txn) = Day(now)

\* The provider sends no record that the harvester cannot use.
UsableInv == \A r \in page : ~Unusable(r)

\* The record tells what it would tell now.
Right(r) == r.stamp = ds[r.id].stamp /\ r.status = OaiRecord(r.id, "dif").status

InHand(i) ==
    \/ Mirrors(i)
    \/ \E r \in page : r.id = i
    \/ Walking(harvesterClient) /\ i \in stayed[harvesterClient] \ seen[harvesterClient]

HarvestInv == hpc # "idle" =>
    \A i \in Ids \ astray : Old(i) =>
        /\ \A r \in page : r.id = i => Right(r)
        /\ InHand(i)

SyncInv == BaseInv /\ DayInv /\ UsableInv /\ HarvestInv /\ SyncCheckpointSound

LEMMA FromInt == SyncTypeOK => From \in Int
  BY NextQueryType, CommonAssumption DEF NextQuery, AllQueries, Time, CommonAssumption

\* What is due and not asked for, is not asked for because of HS_time ...
LEMMA Unasked ==
    ASSUME SyncTypeOK, NEW i \in Ids, Due(i)
    PROVE  /\ ds[i] \in Rows /\ ds[i].stamp \in Time
           /\ ~Matches(ds[i], NextQuery) <=> ds[i].stamp < From
<1>1. ds[i] \in Rows
  BY DEF Due, Exported, Exportable, SyncTypeOK, TypeOK
<1>2. ds[i].stamp \in Time
  BY <1>1 DEF Rows
<1>3. From \in Int /\ MaxTime \in Nat
  BY FromInt, CommonAssumption DEF CommonAssumption
<1>. QED
  BY <1>1, <1>2, <1>3 DEF Due, Exported, Matches, NextQuery, Time

\* ... and then it is of a day before today.
LEMMA UnaskedIsOld ==
    ASSUME SyncTypeOK, DayInv, NEW i \in Ids, Due(i), ~Matches(ds[i], NextQuery)
    PROVE  Old(i)
<1>1. ds[i].stamp \in Nat /\ ds[i].stamp < From /\ now \in Nat
  BY Unasked, CommonAssumption DEF Time, SyncTypeOK, TypeOK, CommonAssumption
<1>2. CASE hsTime = Never
  BY <1>1, <1>2 DEF From
<1>3. CASE hsTime # Never
  <2>1. hsTime \in Nat
    BY <1>3, CommonAssumption DEF SyncTypeOK, HarvesterTypeOK, Time, CommonAssumption
  <2>2. Day(ds[i].stamp) < Day(hsTime) /\ Day(hsTime) <= Day(now)
    BY <1>1, <1>3, <2>1, DayOrder DEF From, DayInv
  <2>3. Day(ds[i].stamp) \in Nat /\ Day(hsTime) \in Nat /\ Day(now) \in Nat
    BY <1>1, <2>1, DayBounds
  <2>4. Day(ds[i].stamp) < Day(now)
    BY <2>2, <2>3
  <2>. QED
    BY <2>4 DEF Old
<1>. QED
  BY <1>2, <1>3

\* The same of all datasets, to be used of the next state too.
UnaskedAreOld == SyncTypeOK /\ DayInv =>
    \A i \in Ids : Due(i) /\ ~Matches(ds[i], NextQuery) => Old(i)

LEMMA UnaskedAreOldNext == UnaskedAreOld'
<1>1. UnaskedAreOld
  BY UnaskedIsOld DEF UnaskedAreOld
<1>. QED
  BY <1>1, PTL

LEMMA DayInt == SyncTypeOK => Day(now) \in Nat
  BY DayBounds, CommonAssumption DEF SyncTypeOK, TypeOK, Time, CommonAssumption

\* A writer that imports a dataset leaves it as of today, if it is due at all.
LEMMA ImportSync ==
    ASSUME SyncInv, NEW i \in Ids, NEW row \in Rows, ImportChange(i, row), BaseInv'
    PROVE  SyncInv'
<1>. DEFINE c == harvesterClient
<1>. USE HarvesterIsClient
<1>1. SyncTypeOK /\ TypeOK /\ SyncTypeOK' /\ WalkInv
  BY DEF SyncInv, BaseInv, SyncTypeOK
<1>2. /\ UNCHANGED <<now, tokens, pc, req, plan, reply, seen, repeated>>
      /\ UNCHANGED <<hpc, hsTime, txn, page, next, files, rows, faultsLeft>>
      /\ astray' = astray \ {i} /\ ds' = [ds EXCEPT ![i] = row]
      /\ changedAt' = [changedAt EXCEPT ![i] = now]
  BY DEF ImportChange, Import, provider, harvester
<1>3. DayInv' /\ UsableInv'
  BY <1>2 DEF SyncInv, DayInv, UsableInv
<1>4. Day(now) \in Nat
  BY <1>1, DayInt
<1>5. ~Old(i)'
  BY <1>1, <1>2, <1>4 DEF Old, Due, SyncTypeOK
<1>6. ASSUME NEW k \in Ids, k # i
      PROVE  /\ ds'[k] = ds[k] /\ changedAt'[k] = changedAt[k]
             /\ Due(k)' = Due(k) /\ Old(k)' = Old(k) /\ Mirrors(k)' = Mirrors(k)
             /\ \A r : r.id = k => Right(r)' = Right(r)
  BY <1>1, <1>2, <1>6
  DEF SyncTypeOK, TypeOK, Old, Due, Exported, Mirrors, OaiRecord, Right
<1>7. HarvestInv'
  <2>. SUFFICES ASSUME hpc # "idle", NEW k \in Ids \ astray', Old(k)'
                PROVE  /\ \A r \in page : r.id = k => Right(r)'
                       /\ InHand(k)'
    BY <1>2 DEF HarvestInv
  <2>1. k # i /\ k \notin astray
    BY <1>2, <1>5
  <2>2. (\A r \in page : r.id = k => Right(r)) /\ InHand(k)
    BY <1>6, <2>1 DEF SyncInv, HarvestInv
  <2>3. Walking(c) /\ k \in stayed[c] => k \in stayed'[c]
    <3>. SUFFICES ASSUME Walking(c), k \in stayed[c] PROVE k \in stayed'[c]
      OBVIOUS
    <3>1. k \in Matching(ds, Query(req[c]))
      BY <1>1 DEF WalkInv, ClientInv, StayedInList, List
    <3>2. k \in Matching(ds', Query(req[c]))
      BY <1>6, <2>1, <3>1 DEF Matching
    <3>. QED
      BY <3>2 DEF ImportChange, Import
  <2>4. InHand(k)'
    BY <1>2, <1>6, <2>1, <2>2, <2>3 DEF InHand, Walking
  <2>. QED
    BY <1>6, <2>1, <2>2, <2>4
<1>8. SyncCheckpointSound'
  <2>. SUFFICES ASSUME NEW k \in Ids \ astray', Due(k)', ~Matches(ds[k], NextQuery)'
                PROVE  Mirrors(k)'
    BY DEF SyncCheckpointSound, Due
  <2>1. Old(k)'
    BY <1>1, <1>3, UnaskedAreOldNext DEF UnaskedAreOld
  <2>2. k # i /\ k \notin astray
    BY <1>2, <1>5, <2>1
  <2>3. Due(k) /\ ~Matches(ds[k], NextQuery)
    BY <1>2, <1>6, <2>2 DEF NextQuery, From
  <2>4. Mirrors(k)
    BY <2>2, <2>3 DEF SyncInv, SyncCheckpointSound, Due
  <2>. QED
    BY <1>6, <2>2, <2>4
<1>. QED
  BY <1>3, <1>7, <1>8 DEF SyncInv

\* A step in which no record is fetched or processed, and HS_time stays.
LEMMA QuietStep ==
    ASSUME SyncInv, BaseInv', DayInv',
           UNCHANGED <<ds, changedAt, hsTime, page, rows, astray>>,
           \A i \in Ids \ astray : Old(i) /\ hpc' # "idle" =>
               /\ hpc # "idle" \/ page = {}
               /\ Mirrors(i) \/ InHand(i)' \/ \E r \in page : r.id = i,
           \A i \in Ids : hpc' # "idle" => Old(i)' = Old(i)
    PROVE  SyncInv'
<1>1. UsableInv'
  BY DEF SyncInv, UsableInv
<1>2. \A i \in Ids : Mirrors(i)' = Mirrors(i)
  BY DEF Mirrors, OaiRecord
<1>3. HarvestInv'
  <2>. SUFFICES ASSUME hpc' # "idle", NEW i \in Ids \ astray, Old(i)
                PROVE  /\ \A r \in page : r.id = i => Right(r)'
                       /\ InHand(i)'
    BY DEF HarvestInv
  <2>1. \A r \in page : r.id = i => Right(r)
    BY DEF SyncInv, HarvestInv
  <2>. QED
    BY <1>2, <2>1 DEF InHand, Right, OaiRecord
<1>4. SyncCheckpointSound'
  BY <1>2 DEF SyncInv, SyncCheckpointSound, NextQuery, From, Exported
<1>. QED
  BY <1>1, <1>3, <1>4 DEF SyncInv

LEMMA AskSync ==
    ASSUME SyncInv, Ask \/ AskMore \/ Count, BaseInv'
    PROVE  SyncInv'
<1>. DEFINE c == harvesterClient
<1>. USE HarvesterIsClient
<1>1. SyncTypeOK /\ TypeOK /\ LinkInv
  BY DEF SyncInv, BaseInv, SyncTypeOK
<1>2. CASE Ask
  <2>1. /\ hpc = "idle" /\ page = {} /\ txn' = now
        /\ UNCHANGED <<now, ds, hsTime, page, rows, changedAt, astray>>
    BY <1>1, <1>2 DEF Ask, StartHarvest, BeginWalk, copies, LinkInv
  <2>2. DayInv'
    BY <2>1 DEF SyncInv, DayInv
  <2>3. \A i \in Ids : Old(i)' = Old(i)
    BY <2>1 DEF Old, Due, Exported
  <2>4. ASSUME NEW i \in Ids \ astray, Old(i)
        PROVE  Mirrors(i) \/ InHand(i)'
    <3>1. CASE Matches(ds[i], NextQuery)
      <4>1. Walking(c)' /\ stayed'[c] = Matching(ds, NextQuery) /\ seen'[c] = {}
        BY <1>1, <1>2 DEF Ask, BeginWalk, Walking, TypeOK
      <4>. QED
        BY <3>1, <4>1 DEF InHand, Matching
    <3>2. CASE ~Matches(ds[i], NextQuery)
      BY <2>4, <3>2 DEF Old, Due, SyncInv, SyncCheckpointSound
    <3>. QED
      BY <3>1, <3>2
  <2>. QED
    BY <2>1, <2>2, <2>3, <2>4, QuietStep
<1>3. CASE AskMore \/ Count
  <2>1. /\ hpc # "idle" /\ Walking(c) /\ Walking(c)'
        /\ UNCHANGED <<now, ds, hsTime, txn, page, rows, changedAt, astray, seen, stayed>>
    BY <1>1, <1>3
    DEF AskMore, Count, FollowToken, Resume, CountList, Waiting, Walking, TypeOK, copies,
        harvester, history, LinkInv
  <2>2. DayInv'
    BY <2>1 DEF SyncInv, DayInv
  <2>3. \A i \in Ids : Old(i)' = Old(i) /\ Mirrors(i)' = Mirrors(i)
    BY <2>1 DEF Old, Due, Exported, Mirrors, OaiRecord
  <2>4. ASSUME NEW i \in Ids \ astray, Old(i)
        PROVE  InHand(i)'
    <3>1. InHand(i)
      BY <2>1, <2>4 DEF SyncInv, HarvestInv
    <3>. QED
      BY <2>1, <2>3, <3>1 DEF InHand
  <2>. QED
    BY <2>1, <2>2, <2>3, <2>4, QuietStep
<1>. QED
  BY <1>2, <1>3

LEMMA PassTimeSync ==
    ASSUME QuietMidnight, SyncInv, SyncPassTime, BaseInv'
    PROVE  SyncInv'
<1>1. SyncTypeOK /\ TypeOK
  BY DEF SyncInv, BaseInv, SyncTypeOK
<1>2. /\ UNCHANGED <<ds, changedAt, hpc, hsTime, txn, page, rows, astray, pc, seen, stayed>>
      /\ now' = now + 1 /\ (hpc # "idle" => Day(now') = Day(now))
  BY DEF SyncPassTime, Tick, catalogue, provider, history, harvester
<1>3. now \in Nat /\ now' \in Nat
  BY <1>1, <1>2, CommonAssumption DEF TypeOK, Time, CommonAssumption
<1>4. Day(now) <= Day(now') /\ Day(now) \in Nat /\ Day(now') \in Nat
  BY <1>2, <1>3, DayOrder, DayBounds
<1>5. hsTime # Never => Day(hsTime) \in Nat
  BY <1>1, DayBounds, CommonAssumption
  DEF SyncTypeOK, HarvesterTypeOK, Time, CommonAssumption
<1>6. DayInv'
  <2>1. \A t : Day(t)' = Day(t)
    BY DEF Day
  <2>2. hsTime # Never => Day(hsTime) <= Day(now')
    BY <1>4, <1>5 DEF SyncInv, DayInv
  <2>. QED
    BY <1>2, <2>2 DEF SyncInv, DayInv, Day
<1>7. \A i \in Ids : Mirrors(i)' = Mirrors(i) /\ InHand(i)' = InHand(i)
  BY <1>2 DEF InHand, Mirrors, OaiRecord, Walking
<1>8. hpc # "idle" => \A i \in Ids : Old(i)' = Old(i)
  BY <1>2 DEF Old, Due, Exported, Day
<1>9. \A i \in Ids \ astray : Old(i) /\ hpc # "idle" => InHand(i)
  BY DEF SyncInv, HarvestInv
<1>. QED
  BY <1>2, <1>6, <1>7, <1>8, <1>9, QuietStep

\* What the provider cannot vouch for is the deletion of a record of a later page.
LEMMA AnswerIsUsable ==
    ASSUME Validation, NEW i \in Ids, NEW prefix
    PROVE  ~Unusable(OaiRecord(i, prefix))
  BY DEF Unusable, OaiRecord

LEMMA UpdateIsToday ==
    ASSUME SyncTypeOK, DayInv, hpc # "idle", UpdateStatus
    PROVE  /\ hsTime' # Never /\ Day(hsTime') = Day(now)
           /\ hpc' = "idle"
  BY HarvesterAssumption
  DEF UpdateStatus, EndHarvest, DayInv, SyncTypeOK, TypeOK, HarvesterTypeOK,
      HarvesterAssumption

\* The end of a harvest with an update is right if what is old is copied.
LEMMA UpdateSync ==
    ASSUME SyncInv, BaseInv', hpc # "idle", UpdateStatus,
           UNCHANGED <<now, ds, changedAt, rows>>,
           \A i \in Ids \ astray' : Old(i) => Mirrors(i)
    PROVE  SyncInv'
<1>1. SyncTypeOK /\ SyncTypeOK' /\ DayInv
  BY DEF SyncInv, BaseInv
<1>2. Day(hsTime') = Day(now) /\ hsTime' # Never /\ hpc' = "idle" /\ page' = {}
  BY <1>1, UpdateIsToday DEF UpdateStatus, EndHarvest
<1>3. \A t : Day(t)' = Day(t)
  BY DEF Day
<1>4. Day(now) \in Nat
  BY <1>1, DayInt
<1>5. DayInv' /\ UsableInv' /\ HarvestInv'
  BY <1>2, <1>3, <1>4 DEF DayInv, UsableInv, HarvestInv
<1>6. \A i \in Ids : Mirrors(i)' = Mirrors(i) /\ Old(i)' = Old(i)
  BY DEF Mirrors, OaiRecord, Old, Due, Exported, Day
<1>7. SyncCheckpointSound'
  <2>. SUFFICES ASSUME NEW i \in Ids \ astray', Due(i)', ~Matches(ds[i], NextQuery)'
                PROVE  Mirrors(i)'
    BY DEF SyncCheckpointSound, Due
  <2>1. Old(i)'
    BY <1>1, <1>5, UnaskedAreOldNext DEF UnaskedAreOld
  <2>. QED
    BY <1>6, <2>1
<1>. QED
  BY <1>5, <1>7 DEF SyncInv

\* The end of one without an update changes nothing for those that were astray
\* neither before nor after, or are copied.
LEMMA GiveUpSync ==
    ASSUME SyncInv, BaseInv', hpc # "idle", GiveUp,
           UNCHANGED <<now, ds, changedAt, rows>>,
           \A i \in Ids \ astray' : i \notin astray \/ Mirrors(i)
    PROVE  SyncInv'
<1>1. hpc' = "idle" /\ page' = {} /\ hsTime' = hsTime
  BY DEF GiveUp, EndHarvest
<1>2. DayInv' /\ UsableInv' /\ HarvestInv'
  BY <1>1 DEF SyncInv, DayInv, UsableInv, HarvestInv, Day
<1>3. \A i \in Ids : Mirrors(i)' = Mirrors(i)
  BY DEF Mirrors, OaiRecord
<1>4. SyncCheckpointSound'
  BY <1>1, <1>3 DEF SyncInv, SyncCheckpointSound, NextQuery, From, Exported
<1>. QED
  BY <1>2, <1>4 DEF SyncInv

(***************************************************************************)
(* An answer that ends the list leaves out only what was in it all the     *)
(* time and behind something that moved (WalkInv), which is then astray.   *)
(***************************************************************************)
LEMMA NothingLeftOut ==
    ASSUME SyncTypeOK, WalkInv', Answer, pc'[harvesterClient] = "complete",
           NEW i \in Ids \ astray', i \in stayed[harvesterClient]
    PROVE  i \in seen'[harvesterClient]
<1>. DEFINE c == harvesterClient
<1>1. stayed'[c] = stayed[c] /\ moved'[c] = moved[c]
  BY DEF Answer, RejectToken, FetchPage, history
<1>2. i \in Settled(c)' => i \in seen'[c]
  BY HarvesterIsClient DEF WalkInv, ClientInv, CompleteInv
<1>3. i \notin Settled(c)' => \E j \in moved[c] : j < i
  BY <1>1 DEF Settled
<1>4. i \notin SkippedOver
  BY DEF Answer
<1>. QED
  BY <1>2, <1>3, <1>4 DEF SkippedOver

LEMMA AnswerSync ==
    ASSUME Validation, SyncInv, Answer, BaseInv'
    PROVE  SyncInv'
<1>. DEFINE c == harvesterClient
<1>. USE HarvesterIsClient
<1>1. SyncTypeOK /\ TypeOK /\ LinkInv /\ WalkInv'
  BY DEF SyncInv, BaseInv, SyncTypeOK
<1>2. /\ hpc # "idle" /\ page = {} /\ Walking(c)
      /\ UNCHANGED <<now, ds, changedAt, rows, stayed>>
      /\ astray \subseteq astray' /\ Misreported \subseteq astray'
  BY <1>1
  DEF Answer, Receive, Waiting, LinkInv, Walking, RejectToken, FetchPage, history, copies
<1>3. \A i \in Ids \ astray' : Old(i) => Mirrors(i) \/ i \in stayed[c] \ seen[c]
  BY <1>2 DEF SyncInv, HarvestInv, InHand
<1>4. CASE RejectToken(c)
  <2>1. reply'[c].code = "badResumptionToken"
    BY <1>1, <1>4 DEF RejectToken, TypeOK, Error
  <2>2. GiveUp
    BY <2>1 DEF Answer, Receive
  <2>. QED
    BY <1>2, <2>2, GiveUpSync
<1>5. CASE FetchPage(c)
  <2>1. seen'[c] = seen[c] \cup PageRows(c)
    BY <1>1, <1>5 DEF FetchPage, TypeOK
  <2>2. CASE PageRows(c) = {}
    <3>1. reply'[c].code = "noRecordsMatch" /\ pc'[c] = "complete"
      BY <1>1, <1>5, <2>2 DEF FetchPage, TypeOK, Error
    <3>2. UpdateStatus
      BY <3>1 DEF Answer, Receive
    <3>3. \A i \in Ids \ astray' : Old(i) => Mirrors(i)
      BY <1>1, <1>3, <2>1, <2>2, <3>1, NothingLeftOut
    <3>. QED
      BY <1>2, <3>2, <3>3, UpdateSync
  <2>3. CASE PageRows(c) # {}
    <3>1. /\ reply'[c].code = "records"
          /\ reply'[c].records = {OaiRecord(i, req[c].prefix) : i \in PageRows(c)}
          /\ pc'[c] \in {"complete", "page"}
      BY <1>1, <1>5, <2>3 DEF FetchPage, TypeOK
    <3>2. /\ hpc' = "records" /\ UNCHANGED <<hsTime, txn>>
          /\ page' = {OaiRecord(i, req[c].prefix) : i \in PageRows(c)}
      BY <3>1 DEF Answer, Receive
    <3>3. PageRows(c) \subseteq Ids
      BY PageRowsMatch, MatchingType
    <3>4. DayInv'
      BY <1>2, <3>2 DEF SyncInv, DayInv, Day
    <3>5. UsableInv'
      <4>1. \A r \in page' : ~Unusable(r)
        BY <3>2, <3>3, AnswerIsUsable
      <4>. QED
        BY <4>1 DEF UsableInv, Unusable
    <3>6. \A i \in Ids : Mirrors(i)' = Mirrors(i) /\ Old(i)' = Old(i)
      BY <1>2 DEF Mirrors, OaiRecord, Old, Due, Exported, Day
    <3>7. ASSUME NEW i \in Ids \ astray', Old(i), NEW r \in page', r.id = i
          PROVE  Right(r)'
      <4>1. PICK j \in PageRows(c) : r = OaiRecord(j, req[c].prefix)
        BY <3>2
      <4>2. r.stamp = ds[i].stamp
        BY <3>7, <4>1 DEF OaiRecord
      <4>3. r.status = OaiRecord(i, "dif").status
        <5>1. r \in reply'[c].records
          BY <3>1, <3>2
        <5>2. r.id \notin Misreported
          BY <1>2, <3>7
        <5>. QED
          BY <3>7, <5>1, <5>2 DEF Misreported
      <4>. QED
        BY <1>2, <3>7, <4>2, <4>3 DEF Right, OaiRecord
    <3>8. ASSUME NEW i \in Ids \ astray', Old(i)
          PROVE  InHand(i)'
      <4>1. CASE i \in PageRows(c)
        <5>1. OaiRecord(i, req[c].prefix) \in page' /\ OaiRecord(i, req[c].prefix).id = i
          BY <3>2, <4>1 DEF OaiRecord
        <5>. QED
          BY <5>1 DEF InHand
      <4>2. CASE i \notin PageRows(c) /\ ~Mirrors(i)
        <5>1. i \in stayed[c] /\ i \notin seen'[c]
          BY <1>3, <2>1, <3>8, <4>2
        <5>2. pc'[c] # "complete"
          BY <1>1, <5>1, NothingLeftOut
        <5>3. Walking(c)'
          BY <3>1, <5>2 DEF Walking
        <5>. QED
          BY <1>2, <5>1, <5>3 DEF InHand
      <4>. QED
        BY <3>6, <4>1, <4>2 DEF InHand
    <3>9. HarvestInv'
      BY <3>6, <3>7, <3>8 DEF HarvestInv
    <3>10. SyncCheckpointSound'
      BY <1>2, <3>2, <3>6 DEF SyncInv, SyncCheckpointSound, NextQuery, From, Exported
    <3>. QED
      BY <3>4, <3>5, <3>9, <3>10 DEF SyncInv
  <2>. QED
    BY <2>2, <2>3
<1>. QED
  BY <1>4, <1>5 DEF Answer

(***************************************************************************)
(* The harvester on its own.  Of the faults, those that the code takes for *)
(* a success are left out: they are what oai_source is about.              *)
(***************************************************************************)
Noticed == Faults \cap {"badRecord", "empty", "importFails"} = {}

\* A record is processed: skipped, written or imported.
LEMMA RecordSync ==
    ASSUME Noticed, SyncInv, BaseInv', Local, SkipRecord \/ WriteFile \/ ImportFile,
           hpc' # "idle"
    PROVE  SyncInv'
<1>. DEFINE r == First(page)
<1>1. SyncTypeOK /\ TypeOK /\ HarvesterTypeOK /\ LinkInv /\ CopyInv
  BY DEF SyncInv, BaseInv, SyncTypeOK
<1>2. /\ hpc \in {"records", "import"} /\ page # {}
      /\ UNCHANGED <<now, ds, changedAt, hsTime, pc, stayed, seen>>
      /\ txn' = txn \/ txn' = Never
  <2>1. UNCHANGED <<now, ds, changedAt, pc, stayed, seen>>
    BY DEF Local, catalogue, provider, history
  <2>2. CASE SkipRecord
    BY <2>1, <2>2 DEF SkipRecord
  <2>3. CASE WriteFile
    BY <2>1, <2>3 DEF WriteFile, Writing, Write, GiveUp, EndHarvest
  <2>4. CASE ImportFile
    BY <1>1, <2>1, <2>4 DEF ImportFile, CopyInv
  <2>. QED
    BY <2>2, <2>3, <2>4
<1>3. r \in page /\ r.id \in Ids
  BY <1>1, <1>2, FirstOfPage
<1>4. \/ UNCHANGED <<page, rows>>
      \/ /\ page' = page \ {r}
         /\ \/ rows' = [rows EXCEPT ![r.id] = Entry(r)]
            \/ UNCHANGED rows /\ r.status = "deleted" /\ rows[r.id] = Absent
  <2>1. CASE SkipRecord
    BY <1>1, <1>3, <2>1 DEF SkipRecord, Ignored, CopyInv, copies
  <2>2. CASE WriteFile
    BY <2>2 DEF WriteFile, Writing, Write, GiveUp, EndHarvest
  <2>3. CASE ImportFile
    BY <1>1, <2>3 DEF ImportFile, CopyInv, Fault, Noticed
  <2>. QED
    BY <2>1, <2>2, <2>3
<1>5. DayInv' /\ UsableInv'
  BY <1>2, <1>4 DEF SyncInv, DayInv, UsableInv, Unusable, Day
<1>6. \A i \in Ids : Old(i)' = Old(i) /\ \A s : Right(s)' = Right(s)
  BY <1>2 DEF Old, Due, Exported, Right, OaiRecord, Day
<1>7. ASSUME NEW i \in Ids \ astray, Old(i)
      PROVE  /\ Mirrors(i) => Mirrors(i)'
             /\ InHand(i)'
  <2>1. (\A s \in page : s.id = i => Right(s)) /\ InHand(i)
    BY <1>2, <1>7 DEF SyncInv, HarvestInv
  <2>2. CASE r.id # i
    <3>1. Mirrors(i)' = Mirrors(i)
      BY <1>1, <1>2, <1>3, <1>4, <2>2 DEF Mirrors, OaiRecord, HarvesterTypeOK
    <3>2. \A s \in page : s.id = i => s \in page'
      BY <1>4, <2>2
    <3>. QED
      BY <1>2, <2>1, <3>1, <3>2 DEF InHand, Walking
  <2>3. CASE r.id = i /\ page' = page \ {r}
    <3>1. Right(r)
      BY <1>3, <2>1, <2>3
    <3>2. Mirrors(i)'
      <4>1. CASE rows' = [rows EXCEPT ![i] = Entry(r)]
        <5>1. rows'[i] = [stamp |-> ds[i].stamp, status |-> OaiRecord(i, "dif").status]
          BY <1>1, <2>3, <3>1, <4>1 DEF Right, Entry, HarvesterTypeOK
        <5>. QED
          BY <1>2, <5>1 DEF Mirrors, OaiRecord
      <4>2. CASE UNCHANGED rows /\ r.status = "deleted" /\ rows[i] = Absent
        BY <1>2, <2>3, <3>1, <4>2 DEF Right, Mirrors, OaiRecord
      <4>. QED
        BY <1>1, <1>3, <1>4, <2>3, <4>1, <4>2 DEF HarvesterTypeOK
    <3>. QED
      BY <3>2 DEF InHand
  <2>4. CASE UNCHANGED <<page, rows>>
    BY <1>2, <2>1, <2>4 DEF InHand, Mirrors, OaiRecord, Walking
  <2>. QED
    BY <1>4, <2>2, <2>3, <2>4
<1>8. \A i \in Ids \ astray' :
          i \notin astray \/ (Mirrors(i)' /\ ~ \E s \in page' : s.id = i)
  BY DEF Local
<1>9. HarvestInv'
  <2>. SUFFICES ASSUME NEW i \in Ids \ astray', Old(i)
                PROVE  /\ \A s \in page' : s.id = i => Right(s)
                       /\ InHand(i)'
    BY <1>6 DEF HarvestInv
  <2>1. CASE i \notin astray
    <3>1. \A s \in page : s.id = i => Right(s)
      BY <1>2, <2>1 DEF SyncInv, HarvestInv
    <3>. QED
      BY <1>4, <1>7, <2>1, <3>1
  <2>2. CASE Mirrors(i)' /\ ~ \E s \in page' : s.id = i
    BY <2>2 DEF InHand
  <2>. QED
    BY <1>8, <2>1, <2>2
<1>10. SyncCheckpointSound'
  <2>. SUFFICES ASSUME NEW i \in Ids \ astray', Due(i), ~Matches(ds[i], NextQuery)
                PROVE  Mirrors(i)'
    BY <1>2 DEF SyncCheckpointSound, Due, Exported, NextQuery, From, Day
  <2>1. Old(i)
    BY <1>1, UnaskedIsOld DEF SyncInv
  <2>2. i \notin astray => Mirrors(i)
    BY DEF SyncInv, SyncCheckpointSound, Due
  <2>. QED
    BY <1>7, <1>8, <2>1, <2>2
<1>. QED
  BY <1>5, <1>9, <1>10 DEF SyncInv

LEMMA LocalSync ==
    ASSUME Noticed, SyncInv, Local, BaseInv'
    PROVE  SyncInv'
<1>. DEFINE c == harvesterClient
<1>1. SyncTypeOK /\ TypeOK /\ HarvesterTypeOK /\ LinkInv
  BY DEF SyncInv, BaseInv, SyncTypeOK
<1>2. UNCHANGED <<now, ds, changedAt>>
  BY DEF Local, catalogue
<1>3. rows' = rows => \A i \in Ids \ astray' : i \notin astray \/ Mirrors(i)
  BY <1>2 DEF Local, Mirrors, OaiRecord
<1>4. CASE GiveUp /\ hpc # "idle" /\ rows' = rows
  BY <1>2, <1>3, <1>4, GiveUpSync
<1>5. CASE RejectRecord
  <2>1. First(page) \in page
    BY <1>1, <1>5, FirstOfPage DEF RejectRecord
  <2>. QED
    BY <1>5, <2>1 DEF RejectRecord, SyncInv, UsableInv, Fault, Noticed
<1>6. CASE FinishList
  <2>1. hpc = "records" /\ page = {} /\ pc[c] = "complete" /\ rows' = rows
    BY <1>1, <1>6 DEF FinishList, LinkInv, copies
  <2>2. CASE UpdateStatus
    <3>1. \A i \in Ids \ astray' : Old(i) => Mirrors(i)
      BY <1>3, <2>1 DEF SyncInv, HarvestInv, InHand, Walking
    <3>. QED
      BY <1>2, <2>1, <2>2, <3>1, UpdateSync
  <2>. QED
    BY <1>4, <1>6, <2>1, <2>2 DEF FinishList
<1>7. CASE WriteFile
  <2>1. hpc # "idle"
    BY <1>7 DEF WriteFile, Writing
  <2>2. CASE hpc' = "idle"
    <3>1. GiveUp /\ rows' = rows
      BY <1>7, <2>2 DEF WriteFile, Write, WriteFails
    <3>. QED
      BY <1>4, <2>1, <3>1
  <2>. QED
    BY <1>7, <2>2, RecordSync
<1>8. CASE SkipRecord \/ ImportFile
  <2>1. hpc' # "idle"
    BY <1>8 DEF SkipRecord, ImportFile
  <2>. QED
    BY <1>8, <2>1, RecordSync
<1>9. CASE BadResponse \/ Crash
  BY <1>4, <1>9 DEF BadResponse, Crash, Waiting, copies
<1>10. CASE EmptyResponse
  BY <1>10 DEF EmptyResponse, Fault, Noticed
<1>. QED
  BY <1>5, <1>6, <1>7, <1>8, <1>9, <1>10 DEF Local, LocalStep

LEMMA NothingChanges ==
    ASSUME SyncInv, BaseInv',
           UNCHANGED <<now, ds, changedAt, provider, history, harvester, astray>>
    PROVE  SyncInv'
<1>1. DayInv'
  BY DEF SyncInv, DayInv, harvester, Day
<1>2. \A i \in Ids : Old(i)' = Old(i) /\ InHand(i)' = InHand(i)
  BY DEF Old, Due, Exported, InHand, Mirrors, OaiRecord, Walking, harvester, provider, history,
         Day
<1>3. \A i \in Ids \ astray : Old(i) /\ hpc # "idle" => InHand(i)
  BY DEF SyncInv, HarvestInv
<1>. QED
  BY <1>1, <1>2, <1>3, QuietStep DEF harvester

LEMMA SyncStep ==
    ASSUME Validation, QuietMidnight, Noticed, SyncInv, [SyncNext]_syncVars
    PROVE  SyncInv'
<1>1. BaseInv /\ BaseInv'
  BY BaseStep DEF SyncInv
<1>2. CASE Change
  <2>1. PICK i \in Ids, valid \in BOOLEAN :
          \/ Edit(i, valid) \/ BeginDigest(i) \/ EndDigest(i, valid)
          \/ \E status \in {"active", "deleted"}, tag \in Tags : Manage(i, status, tag)
    BY <1>2 DEF Change
  <2>2. CASE BeginDigest(i)
    <3>1. UNCHANGED <<now, ds, changedAt, provider, history, harvester, astray>>
      BY <2>2 DEF BeginDigest
    <3>. QED
      BY <1>1, <3>1, NothingChanges
  <2>3. CASE ~ BeginDigest(i)
    <3>1. PICK row \in Rows : ImportChange(i, row)
      BY <1>1, <2>1, <2>3, ChangeIsImport DEF BaseInv
    <3>. QED
      BY <1>1, <3>1, ImportSync
  <2>. QED
    BY <2>2, <2>3
<1>3. CASE Ask \/ AskMore \/ Count
  BY <1>1, <1>3, AskSync
<1>4. CASE Answer
  BY <1>1, <1>4, AnswerSync
<1>5. CASE Local
  BY <1>1, <1>5, LocalSync
<1>6. CASE SyncPassTime
  BY <1>1, <1>6, PassTimeSync
<1>7. CASE UNCHANGED syncVars
  BY <1>1, <1>7, NothingChanges DEF syncVars, catalogue
<1>. QED
  BY <1>2, <1>3, <1>4, <1>5, <1>6, <1>7 DEF SyncNext

(***************************************************************************)
(* SyncCheckpointSound, for every catalogue, every page size, every other  *)
(* client and every sequence of changes: after a harvest that ran within   *)
(* one day and noticed its failures, whatever was imported on the day of   *)
(* its datestamp and will not be asked for again is copied, unless the     *)
(* provider misled the harvester.                                          *)
(***************************************************************************)
THEOREM CheckpointIsSound ==
    ASSUME Validation, QuietMidnight, Noticed
    PROVE  SyncSpec => []SyncCheckpointSound
<1>1. SyncInit => SyncInv
  <2>. SUFFICES ASSUME SyncInit PROVE SyncInv
    OBVIOUS
  <2>1. hpc = "idle" /\ hsTime = Never /\ page = {} /\ \A i \in Ids : changedAt[i] = Never
    BY DEF SyncInit, HarvesterInit
  <2>. QED
    BY <2>1, BaseInit DEF SyncInv, DayInv, UsableInv, HarvestInv, SyncCheckpointSound
<1>2. SyncInv /\ [SyncNext]_syncVars => SyncInv'
  BY SyncStep
<1>3. SyncInv => SyncCheckpointSound
  BY DEF SyncInv
<1>. QED
  BY <1>1, <1>2, <1>3, PTL DEF SyncSpec
=============================================================================
