--------------------------- MODULE Basket_proofs ---------------------------
(***************************************************************************)
(* Proofs about the collection basket, for any datasets, sizes, limits and *)
(* any number of requests at a time.                                       *)
(***************************************************************************)
EXTENDS Basket, TLAPS, FiniteSetTheorems, WellFoundedInduction

\* While a request is alone, nobody logs in or out or begins another one; once its
\* row is written, that holds its basket.
AloneSound ==
    \A r \in Slots : request[r] # Idle /\ request[r].alone =>
        /\ request[r].user = user /\ Quiet(r)
        /\ request[r].at = "answer" => stored[request[r].row] = request[r].ids

\* Only users have rows, and rows that were found or created stay.
RowsSound ==
    \A r \in Slots : request[r] # Idle /\ request[r].at # "page" =>
        /\ request[r].user
        /\ request[r].at # "create" => request[r].row \in DOMAIN stored

\* Without a race one request at a time finds no row, and none is created after that.
RaceSound ==
    ~raced =>
        /\ Len(stored) <= 1
        /\ \A r \in Slots : At(r, "create") => stored = <<>>
        /\ stored = <<>> => \A r, o \in Slots :
              request[r] # Idle /\ request[o] # Idle /\ request[r].user /\ request[o].user => r = o

\* A request that begins ends the trust in what the last one showed.
TrustSound == trusted # "no" => \A r \in Slots : request[r] = Idle

IInv == TypeOK /\ AloneSound /\ RowsSound /\ RaceSound /\ TrustSound /\ BasketIsKept
-----------------------------------------------------------------------------
\* What the browser finds is made of datasets that can be in baskets.
LEMMA FoundType == TypeOK => FoundBaskets \subseteq SUBSET Items /\ FoundBaskets # {}
  <1> SUFFICES ASSUME TypeOK PROVE FoundBaskets \subseteq SUBSET Items /\ FoundBaskets # {}
    OBVIOUS
  <1>1. CASE ~(user /\ stored # <<>>)
    BY <1>1 DEF TypeOK, FoundBaskets
  <1>2. CASE user /\ stored # <<>>
    <2>1. /\ \A i \in DOMAIN stored : cookie \cup stored[i] \in SUBSET Items
          /\ 1 \in DOMAIN stored
      BY <1>2 DEF TypeOK
    <2> QED
      BY <1>2, <2>1 DEF FoundBaskets
  <1> QED
    BY <1>1, <1>2

\* Adding a dataset to a basket gives baskets.
LEMMA AddedType ==
    ASSUME NEW ids \in SUBSET Items, NEW d \in Datasets
    PROVE  Added(ids, d) \subseteq SUBSET Items
  <1> USE BasketAssumption
  <1>1. CASE Added(ids, d) = {ids}
    BY <1>1
  <1>2. CASE d \in Parents /\ Added(ids, d) = {ids \cup c : c \in Matching(ids, d) \cup {{}}}
    <2>1. Matching(ids, d) \subseteq SUBSET Items
      BY <1>2 DEF Matching, Items
    <2> QED
      BY <1>2, <2>1
  <1>3. CASE d \in Items /\ Added(ids, d) = {ids \cup {d}}
    BY <1>3
  <1>4. CASE d \in Items /\ Added(ids, d) = {IF Size(ids) + SizeOf[d] < MaxSize THEN ids \cup {d} ELSE ids}
    BY <1>4
  <1>5. /\ d \in Parents \/ d \in Leaves \/ d \in Files
        /\ Leaves \subseteq Items /\ Files \subseteq Items
        /\ Items \cap Parents = {} /\ Files \cap Leaves = {}
    BY DEF Datasets, Items
  <1> QED
    BY <1>1, <1>2, <1>3, <1>4, <1>5 DEF Added

\* Marking a request as disturbed changes nothing else of it.
LEMMA DisturbedType ==
    ASSUME NEW b \in Baskets \cup {Idle}
    PROVE  /\ Disturbed(b) \in Baskets \cup {Idle}
           /\ Disturbed(b) = Idle <=> b = Idle
           /\ b # Idle => /\ ~Disturbed(b).alone
                          /\ Disturbed(b).user = b.user /\ Disturbed(b).at = b.at
                          /\ Disturbed(b).row = b.row /\ Disturbed(b).ids = b.ids
                          /\ Disturbed(b).found = b.found
  BY IdleAssumption DEF Disturbed, Baskets

-----------------------------------------------------------------------------
\* The initial states satisfy the invariant.
LEMMA InitHolds == Init => IInv
  <1> SUFFICES ASSUME Init PROVE IInv
    OBVIOUS
  <1>1. TypeOK
    <2>1. stored \in Seq(SUBSET Items) /\ stored = <<>> /\ Len(stored) = 0
      BY DEF Init
    <2> QED
      BY <2>1 DEF Init, TypeOK
  <1>2. \A r \in Slots : request[r] = Idle
    BY DEF Init
  <1>3. AloneSound /\ RowsSound /\ RaceSound /\ TrustSound
    BY <1>2 DEF AloneSound, RowsSound, RaceSound, TrustSound, At, Init
  <1>4. BasketIsKept
    BY DEF Init, BasketIsKept
  <1> QED
    BY <1>1, <1>3, <1>4 DEF IInv

\* A request that begins keeps the invariant, whatever it makes of its basket.
LEMMA HandleHolds ==
    ASSUME IInv, NEW r \in Slots, NEW found \in SUBSET Items, NEW ids \in SUBSET Items,
           Handle(r, found, ids)
    PROVE  IInv'
  <1> DEFINE new == [user |-> user, found |-> found, ids |-> ids, alone |-> Quiet(r),
                     at |-> "page", row |-> 0]
  <1>1. /\ new \in Baskets /\ new # Idle
        /\ new.user = user /\ new.at = "page" /\ new.alone = Quiet(r)
    <2>1. Quiet(r) \in BOOLEAN
      BY DEF Quiet
    <2>2. new \in Baskets
      BY <2>1 DEF Baskets, IInv, TypeOK
    <2> QED
      BY <2>2, IdleAssumption
  <1>2. /\ request' = [o \in Slots |-> IF o = r THEN new ELSE Disturbed(request[o])]
        /\ user' = user /\ stored' = stored /\ cookie' = cookie
        /\ requests' = requests + 1 /\ trusted' = "no" /\ shown' = {}
        /\ raced' = (raced \/ Races) /\ request[r] = Idle
    BY DEF Handle
  <1> HIDE DEF new
  <1>3. ASSUME NEW o \in Slots \ {r}
        PROVE  /\ request'[o] \in Baskets \cup {Idle}
               /\ request'[o] = Idle <=> request[o] = Idle
               /\ request[o] # Idle =>
                     /\ ~request'[o].alone /\ request'[o].user = request[o].user
                     /\ request'[o].at = request[o].at /\ request'[o].row = request[o].row
    BY <1>2, DisturbedType DEF IInv, TypeOK
  <1>4. TypeOK'
    BY <1>1, <1>2, <1>3 DEF IInv, TypeOK, Races
  <1>5. AloneSound'
    <2>1. \A o \in Slots \ {r} : request'[o] # Idle => ~request'[o].alone
      BY <1>3
    <2>2. request'[r] = new
      BY <1>2
    <2>3. Quiet(r) => Quiet(r)'
      BY <1>3 DEF Quiet
    <2> QED
      BY <1>1, <1>2, <2>1, <2>2, <2>3 DEF AloneSound
  <1>6. RowsSound'
    BY <1>1, <1>2, <1>3 DEF IInv, RowsSound
  <1>7. RaceSound'
    <2> SUFFICES ASSUME ~raced' PROVE RaceSound'
      BY DEF RaceSound
    <2>1. ~raced /\ ~Races
      BY <1>2 DEF IInv, TypeOK
    <2>2. ASSUME NEW o \in Slots, At(o, "create")' PROVE stored' = <<>>
      BY <1>1, <1>2, <1>3, <2>1, <2>2 DEF IInv, RaceSound, At
    <2>3. ASSUME stored' = <<>>, NEW p \in Slots, NEW o \in Slots,
                 request'[p] # Idle, request'[o] # Idle, request'[p].user, request'[o].user
          PROVE  p = o
      BY <1>1, <1>2, <1>3, <2>1, <2>3 DEF IInv, RaceSound, Races
    <2> QED
      BY <1>2, <2>1, <2>2, <2>3 DEF IInv, RaceSound
  <1>8. TrustSound' /\ BasketIsKept'
    BY <1>2 DEF TrustSound, BasketIsKept
  <1> QED
    BY <1>4, <1>5, <1>6, <1>7, <1>8 DEF IInv

\* The search for a row keeps the invariant.
LEMMA FindHolds == ASSUME IInv, NEW r \in Slots, FindRow(r) PROVE IInv'
  <1>1. PICK at \in {"create", "write"}, row \in Nat :
           /\ request' = [request EXCEPT ![r] = [request[r] EXCEPT !.at = at, !.row = row]]
           /\ at = "create" => stored = <<>>
           /\ at = "write" => row \in DOMAIN stored
    <2>1. request[r] \in Baskets
      BY DEF FindRow, At, IInv, TypeOK
    <2>2. CASE stored = <<>> /\ request' = [request EXCEPT ![r].at = "create"]
      BY <2>1, <2>2 DEF Baskets
    <2>3. CASE \E i \in DOMAIN stored :
                  request' = [request EXCEPT ![r].at = "write", ![r].row = i]
      <3>1. PICK i \in DOMAIN stored :
                  request' = [request EXCEPT ![r].at = "write", ![r].row = i]
        BY <2>3
      <3>2. i \in Nat
        BY DEF IInv, TypeOK
      <3>3. request' = [request EXCEPT ![r] = [request[r] EXCEPT !.at = "write", !.row = i]]
        BY <2>1, <3>1 DEF IInv, TypeOK
      <3> QED
        BY <3>2, <3>3
    <2> QED
      BY <2>2, <2>3 DEF FindRow
  <1>2. /\ request[r] # Idle /\ request[r] \in Baskets /\ request[r].user
        /\ UNCHANGED <<user, stored, cookie, shown, trusted, raced, requests>>
    BY DEF FindRow, At, IInv, TypeOK
  <1>3. /\ request'[r] \in Baskets /\ request'[r] # Idle
        /\ request'[r].user /\ request'[r].alone = request[r].alone
        /\ request'[r].at = at /\ request'[r].row = row
        /\ \A o \in Slots \ {r} : request'[o] = request[o]
    BY <1>1, <1>2, IdleAssumption DEF IInv, TypeOK, Baskets
  <1>4. TypeOK'
    BY <1>1, <1>2, <1>3 DEF IInv, TypeOK
  <1>5. AloneSound'
    BY <1>1, <1>2, <1>3 DEF IInv, AloneSound, Quiet
  <1>6. RowsSound'
    BY <1>1, <1>2, <1>3 DEF IInv, RowsSound
  <1>7. RaceSound'
    BY <1>1, <1>2, <1>3 DEF IInv, RaceSound, At
  <1>8. TrustSound' /\ BasketIsKept'
    BY <1>2 DEF IInv, TrustSound, BasketIsKept
  <1> QED
    BY <1>4, <1>5, <1>6, <1>7, <1>8 DEF IInv

\* Creating a row keeps the invariant.
LEMMA CreateHolds == ASSUME IInv, NEW r \in Slots, CreateRow(r) PROVE IInv'
  <1>1. /\ request[r] # Idle /\ request[r] \in Baskets /\ request[r].at = "create"
        /\ request[r].user
        /\ stored' = Append(stored, {})
        /\ request' = [request EXCEPT ![r] = [request[r] EXCEPT !.at = "write",
                                                               !.row = Len(stored) + 1]]
        /\ UNCHANGED <<user, cookie, shown, trusted, raced, requests>>
    BY DEF CreateRow, At, IInv, TypeOK, RowsSound, Baskets
  <1>2. /\ stored' \in Seq(SUBSET Items) /\ Len(stored') = Len(stored) + 1
        /\ DOMAIN stored \subseteq DOMAIN stored' /\ Len(stored) + 1 \in DOMAIN stored'
        /\ \A i \in DOMAIN stored : stored'[i] = stored[i]
        /\ Len(stored) \in Nat /\ Len(stored) + 1 \in Nat /\ stored' # <<>>
    BY <1>1 DEF IInv, TypeOK
  <1>3. /\ request'[r] \in Baskets /\ request'[r] # Idle
        /\ request'[r].user /\ request'[r].alone = request[r].alone
        /\ request'[r].at = "write" /\ request'[r].row = Len(stored) + 1
        /\ \A o \in Slots \ {r} : request'[o] = request[o]
    BY <1>1, <1>2, IdleAssumption DEF IInv, TypeOK, Baskets
  <1>4. TypeOK'
    BY <1>1, <1>2, <1>3 DEF IInv, TypeOK
  <1>5. AloneSound'
    BY <1>1, <1>3 DEF IInv, AloneSound, Quiet
  <1>6. RowsSound'
    BY <1>1, <1>2, <1>3 DEF IInv, RowsSound
  <1>7. RaceSound'
    BY <1>1, <1>2, <1>3 DEF IInv, RaceSound, At, RowsSound
  <1>8. TrustSound' /\ BasketIsKept'
    BY <1>1 DEF IInv, TrustSound, BasketIsKept
  <1> QED
    BY <1>4, <1>5, <1>6, <1>7, <1>8 DEF IInv

\* Writing the row keeps the invariant.
LEMMA UpdateHolds == ASSUME IInv, NEW r \in Slots, UpdateRow(r) PROVE IInv'
  <1> DEFINE row == request[r].row
  <1>1. /\ request[r] # Idle /\ request[r] \in Baskets /\ request[r].at = "write"
        /\ request[r].user /\ row \in DOMAIN stored
        /\ stored' = [stored EXCEPT ![row] = request[r].ids]
        /\ request' = [request EXCEPT ![r] = [request[r] EXCEPT !.at = "answer"]]
        /\ UNCHANGED <<user, cookie, shown, trusted, raced, requests>>
    BY DEF UpdateRow, At, IInv, TypeOK, RowsSound
  <1>2. /\ stored' \in Seq(SUBSET Items) /\ Len(stored') = Len(stored)
        /\ DOMAIN stored' = DOMAIN stored /\ stored # <<>> /\ stored' # <<>>
        /\ stored'[row] = request[r].ids
    BY <1>1 DEF IInv, TypeOK, Baskets
  <1>3. /\ request'[r] \in Baskets /\ request'[r] # Idle
        /\ request'[r].user /\ request'[r].alone = request[r].alone
        /\ request'[r].at = "answer" /\ request'[r].row = row
        /\ request'[r].ids = request[r].ids
        /\ \A o \in Slots \ {r} : request'[o] = request[o]
    BY <1>1, IdleAssumption DEF IInv, TypeOK, Baskets
  <1>4. TypeOK'
    BY <1>1, <1>2, <1>3 DEF IInv, TypeOK
  <1>5. AloneSound'
    BY <1>1, <1>2, <1>3 DEF IInv, AloneSound, Quiet
  <1>6. RowsSound'
    BY <1>1, <1>2, <1>3 DEF IInv, RowsSound
  <1>7. RaceSound'
    BY <1>1, <1>2, <1>3 DEF IInv, RaceSound, At
  <1>8. TrustSound' /\ BasketIsKept'
    BY <1>1 DEF IInv, TrustSound, BasketIsKept
  <1> QED
    BY <1>4, <1>5, <1>6, <1>7, <1>8 DEF IInv

\* A request that ends keeps the invariant.
LEMMA RespondHolds == ASSUME IInv, NEW r \in Slots, Respond(r) PROVE IInv'
  <1> DEFINE b == request[r]
  <1>1. /\ b # Idle /\ b \in Baskets /\ b.at = IF b.user THEN "answer" ELSE "page"
        /\ cookie' = IF b.user THEN {} ELSE b.ids
        /\ request' = [request EXCEPT ![r] = Idle]
        /\ shown' = IF b.alone THEN b.ids ELSE {}
        /\ trusted' = IF b.alone THEN "yes" ELSE "no"
        /\ UNCHANGED <<user, stored, raced, requests>>
    BY DEF Respond, At, IInv, TypeOK
  <1>2. request'[r] = Idle /\ \A o \in Slots \ {r} : request'[o] = request[o]
    BY <1>1 DEF IInv, TypeOK
  <1>3. TypeOK'
    BY <1>1, <1>2 DEF IInv, TypeOK, Baskets
  <1>4. AloneSound'
    BY <1>1, <1>2 DEF IInv, AloneSound, Quiet
  <1>5. RowsSound' /\ RaceSound'
    BY <1>1, <1>2 DEF IInv, RowsSound, RaceSound, At
  <1>6. BasketIsKept'
    <2>1. CASE ~b.alone
      BY <1>1, <2>1 DEF BasketIsKept
    <2>2. CASE b.alone /\ ~b.user
      <3>1. ~user' /\ cookie' = shown' /\ trusted' = "yes"
        BY <1>1, <2>2 DEF IInv, AloneSound, TypeOK
      <3> QED
        BY <3>1 DEF BasketIsKept, FoundBaskets
    <2>3. CASE b.alone /\ b.user
      <3>1. /\ cookie' = {} /\ trusted' = "yes" /\ shown' = b.ids
            /\ b.row \in DOMAIN stored' /\ stored'[b.row] = b.ids
        BY <1>1, <2>3 DEF IInv, AloneSound, RowsSound
      <3>2. /\ stored' \in Seq(SUBSET Items) /\ stored' # <<>> /\ user'
            /\ ~raced' => DOMAIN stored' = {b.row}
        <4>1. stored' = stored /\ user' = user /\ raced' = raced
          BY <1>1
        <4>2. /\ stored \in Seq(SUBSET Items) /\ user /\ b.row \in 1 .. Len(stored)
              /\ Len(stored) \in Nat /\ DOMAIN stored = 1 .. Len(stored)
          BY <2>3, <3>1, <4>1, <1>1 DEF IInv, TypeOK, AloneSound
        <4>3. ~raced => Len(stored) <= 1
          BY DEF IInv, RaceSound
        <4>4. ~raced => \A i \in 1 .. Len(stored) : i = b.row
          BY <4>2, <4>3
        <4> QED
          BY <4>1, <4>2, <4>4
      <3>3. FoundBaskets' = {stored'[i] : i \in DOMAIN stored'}
        BY <3>1, <3>2 DEF FoundBaskets
      <3>4. shown' \in FoundBaskets' /\ (~raced' => FoundBaskets' = {shown'})
        BY <3>1, <3>2, <3>3
      <3> QED
        BY <3>1, <3>4 DEF BasketIsKept
    <2> QED
      BY <1>1, <2>1, <2>2, <2>3 DEF Baskets
  <1>7. TrustSound'
    BY <1>1, <1>2 DEF IInv, AloneSound, Quiet, TrustSound
  <1> QED
    BY <1>3, <1>4, <1>5, <1>6, <1>7 DEF IInv

\* Logging in and out keeps the invariant.
LEMMA SessionHolds == ASSUME IInv, Login \/ Logout PROVE IInv'
  <1>1. /\ request' = [r \in Slots |-> Disturbed(request[r])]
        /\ UNCHANGED <<stored, cookie, shown, raced, requests>>
        /\ user' \in BOOLEAN /\ trusted' \in {"no", "login"}
        /\ trusted' = "login" => user' /\ ~user /\ trusted = "yes"
    BY DEF Login, Logout
  <1>2. ASSUME NEW r \in Slots
        PROVE  /\ request'[r] \in Baskets \cup {Idle}
               /\ request'[r] = Idle <=> request[r] = Idle
               /\ request[r] # Idle =>
                     /\ ~request'[r].alone /\ request'[r].user = request[r].user
                     /\ request'[r].at = request[r].at /\ request'[r].row = request[r].row
    BY <1>1, DisturbedType DEF IInv, TypeOK
  <1>3. TypeOK'
    BY <1>1, <1>2 DEF IInv, TypeOK
  <1>4. AloneSound' /\ RowsSound' /\ RaceSound' /\ TrustSound'
    BY <1>1, <1>2 DEF IInv, AloneSound, RowsSound, RaceSound, TrustSound, At
  <1>5. BasketIsKept'
    <2>1. trusted' = "login" => cookie' = shown'
      BY <1>1 DEF IInv, BasketIsKept, FoundBaskets
    <2> QED
      BY <1>1, <2>1 DEF BasketIsKept, FoundBaskets
  <1> QED
    BY <1>3, <1>4, <1>5 DEF IInv

\* Every step keeps the invariant.
LEMMA StepHolds == IInv /\ [Next]_vars => IInv'
  <1> SUFFICES ASSUME IInv, [Next]_vars PROVE IInv'
    OBVIOUS
  <1>1. CASE UNCHANGED vars
    BY <1>1 DEF vars, IInv, TypeOK, AloneSound, RowsSound, RaceSound, At, Quiet,
                TrustSound, BasketIsKept, FoundBaskets
  <1>2. ASSUME NEW r \in Slots, View(r) \/ EmptyBasket(r) PROVE IInv'
    <2>1. PICK found \in SUBSET Items, ids \in SUBSET Items : Handle(r, found, ids)
      BY <1>2, FoundType DEF View, EmptyBasket, IInv
    <2> QED
      BY <2>1, HandleHolds
  <1>3. ASSUME NEW r \in Slots, NEW d \in Datasets, AddToBasket(r, d) \/ RemoveDataset(r, d)
        PROVE  IInv'
    <2>1. PICK found \in SUBSET Items, ids \in SUBSET Items : Handle(r, found, ids)
      BY <1>3, FoundType, AddedType DEF AddToBasket, RemoveDataset, IInv
    <2> QED
      BY <2>1, HandleHolds
  <1>4. ASSUME NEW r \in Slots, NEW list \in Lists, MergeBasket(r, list) \/ ReplaceBasket(r, list)
        PROVE  IInv'
    <2>1. PICK found \in SUBSET Items, ids \in SUBSET Items : Handle(r, found, ids)
      BY <1>4, FoundType DEF MergeBasket, ReplaceBasket, AddedList, IInv
    <2> QED
      BY <2>1, HandleHolds
  <1> QED
    BY <1>1, <1>2, <1>3, <1>4, FindHolds, CreateHolds, UpdateHolds, RespondHolds, SessionHolds
       DEF Next

\* The invariant holds in every state.
LEMMA Invariance == Spec => []IInv
  BY InitHolds, StepHolds, PTL DEF Spec

-----------------------------------------------------------------------------
\* Every reachable state of the basket is well typed.
THEOREM Typing == Spec => []TypeOK
  <1>1. IInv => TypeOK
    BY DEF IInv
  <1> QED
    BY <1>1, Invariance, PTL

\* What a request that was alone leaves is what the next one finds, unless the first
\* requests of the user overlapped.
THEOREM BasketKept == Spec => []BasketIsKept
  <1>1. IInv => BasketIsKept
    BY DEF IInv
  <1> QED
    BY <1>1, Invariance, PTL
-----------------------------------------------------------------------------
\* A set of subsets of a finite set has one that includes no other of them.
LEMMA MinimalSet ==
    ASSUME NEW S, IsFiniteSet(S), NEW B \in SUBSET SUBSET S, B # {}
    PROVE  \E s \in B : \A t \in B : t \subseteq s => t = s
  <1>1. IsWellFoundedOn(StrictSubsetOrdering(S), SUBSET S)
    BY FS_StrictSubsetOrderingWellFounded, FS_FiniteSubsetsOfFinite
  <1>2. PICK s \in B : \A t \in B : ~(<<t, s>> \in StrictSubsetOrdering(S))
    BY <1>1, WFMin
  <1>3. ASSUME NEW t \in B, t \subseteq s, t # s PROVE FALSE
    <2>1. <<t, s>> \in (SUBSET S) \X (SUBSET S)
      OBVIOUS
    <2>2. <<t, s>> \in StrictSubsetOrdering(S)
      BY <1>3, <2>1 DEF StrictSubsetOrdering
    <2> QED
      BY <1>2, <2>2
  <1> QED
    BY <1>3

(***************************************************************************)
(* A function of the subsets of a finite set that is defined by taking one *)
(* element away, chosen by c, exists, with its values where those of the    *)
(* step G are.  The folds of the module are such functions.                *)
(***************************************************************************)
Recursion(h, S, base, G, c) ==
    h = [s \in SUBSET S |-> IF s = {} THEN base ELSE G[<<s, h[s \ {c[s]}]>>]]


\* What SetRecursion asks of the choice and of the step.
Chooses(c, S) == \A s \in SUBSET S : s # {} => c[s] \in s
Keeps(G, S, V) == \A s \in SUBSET S, v \in V : s # {} => G[<<s, v>>] \in V

LEMMA SetRecursion ==
    ASSUME NEW S, IsFiniteSet(S), NEW V, NEW base \in V,
           NEW G, Keeps(G, S, V), NEW c, Chooses(c, S)
    PROVE  \E g \in [SUBSET S -> V] : Recursion(g, S, base, G, c)
  <1> DEFINE Level(n) == {s \in SUBSET S : Cardinality(s) <= n}
             Below(h, n) == \A s \in Level(n) :
                h[s] = IF s = {} THEN base ELSE G[<<s, h[s \ {c[s]}]>>]
             Bad == {s \in SUBSET S : ~ \E h \in [Level(Cardinality(s)) -> V] :
                                           Below(h, Cardinality(s))}
  <1> USE DEF Keeps, Chooses
  <1>1. \A s \in SUBSET S : IsFiniteSet(s) /\ Cardinality(s) \in Nat
    BY FS_Subset, FS_CardinalityType
  <1>2. \A s \in SUBSET S : s # {} =>
            /\ s \ {c[s]} \in SUBSET S
            /\ Cardinality(s \ {c[s]}) = Cardinality(s) - 1
    BY <1>1, FS_RemoveElement
  <1>3. Bad = {}
    <2>4. /\ Bad \in SUBSET SUBSET S
          /\ \A s \in SUBSET S : \A n : n = Cardinality(s) =>
                (s \in Bad <=> ~ \E h \in [Level(n) -> V] : Below(h, n))
      <3> HIDE DEF Level, Below
      <3> QED
        OBVIOUS
    <2> HIDE DEF Bad
    <2> SUFFICES ASSUME Bad # {} PROVE FALSE
      OBVIOUS
    <2>1. PICK s \in Bad : \A t \in Bad : t \subseteq s => t = s
      BY <2>4, MinimalSet
    <2>2. CASE s = {}
      <3> DEFINE h == [t \in Level(0) |-> base]
      <3>1. Cardinality(s) = 0
        BY <2>2, FS_EmptySet
      <3>2. \A t \in Level(0) : t = {}
        BY <1>1, FS_EmptySet
      <3>3. h \in [Level(0) -> V] /\ Below(h, 0)
        BY <3>2
      <3>4. \E f \in [Level(0) -> V] : Below(f, 0)
        BY <3>3
      <3> HIDE DEF Level, Below
      <3> QED
        BY <2>1, <2>4, <3>1, <3>4
    <2>3. CASE s # {}
      <3> DEFINE n == Cardinality(s)
                 r == s \ {c[s]}
      <3>1. r \in SUBSET S /\ n \in Nat /\ Cardinality(r) = n - 1 /\ r # s
        BY <1>1, <1>2, <2>1, <2>3, <2>4
      <3>2. r \notin Bad
        BY <2>1, <3>1
      <3>3. PICK h \in [Level(n - 1) -> V] : Below(h, n - 1)
        <4> HIDE DEF Level, Below, n, r
        <4> QED
          BY <2>4, <3>1, <3>2
      <3> DEFINE k == [t \in Level(n) |-> IF t \in Level(n - 1) THEN h[t]
                                          ELSE G[<<t, h[t \ {c[t]}]>>]]
      <3>4. \A t \in Level(n) : t # {} => t \ {c[t]} \in Level(n - 1)
        BY <1>1, <1>2, <3>1
      <3>5. {} \in Level(n - 1)
        <4>1. Cardinality({}) = 0 /\ Cardinality(s) # 0
          BY <1>1, <2>1, <2>3, <2>4, FS_EmptySet
        <4> QED
          BY <3>1, <4>1
      <3>6. k \in [Level(n) -> V]
        BY <3>4, <3>5
      <3>7. ASSUME NEW t \in Level(n)
            PROVE  k[t] = IF t = {} THEN base ELSE G[<<t, k[t \ {c[t]}]>>]
        <4>1. CASE t = {}
          BY <3>3, <3>5, <4>1
        <4>2. CASE t # {}
          <5>1. t \ {c[t]} \in Level(n - 1) /\ t \ {c[t]} \in Level(n)
            BY <3>1, <3>4, <4>2, <1>1
          <5>2. k[t \ {c[t]}] = h[t \ {c[t]}]
            BY <5>1
          <5>3. k[t] = G[<<t, h[t \ {c[t]}]>>]
            BY <3>3, <4>2
          <5> QED
            BY <4>2, <5>2, <5>3
        <4> QED
          BY <4>1, <4>2
      <3>8. \E f \in [Level(n) -> V] : Below(f, n)
        BY <3>6, <3>7
      <3> HIDE DEF Level, Below
      <3> QED
        BY <2>1, <2>4, <3>8
    <2> QED
      BY <2>2, <2>3
  <1>4. Level(Cardinality(S)) = SUBSET S
    BY FS_Subset
  <1>5. PICK g \in [SUBSET S -> V] : Below(g, Cardinality(S))
    <2>1. S \notin Bad
      BY <1>3
    <2>2. S \in SUBSET S
      OBVIOUS
    <2> HIDE DEF Level
    <2> QED
      BY <1>4, <2>1, <2>2
  <1>6. Recursion(g, S, base, G, c)
    BY <1>4, <1>5 DEF Recursion
  <1> QED
    BY <1>6

-----------------------------------------------------------------------------
\* The element a sum takes away first.
Some(s) == CHOOSE x \in s : TRUE

\* The size of no datasets is zero, and of others that of one of them and the rest.
LEMMA SizeUnfolds ==
    /\ \A s \in SUBSET Items : Size(s) \in Nat
    /\ Size({}) = 0
    /\ \A s \in SUBSET Items : s # {} =>
          Some(s) \in s /\ Size(s) = SizeOf[Some(s)] + Size(s \ {Some(s)})
  <1> DEFINE c == [s \in SUBSET Items |-> Some(s)]
             G == [sn \in (SUBSET Items) \X Nat |->
                      IF sn[1] = {} THEN 0 ELSE SizeOf[Some(sn[1])] + sn[2]]
  <1>1. IsFiniteSet(Items) /\ SizeOf \in [Items -> Nat]
    BY BasketAssumption
  <1>2. \A s \in SUBSET Items : s # {} => Some(s) \in s /\ c[s] = Some(s)
    BY DEF Some
  <1>3. ASSUME NEW s \in SUBSET Items, NEW n \in Nat, s # {}
        PROVE  G[<<s, n>>] = SizeOf[Some(s)] + n /\ G[<<s, n>>] \in Nat
    <2>1. SizeOf[Some(s)] \in Nat
      BY <1>1, <1>2, <1>3
    <2>2. <<s, n>> \in (SUBSET Items) \X Nat
      OBVIOUS
    <2>3. G[<<s, n>>] = SizeOf[Some(s)] + n
      BY <2>2, <1>3
    <2> QED
      BY <2>1, <2>3
  <1> HIDE DEF c, G
  <1>4. PICK w \in [SUBSET Items -> Nat] : Recursion(w, Items, 0, G, c)
    <2> DEFINE V == Nat
               zero == 0
    <2>1. zero \in V
      OBVIOUS
    <2>2. Chooses(c, Items)
      BY <1>2 DEF Chooses
    <2>3. Keeps(G, Items, V)
      BY <1>3 DEF Keeps
    <2>4. \E w \in [SUBSET Items -> V] : Recursion(w, Items, zero, G, c)
      <3> HIDE DEF V, zero
      <3> QED
        BY <1>1, <2>1, <2>2, <2>3, SetRecursion
    <2> QED
      BY <2>4
  <1>5. \A s \in SUBSET Items :
           w[s] = IF s = {} THEN 0 ELSE SizeOf[Some(s)] + w[s \ {Some(s)}]
    <2> SUFFICES ASSUME NEW s \in SUBSET Items
                 PROVE  w[s] = IF s = {} THEN 0 ELSE SizeOf[Some(s)] + w[s \ {Some(s)}]
      OBVIOUS
    <2>1. w[s] = IF s = {} THEN 0 ELSE G[<<s, w[s \ {c[s]}]>>]
      BY <1>4 DEF Recursion
    <2>2. CASE s # {}
      <3>1. w[s \ {Some(s)}] \in Nat
        OBVIOUS
      <3> QED
        BY <1>2, <1>3, <2>1, <2>2, <3>1
    <2> QED
      BY <2>1, <2>2
  <1>6. ASSUME NEW ids \in SUBSET Items PROVE Size(ids) = w[ids]
    <2> DEFINE Sum(h) == h = [s \in SUBSET ids |->
                  IF s = {} THEN 0 ELSE LET x == Some(s) IN SizeOf[x] + h[s \ {x}]]
               it == CHOOSE h : Sum(h)
    <2>1. Size(ids) = it[ids]
      BY DEF Size, MapThenSumSet, MapThenFoldSet, Some
    <2>2. Sum([s \in SUBSET ids |-> w[s]])
      BY <1>2, <1>5
    <2>3. Sum(it)
      <3> HIDE DEF Sum
      <3> QED
        BY <2>2
    <2>4. \A s \in SUBSET ids :
             it[s] = IF s = {} THEN 0 ELSE SizeOf[Some(s)] + it[s \ {Some(s)}]
      <3> HIDE DEF it
      <3> QED
        BY <2>3
    <2> HIDE DEF it
    <2> DEFINE Apart == {s \in SUBSET ids : it[s] # w[s]}
    <2>5. Apart \in SUBSET SUBSET ids /\ IsFiniteSet(ids)
      BY <1>1, FS_Subset
    <2>6. ASSUME Apart # {} PROVE FALSE
      <3>1. PICK s \in Apart : \A t \in Apart : t \subseteq s => t = s
        <4> HIDE DEF Apart
        <4> QED
          BY <2>5, <2>6, MinimalSet
      <3>2. s # {}
        BY <1>5, <2>4, <3>1
      <3>3. s \ {Some(s)} \in SUBSET ids /\ s \ {Some(s)} \notin Apart
        BY <1>2, <3>1, <3>2
      <3> QED
        BY <1>5, <2>4, <3>1, <3>2, <3>3
    <2> QED
      BY <2>1, <2>6
  <1> QED
    BY <1>2, <1>5, <1>6

\* Any one of the datasets can be the one.
LEMMA SizeWithout ==
    ASSUME NEW ids \in SUBSET Items, NEW d \in ids
    PROVE  Size(ids) = SizeOf[d] + Size(ids \ {d})
  <1> DEFINE Bad == {s \in SUBSET Items : \E x \in s : Size(s) # SizeOf[x] + Size(s \ {x})}
  <1>1. IsFiniteSet(Items) /\ SizeOf \in [Items -> Nat]
    BY BasketAssumption
  <1>2. ASSUME Bad # {} PROVE FALSE
    <2>0. Bad \in SUBSET SUBSET Items
      OBVIOUS
    <2>1. PICK s \in Bad : \A t \in Bad : t \subseteq s => t = s
      <3> HIDE DEF Bad
      <3> QED
        BY <1>1, <1>2, <2>0, MinimalSet
    <2>2. PICK x \in s : Size(s) # SizeOf[x] + Size(s \ {x})
      BY <2>1
    <2> DEFINE y == Some(s)
    <2>3. y \in s /\ Size(s) = SizeOf[y] + Size(s \ {y}) /\ s \in SUBSET Items
      BY <2>1, <2>2, SizeUnfolds
    <2> HIDE DEF y
    <2>4. x # y
      BY <2>2, <2>3
    <2>5. /\ Size(s \ {x}) = SizeOf[y] + Size((s \ {x}) \ {y})
          /\ Size(s \ {y}) = SizeOf[x] + Size((s \ {y}) \ {x})
      BY <2>1, <2>2, <2>3, <2>4
    <2>6. PICK n \in Nat : n = Size((s \ {x}) \ {y}) /\ n = Size((s \ {y}) \ {x})
      <3>1. (s \ {x}) \ {y} = (s \ {y}) \ {x}
        OBVIOUS
      <3>2. Size((s \ {x}) \ {y}) \in Nat
        BY <2>3, SizeUnfolds
      <3> HIDE DEF Bad
      <3> QED
        BY <3>1, <3>2
    <2>7. SizeOf[x] \in Nat /\ SizeOf[y] \in Nat
      BY <1>1, <2>2, <2>3
    <2> QED
      BY <2>2, <2>3, <2>5, <2>6, <2>7
  <1> QED
    BY <1>2

\* More datasets are not smaller, and two baskets together not larger than the two.
LEMMA SizeOfUnion ==
    ASSUME NEW s \in SUBSET Items, NEW t \in SUBSET Items
    PROVE  /\ Size(s) <= Size(s \cup t)
           /\ Size(s \cup t) <= Size(s) + Size(t)
  <1> DEFINE Holds(u) == Size(s) <= Size(s \cup u) /\ Size(s \cup u) <= Size(s) + Size(u)
             Bad == {u \in SUBSET t : ~Holds(u)}
  <1>1. IsFiniteSet(t) /\ SizeOf \in [Items -> Nat]
    BY BasketAssumption, FS_Subset
  <1>2. ASSUME Bad # {} PROVE FALSE
    <2>0. Bad \in SUBSET SUBSET t
      OBVIOUS
    <2>1. PICK u \in Bad : \A v \in Bad : v \subseteq u => v = u
      <3> HIDE DEF Bad
      <3> QED
        BY <1>1, <1>2, <2>0, MinimalSet
    <2>2. u \in SUBSET Items /\ s \cup u \in SUBSET Items /\ ~Holds(u)
      BY <2>1
    <2>3. Size(s) \in Nat /\ Size(u) \in Nat /\ Size(s \cup u) \in Nat
      BY <2>2, SizeUnfolds
    <2>4. CASE u \subseteq s
      <3>1. s \cup u = s
        BY <2>4
      <3> QED
        BY <2>2, <2>3, <3>1
    <2>5. CASE ~(u \subseteq s)
      <3>1. PICK x \in u : x \notin s
        BY <2>5
      <3>2. Holds(u \ {x})
        BY <2>1, <3>1
      <3>3. (s \cup u) \ {x} = s \cup (u \ {x})
        BY <3>1
      <3>4. Size(s \cup u) = SizeOf[x] + Size(s \cup (u \ {x}))
        BY <2>2, <3>1, <3>3, SizeWithout
      <3>5. Size(u) = SizeOf[x] + Size(u \ {x})
        BY <2>2, <3>1, SizeWithout
      <3>6. /\ Size(u \ {x}) \in Nat /\ Size(s \cup (u \ {x})) \in Nat
            /\ SizeOf[x] \in Nat
        BY <1>1, <2>2, <3>1, SizeUnfolds
      <3> QED
        BY <2>2, <2>3, <3>2, <3>4, <3>5, <3>6
    <2> QED
      BY <2>4, <2>5
  <1> QED
    BY <1>2

\* One dataset has its own size.
LEMMA SizeOfOne == \A d \in Items : Size({d}) = SizeOf[d] /\ SizeOf[d] \in Nat
  <1> SUFFICES ASSUME NEW d \in Items PROVE Size({d}) = SizeOf[d] /\ SizeOf[d] \in Nat
    OBVIOUS
  <1>1. Size({d}) = SizeOf[d] + Size({d} \ {d})
    BY SizeWithout
  <1>2. {d} \ {d} = {} /\ SizeOf[d] \in Nat
    BY BasketAssumption
  <1> QED
    BY <1>1, <1>2, SizeUnfolds

-----------------------------------------------------------------------------
(***************************************************************************)
(* Adding to a basket b what leads from the basket base keeps to the       *)
(* limits, if b came from base that way.                                   *)
(***************************************************************************)
Within(base, b) ==
    /\ b \ base # {} => Cardinality(b) <= Limit
    /\ (b \ base) \cap Files # {} /\ MaxSize > 0 => Size(b \cap Files) <= MaxSize

LEMMA AddedWithin ==
    ASSUME TypeOK, NEW base \in SUBSET Items, NEW b \in SUBSET Items, Within(base, b),
           NEW d \in Datasets, NEW new \in Added(b, d)
    PROVE  new \in SUBSET Items /\ Within(base, new)
  <1>1. new \in SUBSET Items
    BY AddedType
  <1>2. Limit \in Nat /\ MaxSize \in Nat
    BY BasketAssumption DEF TypeOK, Limit
  <1>3. ASSUME NEW s \in SUBSET Items
        PROVE  /\ IsFiniteSet(s) /\ Cardinality(s) \in Nat
               /\ Size(s) \in Nat /\ Size(s \cap Files) \in Nat
               /\ Size(s \cap Files) <= Size(s)
    <2>1. IsFiniteSet(s) /\ Cardinality(s) \in Nat
      BY BasketAssumption, FS_Subset, FS_CardinalityType
    <2>2. s \cap Files \in SUBSET Items /\ (s \cap Files) \cup s = s
      OBVIOUS
    <2>3. Size(s \cap Files) <= Size((s \cap Files) \cup s)
      BY <2>2, SizeOfUnion
    <2> QED
      BY <2>1, <2>2, <2>3, SizeUnfolds
  <1>4. /\ Cardinality(b) \in Nat /\ Size(b) \in Nat
        /\ Leaves \subseteq Items /\ Files \subseteq Items /\ Files \cap Leaves = {}
    BY <1>3, BasketAssumption DEF Items
  <1>5. CASE new = b
    BY <1>1, <1>5
  <1>6. ASSUME NEW c \in SUBSET Items, new = b \cup c,
               Cardinality(b) + Cardinality(c) <= Limit,
               c \subseteq Leaves \/ (MaxSize > 0 => Size(b) + Size(c) <= MaxSize)
        PROVE  Within(base, new)
    <2>1. Cardinality(new) <= Limit
      <3>1. Cardinality(new) = Cardinality(b) + Cardinality(c) - Cardinality(b \cap c)
        BY <1>3, <1>6, FS_Union
      <3>2. Cardinality(b \cap c) \in Nat /\ Cardinality(c) \in Nat
        BY <1>3
      <3> QED
        BY <1>2, <1>4, <1>6, <3>1, <3>2
    <2>2. CASE c \subseteq Leaves
      <3>1. new \cap Files = b \cap Files /\ (new \ base) \cap Files = (b \ base) \cap Files
        BY <1>4, <1>6, <2>2
      <3> QED
        BY <2>1, <3>1 DEF Within
    <2>3. CASE MaxSize > 0 => Size(b) + Size(c) <= MaxSize
      <3>1. /\ Size(new) <= Size(b) + Size(c) /\ Size(new \cap Files) <= Size(new)
            /\ Size(new) \in Nat /\ Size(c) \in Nat /\ Size(new \cap Files) \in Nat
        BY <1>1, <1>3, <1>6, SizeOfUnion
      <3>2. MaxSize > 0 => Size(new \cap Files) <= MaxSize
        BY <1>2, <1>4, <2>3, <3>1
      <3> QED
        BY <2>1, <3>2 DEF Within
    <2> QED
      BY <1>6, <2>2, <2>3
  <1>7. CASE Cardinality(b) < Limit /\ d \in Items /\ new = b \cup {d}
             /\ (d \in Leaves \/ Size(b) + SizeOf[d] < MaxSize)
    <2>1. Cardinality({d}) = 1 /\ {d} \in SUBSET Items
      BY <1>7, FS_Singleton
    <2>2. Size({d}) = SizeOf[d] /\ SizeOf[d] \in Nat
      BY <1>7, SizeOfOne
    <2>3. Cardinality(b) + Cardinality({d}) <= Limit
      BY <1>2, <1>4, <1>7, <2>1
    <2>4. {d} \subseteq Leaves \/ Size(b) + Size({d}) <= MaxSize
      BY <1>2, <1>4, <1>7, <2>2
    <2> QED
      BY <1>1, <1>6, <1>7, <2>1, <2>3, <2>4
  <1>8. ASSUME d \in Parents, NEW c \in Matching(b, d), c # {}, new = b \cup c
        PROVE  Within(base, new)
    <2>1. /\ c \in SUBSET Items
          /\ Cardinality(c) + Cardinality(b) <= Limit
          /\ MaxSize = 0 \/ Size(b) + Size(c) <= MaxSize
      BY <1>8, BasketAssumption DEF Matching, Items
    <2>2. Cardinality(b) + Cardinality(c) <= Limit
      <3>1. Cardinality(c) \in Nat
        BY <1>3, <2>1
      <3> QED
        BY <1>2, <1>4, <2>1, <3>1
    <2>3. MaxSize > 0 => Size(b) + Size(c) <= MaxSize
      BY <1>2, <2>1
    <2> QED
      BY <1>6, <1>8, <2>1, <2>2, <2>3
  <1>9. CASE Cardinality(b) >= Limit
    BY <1>1, <1>5, <1>9 DEF Added
  <1>10. CASE ~(Cardinality(b) >= Limit)
    <2>1. Cardinality(b) < Limit
      BY <1>2, <1>4, <1>10
    <2>2. CASE d \in Parents
      <3>1. new \in {b \cup c : c \in Matching(b, d) \cup {{}}}
        <4>1. Added(b, d) = {b \cup c : c \in Matching(b, d) \cup {{}}}
          <5>1. d \notin Leaves /\ d \notin Files
            BY <2>2, BasketAssumption DEF Items
          <5> QED
            BY <1>10, <2>2, <5>1 DEF Added
        <4> QED
          BY <4>1
      <3>2. PICK c \in Matching(b, d) \cup {{}} : new = b \cup c
        BY <3>1
      <3> QED
        BY <1>1, <1>5, <1>8, <2>2, <3>2
    <2>3. CASE d \in Leaves
      <3>1. new = b \cup {d}
        BY <1>4, <1>10, <2>3 DEF Added, Items
      <3> QED
        BY <1>1, <1>4, <1>7, <2>1, <2>3, <3>1
    <2>4. CASE d \in Files
      <3>1. new = IF Size(b) + SizeOf[d] < MaxSize THEN b \cup {d} ELSE b
        BY <1>4, <1>10, <2>4 DEF Added, Items
      <3> QED
        BY <1>1, <1>4, <1>5, <1>7, <2>1, <2>4, <3>1
    <2> QED
      BY <2>2, <2>3, <2>4 DEF Datasets, Items
  <1> QED
    BY <1>9, <1>10

\* Every dataset of a list keeps to the limits, so the baskets the list makes do.
LEMMA ListWithin ==
    ASSUME TypeOK, NEW base \in SUBSET Items, NEW list \in Lists,
           NEW new \in AddedList(base, list)
    PROVE  new \in SUBSET Items /\ Within(base, new)
  <1> DEFINE D == DOMAIN list
             V == SUBSET {b \in SUBSET Items : Within(base, b)}
             start == {base}
             c == [s \in SUBSET D |-> Max(s)]
             G == [sv \in (SUBSET D) \X V |-> UNION {Added(b, list[Max(sv[1])]) : b \in sv[2]}]
             Sweep(h) == h = [s \in SUBSET D |-> IF s = {} THEN {base}
                            ELSE UNION {Added(b, list[Max(s)]) : b \in h[s \ {Max(s)}]}]
             it == CHOOSE h : Sweep(h)
  <1>1. /\ list \in Seq(Datasets) /\ D = 1 .. Len(list) /\ Len(list) \in Nat
    BY BasketAssumption
  <1>4. IsFiniteSet(D)
    BY <1>1, FS_Interval
  <1>2. \A s \in SUBSET D : s # {} => Max(s) \in s
    <2> DEFINE Bad == {s \in SUBSET D : s # {} /\ ~ \E m \in s : \A n \in s : m >= n}
    <2>1. Bad \in SUBSET SUBSET D
      OBVIOUS
    <2>2. ASSUME Bad # {} PROVE FALSE
      <3>1. PICK s \in Bad : \A t \in Bad : t \subseteq s => t = s
        <4> HIDE DEF Bad, D
        <4> QED
          BY <1>4, <2>1, <2>2, MinimalSet
      <3>2. PICK x \in s : TRUE
        BY <3>1
      <3>3. \A n \in s : n \in Nat
        BY <1>1, <3>1
      <3>4. CASE s \ {x} = {}
        <4>1. \A n \in s : x >= n
          BY <3>3, <3>4
        <4> QED
          BY <3>1, <4>1
      <3>5. CASE s \ {x} # {}
        <4>1. PICK m \in s \ {x} : \A n \in s \ {x} : m >= n
          <5>1. s \ {x} \in SUBSET D /\ s \ {x} \notin Bad
            BY <3>1, <3>2
          <5> QED
            BY <3>5, <5>1
        <4>2. CASE m >= x
          BY <3>1, <4>1, <4>2
        <4>3. CASE ~(m >= x)
          <5>1. \A n \in s : x >= n
            BY <3>3, <4>1, <4>3
          <5> QED
            BY <3>1, <5>1
        <4> QED
          BY <4>2, <4>3
      <3> QED
        BY <3>4, <3>5
    <2> QED
      BY <2>2 DEF Max
  <1>3. ASSUME NEW s \in SUBSET D, s # {}, NEW v \in V
        PROVE  UNION {Added(b, list[Max(s)]) : b \in v} \in V
    <2>1. list[Max(s)] \in Datasets
      BY <1>1, <1>2, <1>3
    <2> QED
      BY <1>3, <2>1, AddedWithin
  <1>5. start \in V
    BY DEF Within
  <1>6. AddedList(base, list) = it[D] \cap SUBSET Items
    BY DEF AddedList, FoldLeft, MapThenFoldSet
  <1>7. Chooses(c, D)
    BY <1>2 DEF Chooses
  <1>8. Keeps(G, D, V)
    <2> SUFFICES ASSUME NEW s \in SUBSET D, NEW v \in V, s # {} PROVE G[<<s, v>>] \in V
      BY DEF Keeps
    <2>1. G[<<s, v>>] = UNION {Added(b, list[Max(s)]) : b \in v}
      <3> HIDE DEF V
      <3> QED
        OBVIOUS
    <2> QED
      BY <1>3, <2>1
  <1>9. PICK w \in [SUBSET D -> V] : Recursion(w, D, start, G, c)
    <2> HIDE DEF D, V, start, G, c
    <2> QED
      BY <1>4, <1>5, <1>7, <1>8, SetRecursion
  <1>10. \A s \in SUBSET D :
            w[s] = IF s = {} THEN {base}
                   ELSE UNION {Added(b, list[Max(s)]) : b \in w[s \ {Max(s)}]}
    <2> SUFFICES ASSUME NEW s \in SUBSET D
                 PROVE  w[s] = IF s = {} THEN {base}
                               ELSE UNION {Added(b, list[Max(s)]) : b \in w[s \ {Max(s)}]}
      OBVIOUS
    <2>1. w[s] = IF s = {} THEN start ELSE G[<<s, w[s \ {c[s]}]>>]
      BY <1>9 DEF Recursion
    <2> DEFINE v == w[s \ {Max(s)}]
    <2>2. v \in V
      <3> HIDE DEF V
      <3> QED
        BY <1>9
    <2>3. G[<<s, v>>] = UNION {Added(b, list[Max(s)]) : b \in v}
      <3> HIDE DEF V, v
      <3> QED
        BY <2>2
    <2> QED
      BY <2>1, <2>3
  <1>11. Sweep(it)
    <2>1. Sweep([s \in SUBSET D |-> w[s]])
      BY <1>2, <1>10
    <2> HIDE DEF Sweep
    <2> QED
      BY <2>1
  <1>12. \A s \in SUBSET D : it[s] = IF s = {} THEN {base}
                   ELSE UNION {Added(b, list[Max(s)]) : b \in it[s \ {Max(s)}]}
    <2> HIDE DEF it
    <2> QED
      BY <1>11
  <1> HIDE DEF it
  <1> DEFINE Bad == {s \in SUBSET D : it[s] \notin V}
  <1>13. Bad \in SUBSET SUBSET D
    OBVIOUS
  <1>14. ASSUME Bad # {} PROVE FALSE
    <2>1. PICK s \in Bad : \A t \in Bad : t \subseteq s => t = s
      <3> HIDE DEF Bad, D
      <3> QED
        BY <1>4, <1>13, <1>14, MinimalSet
    <2>2. s \in SUBSET D /\ it[s] \notin V
      BY <2>1
    <2>3. s # {}
      BY <1>5, <1>12, <2>2
    <2>4. it[s \ {Max(s)}] \in V
      <3>1. s \ {Max(s)} \in SUBSET D /\ s \ {Max(s)} # s
        BY <1>2, <2>2, <2>3
      <3> HIDE DEF V
      <3> QED
        BY <2>1, <3>1
    <2>5. it[s] = UNION {Added(b, list[Max(s)]) : b \in it[s \ {Max(s)}]}
      BY <1>12, <2>2, <2>3
    <2>6. UNION {Added(b, list[Max(s)]) : b \in it[s \ {Max(s)}]} \in V
      <3> HIDE DEF V, D
      <3> QED
        BY <1>3, <2>2, <2>3, <2>4
    <2> QED
      BY <2>2, <2>5, <2>6
  <1>15. it[D] \in V
    BY <1>14
  <1> QED
    BY <1>6, <1>15

-----------------------------------------------------------------------------
\* A request that begins and keeps to the limits, seen from the basket it found.
LEMMA HandleWithin ==
    ASSUME TypeOK, NeverOverfilled, NEW r \in Slots, NEW found \in SUBSET Items,
           NEW ids \in SUBSET Items, Within(found, ids), Handle(r, found, ids)
    PROVE  NeverOverfilled'
  <1> DEFINE new == [user |-> user, found |-> found, ids |-> ids, alone |-> Quiet(r),
                     at |-> "page", row |-> 0]
  <1>1. request' = [o \in Slots |-> IF o = r THEN new ELSE Disturbed(request[o])]
    BY DEF Handle
  <1> DEFINE Ok(b) == /\ b.ids \ b.found # {} => Cardinality(b.ids) <=
                             IF b.user THEN MaxFiles ELSE MaxFilesOfGuests
                      /\ (b.ids \ b.found) \cap Files # {} /\ MaxSize > 0
                             => Size(b.ids \cap Files) <= MaxSize
  <1>2. Ok(new)
    BY DEF Within, Limit
  <1>3. ASSUME NEW o \in Slots, Disturbed(request[o]) # Idle
        PROVE  Ok(Disturbed(request[o]))
    <2>1. request[o] # Idle /\ request[o] \in Baskets
      BY <1>3 DEF Disturbed, TypeOK
    <2>2. /\ Disturbed(request[o]).ids = request[o].ids
          /\ Disturbed(request[o]).found = request[o].found
          /\ Disturbed(request[o]).user = request[o].user
      BY <2>1, DisturbedType
    <2> QED
      BY <2>1, <2>2 DEF NeverOverfilled
  <1>4. \A o \in Slots : request'[o] # Idle => Ok(request'[o])
    <2> HIDE DEF Ok, new
    <2> QED
      BY <1>1, <1>2, <1>3
  <1> QED
    BY <1>4 DEF NeverOverfilled

\* Every step keeps baskets within the limits.
LEMMA StepWithin == TypeOK /\ NeverOverfilled /\ [Next]_vars => NeverOverfilled'
  <1> SUFFICES ASSUME TypeOK, NeverOverfilled, [Next]_vars PROVE NeverOverfilled'
    OBVIOUS
  <1>1. CASE UNCHANGED vars
    BY <1>1 DEF vars, NeverOverfilled
  <1>2. \A found \in FoundBaskets : found \in SUBSET Items
    BY FoundType
  <1>3. \A found, ids : ids \subseteq found => Within(found, ids)
    BY DEF Within
  <1>4. ASSUME NEW r \in Slots, View(r) \/ EmptyBasket(r) PROVE NeverOverfilled'
    BY <1>2, <1>3, <1>4, HandleWithin DEF View, EmptyBasket
  <1>5. ASSUME NEW r \in Slots, NEW d \in Datasets, AddToBasket(r, d)
        PROVE  NeverOverfilled'
    <2>1. PICK found \in FoundBaskets : \E ids \in Added(found, d) : Handle(r, found, ids)
      BY <1>5 DEF AddToBasket
    <2>2. PICK ids \in Added(found, d) : Handle(r, found, ids)
      BY <2>1
    <2>3. ids \in SUBSET Items /\ Within(found, ids)
      BY <1>2, <1>3, AddedWithin
    <2> QED
      BY <1>2, <2>2, <2>3, HandleWithin
  <1>6. ASSUME NEW r \in Slots, NEW d \in Datasets, RemoveDataset(r, d)
        PROVE  NeverOverfilled'
    <2>1. PICK found \in FoundBaskets : Handle(r, found, found \ {d})
      BY <1>6 DEF RemoveDataset
    <2>2. found \ {d} \in SUBSET Items /\ Within(found, found \ {d})
      BY <1>2, <1>3
    <2> QED
      BY <1>2, <2>1, <2>2, HandleWithin
  <1>7. ASSUME NEW r \in Slots, NEW list \in Lists, MergeBasket(r, list)
        PROVE  NeverOverfilled'
    <2>1. PICK found \in FoundBaskets : \E ids \in AddedList(found, list) : Handle(r, found, ids)
      BY <1>7 DEF MergeBasket
    <2>2. PICK ids \in AddedList(found, list) : Handle(r, found, ids)
      BY <2>1
    <2> QED
      BY <1>2, <2>2, ListWithin, HandleWithin
  <1>8. ASSUME NEW r \in Slots, NEW list \in Lists, ReplaceBasket(r, list)
        PROVE  NeverOverfilled'
    <2>1. PICK found \in FoundBaskets : \E ids \in AddedList({}, list) : Handle(r, found, ids)
      BY <1>8 DEF ReplaceBasket
    <2>2. PICK ids \in AddedList({}, list) : Handle(r, found, ids)
      BY <2>1
    <2>3. ids \in SUBSET Items /\ Within({}, ids)
      BY ListWithin
    <2>4. Within(found, ids)
      BY <2>3 DEF Within
    <2> QED
      BY <1>2, <2>2, <2>3, <2>4, HandleWithin
  <1>9. ASSUME NEW r \in Slots, FindRow(r) \/ CreateRow(r) \/ UpdateRow(r) \/ Respond(r)
        PROVE  NeverOverfilled'
    <2>1. ASSUME NEW o \in Slots, request'[o] # Idle
          PROVE  /\ request[o] # Idle
                 /\ request'[o].ids = request[o].ids
                 /\ request'[o].found = request[o].found
                 /\ request'[o].user = request[o].user
      <3>1. o = r => request[o] # Idle /\ request[o] \in Baskets
        BY <1>9, <2>1 DEF FindRow, CreateRow, UpdateRow, Respond, At, TypeOK
      <3>2. CASE o # r
        BY <1>9, <2>1, <3>2 DEF FindRow, CreateRow, UpdateRow, Respond, TypeOK
      <3>3. CASE o = r
        BY <1>9, <2>1, <3>1, <3>3 DEF FindRow, CreateRow, UpdateRow, Respond, TypeOK, Baskets
      <3> QED
        BY <3>2, <3>3
    <2> QED
      BY <2>1 DEF NeverOverfilled
  <1>10. CASE Login \/ Logout
    <2>1. request' = [r \in Slots |-> Disturbed(request[r])]
      BY <1>10 DEF Login, Logout
    <2>2. ASSUME NEW o \in Slots, request'[o] # Idle
          PROVE  /\ request[o] # Idle
                 /\ request'[o].ids = request[o].ids
                 /\ request'[o].found = request[o].found
                 /\ request'[o].user = request[o].user
      BY <2>1, <2>2, DisturbedType DEF TypeOK
    <2> QED
      BY <2>2 DEF NeverOverfilled
  <1> QED
    BY <1>1, <1>4, <1>5, <1>6, <1>7, <1>8, <1>9, <1>10 DEF Next

\* No request overfills the basket, in any order of adding, for any sizes and limits.
THEOREM BasketLimits == Spec => []NeverOverfilled
  <1>1. Init => NeverOverfilled
    BY DEF Init, NeverOverfilled
  <1> QED
    BY <1>1, StepWithin, Typing, PTL DEF Spec
=============================================================================
