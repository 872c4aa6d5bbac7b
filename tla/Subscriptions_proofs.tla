----------------------- MODULE Subscriptions_proofs -----------------------
(***************************************************************************)
(* Proofs about the subscriptions, for any users, requests and rows.       *)
(***************************************************************************)
EXTENDS Subscriptions, TLAPS

\* Ids identify rows, and the users of rows exist.
TableSound ==
    /\ \A r \in rows : r.i_id < serial /\ r.user \in users
    /\ \A r, s \in rows : r.i_id = s.i_id => r = s

\* A request that did not find the row it is going to insert raced if it is there.
PostsSound ==
    /\ \A q \in Requests : posts[q] # NoRequest => posts[q].content.type = "email"
    /\ \A q \in Requests : \A r \in rows :
          posts[q] # NoRequest /\ Same(r, posts[q]) => posts[q] \in raced
    /\ \A q, o \in Requests :
          posts[q] # NoRequest /\ q # o /\ posts[o] = posts[q] => posts[q] \in raced

\* The ids of the walk are those of the rows it found, which are there or cancelled.
WalkSound ==
    /\ \A i \in left : i < serial /\ \E r \in present : r.i_id = i
    /\ \A r \in rows : r.i_id \in left => r \in present
    /\ \A r, s \in present : r.i_id = s.i_id => r = s
    /\ subscriptions \subseteq present /\ served \subseteq present
    /\ pc = "collect" => row \in present
    /\ Running => present \subseteq rows \cup cancelled

\* What became of the rows found, at each point of the walk.
Accounted ==
    /\ pc \in {"read", "collect"} => \A r \in present :
          r \in subscriptions \/ r.i_id \in left \/ (pc = "collect" /\ r = row)
    /\ pc = "push" => \A r \in present :
          \/ r \in subscriptions \/ r \in served
          \/ present \cap cancelled # {}
          \/ r.content.type \in refused
          \/ r.content.value \in BadTransfers

IInv ==
    /\ TypeOK /\ TableSound /\ PostsSound /\ WalkSound /\ Accounted
    /\ OnlyHinderedMiss /\ DoubledOnlyByRace

-----------------------------------------------------------------------------
\* The initial states satisfy the invariant.
LEMMA InitHolds == Init => IInv
  <1> SUFFICES ASSUME Init PROVE IInv
    OBVIOUS
  <1> USE SubscriptionsAssumption, NoneAssumption DEF Init
  <1>1. TypeOK
    BY DEF TypeOK, Files
  <1>2. TableSound /\ PostsSound
    BY DEF TableSound, PostsSound
  <1>3. WalkSound /\ Accounted
    BY DEF WalkSound, Accounted, Running
  <1>4. OnlyHinderedMiss /\ DoubledOnlyByRace
    BY DEF OnlyHinderedMiss, DoubledOnlyByRace
  <1> QED
    BY <1>1, <1>2, <1>3, <1>4 DEF IInv

\* What a web request, an administrator or a user changes in the tables.
TableStep ==
    \/ \E q \in Requests, p \in Posts : Post(q, p)
    \/ \E q \in Requests : Create(q)
    \/ \E p \in Posts : InsertSMS(p)
    \/ \E u \in Users : Cancel(u) \/ DeleteUser(u)

\* Inserting a row that is not there, or that raced, keeps the tables sound.
LEMMA InsertHolds ==
    ASSUME IInv, NEW p \in Posts, Insert(p), users' = users, raced' = raced,
           p.user \in users,
           UNCHANGED <<pc, left, row, subscriptions, served, present, cancelled, refused>>,
           (\A r \in rows : ~Same(r, p)) \/ p \in raced
    PROVE  /\ rows' \subseteq Rows /\ serial' \in Nat
           /\ TableSound' /\ WalkSound' /\ Accounted' /\ OnlyHinderedMiss' /\ DoubledOnlyByRace'
  <1> DEFINE r0 == [i_id |-> serial, user |-> p.user, content |-> p.content]
  <1> USE DEF IInv
  <1>1. /\ r0 \in Rows /\ r0.i_id = serial /\ r0.user = p.user /\ r0.content = p.content
        /\ p = [user |-> r0.user, content |-> r0.content]
    BY DEF TypeOK, Rows, Posts
  <1>2. rows' = rows \cup {r0} /\ serial' = serial + 1
    BY DEF Insert
  <1> HIDE DEF r0
  <1>3. rows' \subseteq Rows /\ serial' \in Nat /\ serial \in Nat
    BY <1>1, <1>2 DEF TypeOK
  <1>4. TableSound'
    <2>1. \A r \in rows : r.i_id \in Nat /\ r.i_id < serial
      BY DEF TableSound, TypeOK, Rows
    <2> QED
      BY <1>1, <1>2, <1>3, <2>1 DEF TableSound
  <1>5. WalkSound'
    <2>1. \A i \in left : i \in Nat /\ i < serial /\ i < serial + 1
      BY <1>3 DEF WalkSound, TypeOK
    <2>2. r0.i_id \notin left
      BY <1>1, <1>3, <2>1
    <2> QED
      BY <1>1, <1>2, <2>1, <2>2 DEF WalkSound, Running
  <1>6. Accounted' /\ OnlyHinderedMiss'
    BY DEF Accounted, OnlyHinderedMiss
  <1>7. DoubledOnlyByRace'
    <2> SUFFICES ASSUME NEW r \in rows', NEW s \in rows', r # s, Same(r, s)
                 PROVE  [user |-> r.user, content |-> r.content] \in raced
      BY DEF DoubledOnlyByRace
    <2>1. CASE r \in rows /\ s \in rows
      BY <2>1 DEF DoubledOnlyByRace
    <2>2. CASE r = r0 \/ s = r0
      <3>1. \E t \in rows : Same(t, p)
        BY <1>1, <1>2, <2>2 DEF Same
      <3>2. p \in raced
        BY <3>1
      <3> QED
        BY <1>1, <2>2, <3>2 DEF Same
    <2> QED
      BY <1>2, <2>1, <2>2
  <1> QED
    BY <1>3, <1>4, <1>5, <1>6, <1>7

\* Deleting all rows of a user keeps the tables sound.
LEMMA DeleteHolds ==
    ASSUME IInv, NEW u \in Users, Delete({r \in rows : r.user = u}),
           users' \in {users, users \ {u}}, serial' = serial, raced' = raced,
           UNCHANGED <<pc, left, row, subscriptions, served, present, refused, posts>>
    PROVE  /\ rows' \subseteq Rows /\ cancelled' \subseteq Rows
           /\ TableSound' /\ PostsSound' /\ WalkSound' /\ Accounted'
           /\ OnlyHinderedMiss' /\ DoubledOnlyByRace'
  <1> USE DEF IInv
  <1>1. rows' = {r \in rows : r.user # u}
    BY DEF Delete
  <1>2. /\ cancelled \subseteq cancelled'
        /\ ~Running => cancelled' = cancelled
        /\ Running => present \cap (rows \ rows') \subseteq cancelled'
        /\ cancelled' \subseteq cancelled \cup rows
    BY DEF Delete
  <1>3. rows' \subseteq Rows /\ cancelled' \subseteq Rows
    BY <1>1, <1>2 DEF TypeOK
  <1>4. TableSound'
    BY <1>1 DEF TableSound
  <1>5. PostsSound'
    BY <1>1 DEF PostsSound
  <1>6. WalkSound'
    BY <1>1, <1>2 DEF WalkSound, Running
  <1>7. Accounted'
    BY <1>2 DEF Accounted
  <1>8. OnlyHinderedMiss'
    BY <1>2 DEF OnlyHinderedMiss, Running
  <1>9. DoubledOnlyByRace'
    BY <1>1 DEF DoubledOnlyByRace
  <1> QED
    BY <1>3, <1>4, <1>5, <1>6, <1>7, <1>8, <1>9

\* The requests and the administrators keep the invariant.
LEMMA TableStepHolds == IInv /\ TableStep => IInv'
  <1> USE DEF IInv
  <1>1. ASSUME IInv, NEW q \in Requests, NEW p \in Posts, Post(q, p) PROVE IInv'
    <2> USE <1>1 DEF Post, activation
    <2>0. posts' = [posts EXCEPT ![q] = p] /\ raced \subseteq raced' /\ p # NoRequest
      BY NoneAssumption
    <2>1. TypeOK'
      BY <2>0 DEF TypeOK
    <2>2. \A o \in Requests : posts'[o] = IF o = q THEN p ELSE posts[o]
      BY <2>0 DEF TypeOK
    <2>3. PostsSound'
      <3>1. \A r \in rows : ~Same(r, p)
        OBVIOUS
      <3>2. \A o \in Requests : posts[o] = p => p \in raced'
        OBVIOUS
      <3> QED
        BY <2>0, <2>2, <3>1, <3>2 DEF PostsSound
    <2>4. TableSound' /\ WalkSound' /\ Accounted' /\ OnlyHinderedMiss'
      BY DEF TableSound, WalkSound, Running, Accounted, OnlyHinderedMiss
    <2>5. DoubledOnlyByRace'
      BY <2>0 DEF DoubledOnlyByRace
    <2> QED
      BY <2>1, <2>3, <2>4, <2>5
  <1>2. ASSUME IInv, NEW q \in Requests, Create(q) PROVE IInv'
    <2> USE <1>2
    <2>1. /\ posts' = [posts EXCEPT ![q] = NoRequest]
          /\ posts[q] \in Posts
          /\ UNCHANGED <<users, raced, pc, file, left, row, subscriptions, served, present,
                         cancelled, refused, files>>
      BY DEF Create, TypeOK, activation
    <2>2. \A o \in Requests : posts'[o] = IF o = q THEN NoRequest ELSE posts[o]
      BY <2>1 DEF TypeOK
    <2>3. CASE posts[q].user \in users /\ Insert(posts[q])
      <3>1. (\A r \in rows : ~Same(r, posts[q])) \/ posts[q] \in raced
        BY <2>1, NoneAssumption DEF PostsSound
      <3>2. /\ rows' \subseteq Rows /\ serial' \in Nat
            /\ TableSound' /\ WalkSound' /\ Accounted' /\ OnlyHinderedMiss' /\ DoubledOnlyByRace'
        BY <2>1, <2>3, <3>1, InsertHolds
      <3>3. TypeOK'
        BY <2>1, <3>2 DEF TypeOK
      <3>4. PostsSound'
        <4>1. \A r \in rows' : r \in rows \/ Same(r, posts[q])
          BY <2>3 DEF Insert, Same
        <4>2. ASSUME NEW o \in Requests, NEW r \in rows', posts'[o] # NoRequest, Same(r, posts'[o])
              PROVE  posts'[o] \in raced'
          <5>1. o # q /\ posts'[o] = posts[o]
            BY <2>2, <4>2
          <5>2. CASE r \in rows
            BY <2>1, <4>2, <5>1, <5>2 DEF PostsSound
          <5>3. CASE Same(r, posts[q])
            <6>1. posts[o] \in Posts
              BY <4>2, <5>1 DEF TypeOK
            <6>2. posts[o] = posts[q]
              BY <2>1, <4>2, <5>1, <5>3, <6>1 DEF Same, Posts
            <6> QED
              BY <2>1, <4>2, <5>1, <6>2 DEF PostsSound
          <5> QED
            BY <4>1, <4>2, <5>2, <5>3
        <4>3. \A o \in Requests : posts'[o] # NoRequest => posts'[o].content.type = "email"
          BY <2>2 DEF PostsSound
        <4>4. \A o, o2 \in Requests :
                posts'[o] # NoRequest /\ o # o2 /\ posts'[o2] = posts'[o] => posts'[o] \in raced'
          BY <2>1, <2>2 DEF PostsSound
        <4> QED
          BY <4>2, <4>3, <4>4 DEF PostsSound
      <3> QED
        BY <3>2, <3>3, <3>4
    <2>4. CASE UNCHANGED <<rows, serial>>
      <3>1. TypeOK'
        BY <2>1, <2>4 DEF TypeOK
      <3>2. PostsSound'
        BY <2>1, <2>2, <2>4 DEF PostsSound
      <3> QED
        BY <2>1, <2>4, <3>1, <3>2 DEF TableSound, WalkSound, Running, Accounted,
           OnlyHinderedMiss, DoubledOnlyByRace
    <2> QED
      BY <2>3, <2>4 DEF Create
  <1>3. ASSUME IInv, NEW p \in Posts, InsertSMS(p) PROVE IInv'
    <2> USE <1>3
    <2>1. /\ p.user \in users /\ p.content.type = "sms" /\ Insert(p)
          /\ \A r \in rows : ~Same(r, p)
          /\ UNCHANGED <<users, posts, raced, pc, file, left, row, subscriptions, served, present,
                         cancelled, refused, files>>
      BY DEF InsertSMS, activation
    <2>2. /\ rows' \subseteq Rows /\ serial' \in Nat
          /\ TableSound' /\ WalkSound' /\ Accounted' /\ OnlyHinderedMiss' /\ DoubledOnlyByRace'
      BY <2>1, InsertHolds
    <2>3. TypeOK'
      BY <2>1, <2>2 DEF TypeOK
    <2>4. PostsSound'
      <3>1. \A r \in rows' : r \in rows \/ r.content = p.content
        BY <2>1 DEF Insert
      <3> QED
        BY <2>1, <3>1 DEF PostsSound, Same
    <2> QED
      BY <2>2, <2>3, <2>4
  <1>4. ASSUME IInv, NEW u \in Users, Cancel(u) \/ DeleteUser(u) PROVE IInv'
    <2> USE <1>4
    <2>1. /\ Delete({r \in rows : r.user = u}) /\ users' \in {users, users \ {u}}
          /\ UNCHANGED <<serial, posts, raced, pc, file, left, row, subscriptions, served, present,
                         refused, files>>
      BY DEF Cancel, DeleteUser, activation
    <2>2. /\ rows' \subseteq Rows /\ cancelled' \subseteq Rows
          /\ TableSound' /\ PostsSound' /\ WalkSound' /\ Accounted'
          /\ OnlyHinderedMiss' /\ DoubledOnlyByRace'
      BY <2>1, DeleteHolds
    <2>3. TypeOK'
      BY <2>1, <2>2 DEF TypeOK
    <2> QED
      BY <2>2, <2>3
  <1> QED
    BY <1>1, <1>2, <1>3, <1>4 DEF TableStep

\* What an activation leaves alone.
LEMMA ActivationKeepsTables ==
    ASSUME IInv, UNCHANGED <<table, raced>>
    PROVE  TableSound' /\ PostsSound' /\ DoubledOnlyByRace'
  BY DEF IInv, table, TableSound, PostsSound, DoubledOnlyByRace

\* A step of the activation keeps the invariant.
LEMMA ActivationHolds ==
    ASSUME IInv,
           \/ \E f \in Files : Activate(f)
           \/ \E r \in rows : ReadRow(r)
           \/ \E i \in left : RowGone(i)
           \/ LeaveAll \/ Collect \/ Finish
           \/ \E t \in Types : Push(t) \/ PushFails(t)
    PROVE  IInv'
  <1> USE DEF IInv, table
  <1>0. UNCHANGED <<table, raced>>
    BY DEF Activate, ReadRow, RowGone, LeaveAll, Collect, Finish, Push, PushFails
  <1>1. TableSound' /\ PostsSound' /\ DoubledOnlyByRace'
    BY <1>0, ActivationKeepsTables
  <1>2. ASSUME NEW f \in Files, Activate(f) PROVE IInv'
    <2> USE <1>0, <1>2 DEF Activate
    <2>1. TypeOK'
      BY DEF TypeOK, Rows
    <2>2. WalkSound'
      BY DEF WalkSound, Running, TableSound
    <2>3. Accounted' /\ OnlyHinderedMiss'
      BY DEF Accounted, OnlyHinderedMiss
    <2> QED
      BY <1>1, <2>1, <2>2, <2>3
  <1>3. ASSUME NEW r \in rows, ReadRow(r) PROVE IInv'
    <2> USE <1>0, <1>3 DEF ReadRow
    <2>1. TypeOK'
      BY DEF TypeOK
    <2>2. WalkSound'
      BY DEF WalkSound, Running
    <2>3. \A s \in present : s.i_id = r.i_id => s = r
      BY DEF WalkSound
    <2>4. Accounted' /\ OnlyHinderedMiss'
      BY <2>3 DEF Accounted, OnlyHinderedMiss
    <2> QED
      BY <1>1, <2>1, <2>2, <2>4
  <1>4. ASSUME NEW i \in left, RowGone(i) PROVE IInv'
    <2> USE <1>0, <1>4 DEF RowGone
    <2>1. TypeOK'
      BY DEF TypeOK
    <2>2. WalkSound'
      BY DEF WalkSound, Running
    <2>3. PICK s \in present : s.i_id = i
      BY DEF WalkSound
    <2>4. s \in present \cap cancelled
      BY <2>3 DEF WalkSound, Running
    <2>5. Accounted' /\ OnlyHinderedMiss'
      BY <2>4 DEF Accounted, OnlyHinderedMiss
    <2> QED
      BY <1>1, <2>1, <2>2, <2>5
  <1>5. ASSUME LeaveAll PROVE IInv'
    <2> USE <1>0, <1>5 DEF LeaveAll, Return
    <2>1. TypeOK'
      BY DEF TypeOK
    <2>2. WalkSound'
      BY DEF WalkSound, Running
    <2>3. row \in present /\ (~Valid(row.content) \/ row \in present \cap cancelled)
      BY DEF WalkSound, Running, TableSound
    <2>4. Accounted' /\ OnlyHinderedMiss'
      BY <2>3 DEF Accounted, OnlyHinderedMiss, Valid
    <2> QED
      BY <1>1, <2>1, <2>2, <2>4
  <1>6. ASSUME Collect PROVE IInv'
    <2> USE <1>0, <1>6 DEF Collect
    <2>1. TypeOK'
      BY DEF TypeOK
    <2>2. WalkSound'
      BY DEF WalkSound, Running
    <2>3. Accounted' /\ OnlyHinderedMiss'
      BY DEF Accounted, OnlyHinderedMiss
    <2> QED
      BY <1>1, <2>1, <2>2, <2>3
  <1>7. ASSUME Finish PROVE IInv'
    <2> USE <1>0, <1>7 DEF Finish, Return
    <2>1. TypeOK'
      BY DEF TypeOK
    <2>2. WalkSound'
      BY DEF WalkSound, Running
    <2>3. Accounted' /\ OnlyHinderedMiss'
      BY DEF Accounted, OnlyHinderedMiss
    <2> QED
      BY <1>1, <2>1, <2>2, <2>3
  <1>8. ASSUME NEW t \in Types, Push(t) PROVE IInv'
    <2> USE <1>0, <1>8 DEF Push
    <2>0. /\ Eligible(t) \subseteq OfType(t) /\ OfType(t) \subseteq subscriptions
          /\ t = "email" => Eligible(t) = OfType(t)
          /\ t = "sms" => \A r \in OfType(t) \ Eligible(t) : r.content.value \in BadTransfers
      BY DEF Eligible, OfType, Types
    <2>1. TypeOK'
      BY <2>0 DEF TypeOK
    <2>2. WalkSound'
      BY <2>0 DEF WalkSound, Running
    <2>3. Accounted' /\ OnlyHinderedMiss'
      BY <2>0 DEF Accounted, OnlyHinderedMiss, Types
    <2> QED
      BY <1>1, <2>1, <2>2, <2>3
  <1>9. ASSUME NEW t \in Types, PushFails(t) PROVE IInv'
    <2> USE <1>0, <1>9 DEF PushFails
    <2>1. TypeOK'
      BY DEF TypeOK
    <2>2. WalkSound'
      BY DEF WalkSound, Running
    <2>3. Accounted' /\ OnlyHinderedMiss'
      BY DEF Accounted, OnlyHinderedMiss, OfType
    <2> QED
      BY <1>1, <2>1, <2>2, <2>3
  <1> QED
    BY <1>2, <1>3, <1>4, <1>5, <1>6, <1>7, <1>8, <1>9

\* Every step keeps the invariant.
LEMMA StepHolds == IInv /\ [Next]_vars => IInv'
  <1>1. ASSUME IInv, UNCHANGED vars PROVE IInv'
    BY <1>1 DEF vars, table, activation, IInv, TypeOK, TableSound, PostsSound, WalkSound,
       Accounted, Running, OnlyHinderedMiss, DoubledOnlyByRace
  <1> QED
    BY <1>1, TableStepHolds, ActivationHolds DEF Next, TableStep

\* The invariant holds in every state.
LEMMA Invariance == Spec => []IInv
  BY InitHolds, StepHolds, PTL DEF Spec

-----------------------------------------------------------------------------
\* Every reachable state of the tables and of the activation is well typed.
THEOREM Typing == Spec => []TypeOK
  <1>1. IInv => TypeOK
    BY DEF IInv
  <1> QED
    BY <1>1, Invariance, PTL

\* A subscriber misses a file only for one of the named hindrances.
THEOREM MissesAreHindered == Spec => []OnlyHinderedMiss
  <1>1. IInv => OnlyHinderedMiss
    BY DEF IInv
  <1> QED
    BY <1>1, Invariance, PTL

\* Only subscriptions found when the activation began are served.
THEOREM ServedAreSubscribers == Spec => []OnlySubscribersAreServed
  <1>1. IInv => OnlySubscribersAreServed
    BY DEF IInv, WalkSound, OnlySubscribersAreServed
  <1> QED
    BY <1>1, Invariance, PTL

\* The same subscription is there twice only after a race of two requests.
THEOREM DoublesAreRaces == Spec => []DoubledOnlyByRace
  <1>1. IInv => DoubledOnlyByRace
    BY DEF IInv
  <1> QED
    BY <1>1, Invariance, PTL
=============================================================================
