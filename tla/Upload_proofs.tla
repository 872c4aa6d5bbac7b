--------------------------- MODULE Upload_proofs ---------------------------
(***************************************************************************)
(* Proofs about uploads, for any names, contents, parts, datasets, workers *)
(* and faults.                                                             *)
(***************************************************************************)
EXTENDS Upload, TLAPS

\* What is in an upload area is the last content put there.
AreaSound ==
    /\ \A u \in Names : area[u] # None => area[u].of = u /\ area[u] = latest[u]
    /\ \A u \in WebNames : temp[u] # None => temp[u].of = u

\* The stages of process_files at which all uploads of the run are copied.
Copying == {"check", "describe", "move", "report", "unlink"}

\* The working directory of a run holds what was copied for the run.
RunSound(w) ==
    LET r == run[w]
    IN  /\ pc[w] = "idle" => r = NoRun
        /\ r.left \subseteq r.files
        /\ \A u, v \in r.files : DatasetOf[u] = DatasetOf[v]
        /\ \A u \in r.files : u \in WebNames => r.files = {u}
        /\ \A u \in Names : r.got[u] # None => r.got[u].of = u
        /\ \A p \in Parts : r.flat[p] # None =>
              r.flat[p].of \in r.files /\ r.got[r.flat[p].of] = r.flat[p]
        /\ \A p \in r.todo : r.flat[p] # None
        /\ pc[w] = "unpack" => \A u \in r.left : r.got[u] = None
        /\ pc[w] = "unpack" => \A u \in r.files :
              u \in r.left \/ ~HasOwner(u) \/ r.got[u] # None
        /\ pc[w] = "unpack" => \A p \in Parts : r.origin[p] # None => r.flat[p] # None
        /\ pc[w] \in Copying => \A u \in r.files : r.got[u] # None

\* Unless hindered, it is the latest, and each part is noted under its own upload.
Fresh(w) ==
    LET r == run[w]
    IN  /\ \A u \in r.files : r.got[u] # None /\ u \notin hindered => r.got[u] = latest[u]
        /\ \A p \in Parts : r.flat[p] # None /\ r.flat[p].of \notin hindered =>
              r.origin[p] \in {None, r.flat[p].of}

\* A part of content c is published, or on its way there.
OnItsWay(w, p, c) ==
    \/ <<p, c>> \in published
    \/ /\ run[w].flat[p] = c
       /\ pc[w] \in {"unpack", "check", "describe"} \/ (pc[w] = "move" /\ p \in run[w].todo)

\* And each upload that was copied is put away, or the parts that are taken of it are
\* on their way.
Kept(w) ==
    LET r == run[w]
    IN  pc[w] # "end" =>
            \A u \in r.files : r.got[u] # None /\ u \notin hindered =>
                \/ [name |-> u, content |-> r.got[u]] \in problem
                \/ \A p \in Taken(r.got[u]) : OnItsWay(w, p, r.got[u])

\* The errors noted for an upload of the form are its own.
Blame(w) ==
    LET r == run[w]
    IN  \A u \in r.files \cap WebNames :
            r.errs \/ r.out => r.got[u] # None /\ ~Sound(r.got[u])

Sane(w) == RunSound(w) /\ Fresh(w) /\ Kept(w) /\ Blame(w)

IInv ==
    /\ TypeOK /\ AreaSound
    /\ \A w \in Processes : Sane(w)
    /\ NothingVanishes /\ NoFalseAlarm
-----------------------------------------------------------------------------
\* The initial states satisfy the invariant.
LEMMA InitHolds == Init => IInv
  <1> SUFFICES ASSUME Init PROVE IInv
    OBVIOUS
  <1> USE UploadAssumption DEF Init
  <1>0. NoRun \in Runs
    BY DEF NoRun, Runs
  <1>1. TypeOK
    BY <1>0 DEF TypeOK, Labels
  <1>2. AreaSound
    BY DEF AreaSound, Names
  <1>3. \A w \in Processes : Sane(w)
    BY DEF Sane, RunSound, Fresh, Kept, Blame, NoRun, Copying
  <1>4. NothingVanishes /\ NoFalseAlarm
    BY DEF NothingVanishes, NoFalseAlarm, Names
  <1> QED
    BY <1>1, <1>2, <1>3, <1>4 DEF IInv

\* A content belongs to a name and has parts; there is none without.
LEMMA ContentType ==
    ASSUME NEW c \in Contents
    PROVE  /\ c # None /\ c.of \in Names /\ c.parts \subseteq Parts
           /\ c.bad \subseteq c.parts /\ c.flawed \subseteq c.parts
           /\ Taken(c) \subseteq c.parts /\ Taken(c) \cap Misnamed = {}
  BY UploadAssumption DEF ContentRecords, Taken

\* The types of the fields of a run.
LEMMA RunType ==
    ASSUME TypeOK, NEW w \in Processes
    PROVE  /\ run[w] \in Runs
           /\ run[w].files \subseteq Names /\ run[w].left \subseteq Names
           /\ run[w].job \in Nat /\ run[w].todo \subseteq Parts
           /\ \A p \in Parts : run[w].flat[p] \in Contents \cup {None}
           /\ \A p \in Parts : run[w].origin[p] \in Names \cup {None}
           /\ \A u \in Names : run[w].got[u] \in Contents \cup {None}
           /\ pc[w] \in Labels
           /\ NoRun \in Runs
  <1>1. run[w] \in Runs /\ pc[w] \in Labels
    BY DEF TypeOK
  <1>2. NoRun \in Runs
    BY DEF NoRun, Runs
  <1> QED
    BY <1>1, <1>2 DEF Runs
-----------------------------------------------------------------------------
(***************************************************************************)
(* What a step of a process may do to the uploads.                         *)
(***************************************************************************)

\* No upload changes but by being put away, and none that is put away is lost.
PutAway ==
    /\ area' \in [Names -> Contents \cup {None}]
    /\ problem' \subseteq [name : Names, content : Contents]
    /\ \A u \in Names : \/ area'[u] = area[u]
                        \/ area'[u] = None /\ [name |-> u, content |-> area[u]] \in problem'
    /\ \A u \in Names, c \in Contents :
          c = latest[u] /\ [name |-> u, content |-> c] \in problem
             => [name |-> u, content |-> c] \in problem'

\* Nothing is put away.
LEMMA LeaveHolds ==
    ASSUME IInv, UNCHANGED <<area, problem>>
    PROVE  PutAway
  BY DEF PutAway, IInv, TypeOK

\* move_to_problemdir overwrites an older content of the same upload at most.
LEMMA MoveHolds ==
    ASSUME IInv, NEW u \in Names, MoveToProblemdir(u)
    PROVE  /\ PutAway
           /\ area[u] # None => [name |-> u, content |-> area[u]] \in problem'
  <1>1. CASE area[u] = None /\ UNCHANGED <<area, problem>>
    BY <1>1, LeaveHolds
  <1>2. CASE area[u] # None /\ area' = [area EXCEPT ![u] = None]
    <2>1. area[u] \in Contents /\ area[u] = latest[u]
      BY <1>2 DEF IInv, TypeOK, AreaSound
    <2>2. PICK old \in {{}} \cup {{f} : f \in {g \in problem : g.name = u}} :
             problem' = (problem \ old) \cup {[name |-> u, content |-> area[u]]}
      BY <1>2 DEF MoveToProblemdir
    <2>3. \A f \in old : f.name = u
      BY <2>2
    <2>4. problem' \subseteq [name : Names, content : Contents]
      BY <2>1, <2>2 DEF IInv, TypeOK
    <2>5. area' \in [Names -> Contents \cup {None}]
      BY <1>2 DEF IInv, TypeOK
    <2>6. \A v \in Names : \/ area'[v] = area[v]
                           \/ area'[v] = None /\ [name |-> v, content |-> area[v]] \in problem'
      BY <1>2, <2>2 DEF IInv, TypeOK
    <2>7. ASSUME NEW v \in Names, NEW c \in Contents, c = latest[v],
                 [name |-> v, content |-> c] \in problem
          PROVE  [name |-> v, content |-> c] \in problem'
      <3>1. CASE v = u
        BY <2>1, <2>2, <2>7, <3>1
      <3>2. CASE v # u
        <4>1. [name |-> v, content |-> c] \notin old
          BY <2>3, <3>2
        <4> QED
          BY <2>2, <2>7, <4>1
      <3> QED
        BY <3>1, <3>2
    <2> QED
      BY <2>2, <2>4, <2>5, <2>6, <2>7 DEF PutAway
  <1> QED
    BY <1>1, <1>2 DEF MoveToProblemdir

\* What is put away has not vanished.
LEMMA VanishHolds ==
    ASSUME IInv, PutAway, latest' = latest,
           hindered \subseteq hindered', published \subseteq published'
    PROVE  NothingVanishes'
  <1>1. SUFFICES ASSUME NEW u \in Names, latest[u] # None, u \notin hindered
                 PROVE  \/ area'[u] = latest[u]
                        \/ [name |-> u, content |-> latest[u]] \in problem'
                        \/ \A p \in Taken(latest[u]) : <<p, latest[u]>> \in published'
    BY DEF NothingVanishes
  <1>2. latest[u] \in Contents
    BY <1>1 DEF IInv, TypeOK
  <1>3. CASE area[u] = latest[u]
    BY <1>1, <1>3 DEF PutAway
  <1>4. CASE [name |-> u, content |-> latest[u]] \in problem
    BY <1>2, <1>4 DEF PutAway
  <1>5. CASE \A p \in Taken(latest[u]) : <<p, latest[u]>> \in published
    BY <1>5
  <1> QED
    BY <1>1, <1>3, <1>4, <1>5 DEF IInv, NothingVanishes

\* What is put away or on its way stays so, when the step leaves the parts of other
\* uploads where they are.
LEMMA KeepHolds ==
    ASSUME IInv, NEW w \in Processes,
           run'[w].files = run[w].files, run'[w].got = run[w].got,
           pc[w] # "end", UNCHANGED latest,
           hindered \subseteq hindered',
           \A n \in Names, c \in Contents :
              c = latest[n] /\ [name |-> n, content |-> c] \in problem
                 => [name |-> n, content |-> c] \in problem',
           \A c \in Contents : c.of \in run[w].files /\ c.of \notin hindered'
                               /\ c = run[w].got[c.of] /\ pc'[w] # "end" =>
               \/ [name |-> c.of, content |-> c] \in problem'
               \/ \A p \in Taken(c) : OnItsWay(w, p, c)
                     => \/ <<p, c>> \in published'
                        \/ /\ run'[w].flat[p] = c
                           /\ \/ pc'[w] \in {"unpack", "check", "describe"}
                              \/ pc'[w] = "move" /\ p \in run'[w].todo
               \/ \A p \in Taken(c) : <<p, c>> \in published'
    PROVE  Kept(w)'
  <1>1. Kept(w) /\ Fresh(w) /\ RunSound(w) /\ run[w].files \subseteq Names
    BY RunType DEF IInv, Sane
  <1>2. SUFFICES ASSUME NEW v \in run[w].files, pc'[w] # "end",
                        run[w].got[v] # None, v \notin hindered'
                 PROVE  \/ [name |-> v, content |-> run[w].got[v]] \in problem'
                        \/ \A p \in Taken(run[w].got[v]) :
                              OnItsWay(w, p, run[w].got[v])'
    BY DEF Kept
  <1>3. PICK c \in Contents : c = run[w].got[v]
    BY <1>1, <1>2, RunType DEF IInv
  <1>4. c.of = v
    BY <1>1, <1>2, <1>3 DEF RunSound
  <1>5. c = latest[v]
    BY <1>1, <1>2, <1>3 DEF Fresh
  <1>6. \/ [name |-> v, content |-> c] \in problem
        \/ \A p \in Taken(c) : OnItsWay(w, p, c)
    BY <1>1, <1>2, <1>3 DEF Kept
  <1>7. CASE [name |-> v, content |-> c] \in problem
    BY <1>1, <1>3, <1>5, <1>7
  <1>8. CASE \A p \in Taken(c) : OnItsWay(w, p, c)
    BY <1>2, <1>3, <1>4, <1>8 DEF OnItsWay
  <1> QED
    BY <1>6, <1>7, <1>8

\* A step of process w leaves the others as they are.
LEMMA StepHolds ==
    ASSUME IInv, NEW w \in Processes, TypeOK',
           \A o \in Processes \ {w} : pc'[o] = pc[o] /\ run'[o] = run[o],
           \A u \in Names : area'[u] \in {area[u], None},
           UNCHANGED <<temp, latest>>,
           hindered \subseteq hindered', published \subseteq published',
           \A u \in Names, c \in Contents :
              c = latest[u] /\ [name |-> u, content |-> c] \in problem
                 => [name |-> u, content |-> c] \in problem',
           Sane(w)', NothingVanishes', NoFalseAlarm'
    PROVE  IInv'
  <1>1. AreaSound'
    BY DEF IInv, AreaSound
  <1>2. ASSUME NEW o \in Processes \ {w}
        PROVE  Sane(o)'
    <2>1. pc'[o] = pc[o] /\ run'[o] = run[o] /\ Sane(o)
      BY <1>2 DEF IInv
    <2>2. RunSound(o)'
      BY <2>1 DEF Sane, RunSound, HasOwner
    <2>3. Fresh(o)' /\ Blame(o)'
      BY <2>1 DEF Sane, Fresh, Blame, Sound
    <2>4. Kept(o)'
      <3>1. SUFFICES ASSUME NEW u \in run[o].files, pc[o] # "end",
                            run[o].got[u] # None, u \notin hindered
                     PROVE  \/ [name |-> u, content |-> run[o].got[u]] \in problem'
                            \/ \A p \in Taken(run[o].got[u]) : OnItsWay(o, p, run[o].got[u])'
        BY <2>1 DEF Kept
      <3>2. u \in Names /\ run[o].got[u] \in Contents /\ run[o].got[u] = latest[u]
        BY <2>1, <3>1, RunType DEF IInv, Sane, Fresh
      <3>3. CASE [name |-> u, content |-> run[o].got[u]] \in problem
        BY <3>2, <3>3
      <3>4. CASE \A p \in Taken(run[o].got[u]) : OnItsWay(o, p, run[o].got[u])
        BY <2>1, <3>4 DEF OnItsWay
      <3> QED
        BY <2>1, <3>1, <3>3, <3>4 DEF Sane, Kept
    <2> QED
      BY <2>2, <2>3, <2>4 DEF Sane
  <1> QED
    BY <1>1, <1>2 DEF IInv
-----------------------------------------------------------------------------
(***************************************************************************)
(* The users.                                                              *)
(***************************************************************************)

\* A new content of u, which hinders whoever is at work on the one before.
LEMMA PutHolds ==
    ASSUME IInv, NEW u \in Names, NEW c \in Contents, c.of = u, PutFile(u, c),
           temp' \in [WebNames -> Contents \cup {None}],
           \A n \in WebNames : temp'[n] \in {temp[n], None},
           jobs' \subseteq Jobs, faultsLeft' \in Nat,
           UNCHANGED <<rows, problem, repository, metadata, pc, run, published, torn, contested>>
    PROVE  IInv'
  <1>1. /\ area' = [area EXCEPT ![u] = c] /\ latest' = [latest EXCEPT ![u] = c]
        /\ hindered' = hindered \cup (IF AtWork(u) = {} THEN {} ELSE {u})
        /\ puts' = puts + 1
    BY DEF PutFile
  <1>2. c # None
    BY ContentType
  <1>3. TypeOK'
    BY <1>1 DEF IInv, TypeOK
  <1>4. AreaSound'
    BY <1>1 DEF IInv, TypeOK, AreaSound
  <1>5. \A n \in Names \ {u} : area'[n] = area[n] /\ latest'[n] = latest[n]
    BY <1>1 DEF IInv, TypeOK
  <1>6. ASSUME NEW w \in Processes
        PROVE  Sane(w)'
    <2>1. Sane(w) /\ run[w].files \subseteq Names
      BY RunType DEF IInv
    <2>2. pc[w] = "idle" => run[w].files = {}
      BY <2>1 DEF Sane, RunSound, NoRun
    <2>3. u \in run[w].files => u \in hindered'
      BY <1>1, <2>2 DEF AtWork
    <2>4. RunSound(w)'
      BY <2>1 DEF Sane, RunSound, HasOwner
    <2>5. Fresh(w)'
      BY <1>1, <1>5, <2>1, <2>3 DEF Sane, Fresh
    <2>6. Kept(w)' /\ Blame(w)'
      BY <1>1, <2>1 DEF Sane, Kept, Blame, OnItsWay, Sound
    <2> QED
      BY <2>4, <2>5, <2>6 DEF Sane
  <1>7. NothingVanishes'
    <2>1. SUFFICES ASSUME NEW n \in Names, latest'[n] # None, n \notin hindered'
                   PROVE  \/ area'[n] = latest'[n]
                          \/ [name |-> n, content |-> latest'[n]] \in problem
                          \/ \A p \in Taken(latest'[n]) : <<p, latest'[n]>> \in published
      BY DEF NothingVanishes
    <2>2. CASE n = u
      BY <1>1, <2>2 DEF IInv, TypeOK
    <2>3. CASE n # u
      BY <1>1, <1>5, <2>1, <2>3 DEF IInv, NothingVanishes
    <2> QED
      BY <2>2, <2>3
  <1>8. NoFalseAlarm'
    BY DEF IInv, NoFalseAlarm, Sound
  <1> QED
    BY <1>3, <1>4, <1>6, <1>7, <1>8 DEF IInv

\* A job that is inserted is one; a failure is a fault.
LEMMA InsertType ==
    ASSUME TypeOK, NEW u \in Names, puts' = puts + 1, InsertJob(u)
    PROVE  jobs' \subseteq Jobs /\ faultsLeft' \in Nat
  BY DEF TypeOK, InsertJob, Fault, Jobs

\* A content waits for the user, or is given up.
LEMMA WaitHolds ==
    ASSUME IInv, NEW u \in WebNames, NEW c \in Contents \cup {None},
           c # None => c.of = u, temp' = [temp EXCEPT ![u] = c],
           UNCHANGED <<area, rows, jobs, problem, repository, metadata, pc, run, history, bounds>>
    PROVE  IInv'
  <1> USE DEF history, bounds
  <1>1. TypeOK'
    BY DEF IInv, TypeOK
  <1>2. AreaSound'
    BY DEF IInv, TypeOK, AreaSound
  <1>3. \A w \in Processes : Sane(w)'
    BY DEF IInv, Sane, RunSound, Fresh, Kept, Blame, OnItsWay, HasOwner, Sound
  <1>4. NothingVanishes' /\ NoFalseAlarm'
    BY DEF IInv, NothingVanishes, NoFalseAlarm, Sound
  <1> QED
    BY <1>1, <1>2, <1>3, <1>4 DEF IInv

\* Whatever users do keeps the invariant.
LEMMA UserHolds ==
    ASSUME IInv, User
    PROVE  IInv'
  <1>1. ASSUME NEW c \in Contents, c.of \in WebNames, UploadNew(c.of, c)
        PROVE  IInv'
    <2>1. jobs' \subseteq Jobs /\ faultsLeft' \in Nat
      BY <1>1, InsertType DEF UploadNew, PutFile, IInv, Names
    <2> QED
      BY <1>1, <2>1, PutHolds DEF UploadNew, IInv, TypeOK, Names
  <1>2. ASSUME NEW c \in Contents, c.of \in WebNames, UploadAgain(c.of, c)
        PROVE  IInv'
    BY <1>2, WaitHolds DEF UploadAgain
  <1>3. ASSUME NEW c \in Contents, c.of \in FtpNames, Deposit(c.of, c)
        PROVE  IInv'
    BY <1>3, PutHolds DEF Deposit, IInv, TypeOK, Names
  <1>4. ASSUME NEW u \in WebNames, Overwrite(u)
        PROVE  IInv'
    <2>1. /\ temp[u] \in Contents /\ temp[u].of = u
          /\ temp' \in [WebNames -> Contents \cup {None}]
          /\ \A n \in WebNames : temp'[n] \in {temp[n], None}
      BY <1>4 DEF Overwrite, IInv, TypeOK, AreaSound
    <2>2. jobs' \subseteq Jobs /\ faultsLeft' \in Nat
      BY <1>4, InsertType DEF Overwrite, PutFile, IInv, Names
    <2>3. PICK c \in Contents : c = temp[u]
      BY <2>1
    <2>4. PutFile(u, c) /\ c.of = u
      BY <1>4, <2>1, <2>3 DEF Overwrite
    <2> QED
      BY <1>4, <2>1, <2>2, <2>4, PutHolds DEF Overwrite, Names
  <1>5. ASSUME NEW u \in WebNames, CancelUpload(u)
        PROVE  IInv'
    BY <1>5, WaitHolds DEF CancelUpload
  <1> QED
    BY <1>1, <1>2, <1>3, <1>4, <1>5 DEF User
-----------------------------------------------------------------------------
(***************************************************************************)
(* The processes: finding work.                                            *)
(***************************************************************************)

\* The run of a helper that begins.
NewRun(files, job) == [NoRun EXCEPT !.files = files, !.left = files, !.job = job]

\* A helper begins with an empty working directory.
LEMMA BeginHolds ==
    ASSUME IInv, NEW w \in Processes, pc[w] = "idle", NEW files \in SUBSET Names,
           NEW job \in Nat, Begin(w, files, job), faultsLeft' \in Nat,
           \A u, v \in files : DatasetOf[u] = DatasetOf[v],
           \A u \in files : u \in WebNames => files = {u}
    PROVE  IInv'
  <1>1. run[w] = NoRun /\ NoRun \in Runs
    BY RunType DEF IInv, Sane, RunSound
  <1>2. run' = [run EXCEPT ![w] = NewRun(files, job)]
    BY <1>1 DEF IInv, TypeOK, NewRun, Begin
  <1>3. /\ run'[w] = NewRun(files, job)
        /\ pc'[w] = "unpack"
        /\ \A o \in Processes \ {w} : pc'[o] = pc[o] /\ run'[o] = run[o]
    BY <1>2 DEF IInv, TypeOK, Begin
  <1>5. /\ run'[w] \in Runs
        /\ run'[w].files = files /\ run'[w].left = files /\ run'[w].todo = {}
        /\ run'[w].errs = FALSE /\ run'[w].out = FALSE
        /\ \A p \in Parts : run'[w].flat[p] = None /\ run'[w].origin[p] = None
        /\ \A u \in Names : run'[w].got[u] = None
    <2>1. /\ NoRun.todo = {} /\ NoRun.errs = FALSE /\ NoRun.out = FALSE
          /\ \A p \in Parts : NoRun.flat[p] = None /\ NoRun.origin[p] = None
          /\ \A u \in Names : NoRun.got[u] = None
      BY DEF NoRun
    <2>2. PICK r : r = NewRun(files, job)
      OBVIOUS
    <2>3. /\ r \in Runs /\ r.files = files /\ r.left = files
          /\ r.todo = NoRun.todo /\ r.errs = NoRun.errs /\ r.out = NoRun.out
          /\ r.flat = NoRun.flat /\ r.origin = NoRun.origin /\ r.got = NoRun.got
      BY <1>1, <2>2 DEF Runs, NewRun
    <2>4. run'[w] = r
      BY <1>3, <2>2
    <2> QED
      BY <2>1, <2>3, <2>4
  <1>6. TypeOK'
    BY <1>2, <1>3, <1>5 DEF IInv, TypeOK, Labels, Begin, history
  <1>7. RunSound(w)'
    BY <1>3, <1>5 DEF RunSound, Copying
  <1>8. Fresh(w)' /\ Kept(w)' /\ Blame(w)'
    BY <1>5 DEF Fresh, Kept, Blame, Begin, history
  <1>9. NothingVanishes' /\ NoFalseAlarm'
    BY DEF IInv, NothingVanishes, NoFalseAlarm, Sound, Begin, history
  <1> QED
    BY <1>3, <1>6, <1>7, <1>8, <1>9, StepHolds DEF Sane, IInv, TypeOK, Begin, history

\* A process finds work.
LEMMA FindWorkHolds ==
    ASSUME IInv, NEW w \in Processes, FindWork(w)
    PROVE  IInv'
  <1>1. ASSUME NEW j \in jobs, TakeJob(w, j)
        PROVE  IInv'
    <2>1. j.name \in Names /\ j.no \in Nat
      BY DEF IInv, TypeOK, Jobs
    <2>2. pc[w] = "idle" /\ Begin(w, {j.name}, j.no) /\ faultsLeft' \in Nat
      BY <1>1 DEF TakeJob, IInv, TypeOK
    <2> QED
      BY <2>1, <2>2, BeginHolds
  <1>2. ASSUME NEW d \in FtpDatasets, StartBatch(w, d)
        PROVE  IInv'
    <2>1. PICK files \in SUBSET FtpNames :
             files = {u \in FtpNames : area[u] # None /\ DatasetOf[u] = d}
      OBVIOUS
    <2>2. pc[w] = "idle" /\ Begin(w, files, 0) /\ faultsLeft' \in Nat
      BY <1>2, <2>1 DEF StartBatch, IInv, TypeOK
    <2>3. \A u \in files : u \notin WebNames
      BY UploadAssumption
    <2> QED
      BY <2>1, <2>2, <2>3, BeginHolds DEF Names
  <1>3. ASSUME NEW u \in FtpNames, FileWithNoDataset(w, u)
        PROVE  IInv'
    <2>1. PutAway
      BY <1>3, MoveHolds DEF FileWithNoDataset, Names
    <2>2. TypeOK'
      BY <1>3, <2>1 DEF FileWithNoDataset, PutAway, IInv, TypeOK, history, bounds
    <2>3. NothingVanishes'
      BY <1>3, <2>1, VanishHolds DEF FileWithNoDataset, history
    <2>4. NoFalseAlarm'
      BY <1>3 DEF FileWithNoDataset, IInv, NoFalseAlarm, Sound
    <2>5. Sane(w)'
      <3>1. /\ Sane(w) /\ pc'[w] = pc[w] /\ pc[w] = "idle" /\ run'[w] = run[w]
            /\ UNCHANGED <<latest, hindered>>
        BY <1>3 DEF FileWithNoDataset, IInv, history
      <3>2. run[w].files = {}
        BY <3>1 DEF Sane, RunSound, NoRun
      <3> QED
        BY <3>1, <3>2 DEF Sane, RunSound, Fresh, Kept, Blame, HasOwner
    <2> QED
      BY <1>3, <2>1, <2>2, <2>3, <2>4, <2>5, StepHolds DEF FileWithNoDataset, PutAway, history
  <1> QED
    BY <1>1, <1>2, <1>3 DEF FindWork
-----------------------------------------------------------------------------
(***************************************************************************)
(* The processes: unpacking.                                               *)
(***************************************************************************)

\* What Copied makes of a run, field by field.
LEMMA CopiedRun ==
    ASSUME IInv, NEW w \in Processes, NEW u \in Names, area[u] \in Contents,
           NEW parts \in SUBSET Parts, NEW owners \in SUBSET Parts, NEW errs \in BOOLEAN,
           u \in run[w].left, Copied(w, u, parts, owners, errs)
    PROVE  /\ \A o \in Processes \ {w} : pc'[o] = pc[o] /\ run'[o] = run[o]
           /\ pc' \in [Processes -> Labels] /\ run' \in [Processes -> Runs]
           /\ pc'[w] = IF run[w].left = {u} THEN "check" ELSE pc[w]
           /\ run'[w].files = run[w].files
           /\ run'[w].left = IF run[w].left = {u} THEN run[w].files ELSE run[w].left \ {u}
           /\ run'[w].got = [run[w].got EXCEPT ![u] = area[u]]
           /\ run'[w].flat = [p \in Parts |-> IF p \in parts THEN area[u] ELSE run[w].flat[p]]
           /\ run'[w].origin = [p \in Parts |-> IF p \in owners THEN u ELSE run[w].origin[p]]
           /\ run'[w].todo = {p \in Parts : run[w].left = {u} /\ run'[w].flat[p] # None}
           /\ run'[w].errs = (run[w].errs \/ errs)
           /\ run'[w].out = run[w].out
  <1> DEFINE last == run[w].left = {u}
             flat == [p \in Parts |-> IF p \in parts THEN area[u] ELSE run[w].flat[p]]
             left == IF last THEN run[w].files ELSE run[w].left \ {u}
             todo == {p \in Parts : last /\ flat[p] # None}
             origin == [p \in Parts |-> IF p \in owners THEN u ELSE run[w].origin[p]]
             got == [run[w].got EXCEPT ![u] = area[u]]
  <1>1. run[w] \in Runs /\ pc \in [Processes -> Labels] /\ run \in [Processes -> Runs]
    BY DEF IInv, TypeOK
  <1>2. /\ flat \in [Parts -> Contents \cup {None}]
        /\ origin \in [Parts -> Names \cup {None}]
        /\ got \in [Names -> Contents \cup {None}]
        /\ left \subseteq Names /\ todo \subseteq Parts
    BY <1>1 DEF Runs
  <1>3. /\ run' = [run EXCEPT ![w] = [run[w] EXCEPT !.left = left, !.got = got, !.flat = flat,
                      !.origin = origin, !.todo = todo, !.errs = run[w].errs \/ errs]]
        /\ pc' = [pc EXCEPT ![w] = IF last THEN "check" ELSE pc[w]]
    BY DEF Copied
  <1> HIDE DEF flat, left, todo, origin, got
  <1>4. PICK r : r = [run[w] EXCEPT !.left = left, !.got = got, !.flat = flat,
                         !.origin = origin, !.todo = todo, !.errs = run[w].errs \/ errs]
    OBVIOUS
  <1>5. /\ r \in Runs /\ r.files = run[w].files /\ r.left = left /\ r.got = got
        /\ r.flat = flat /\ r.origin = origin /\ r.todo = todo
        /\ r.errs = (run[w].errs \/ errs) /\ r.out = run[w].out
    BY <1>1, <1>2, <1>4 DEF Runs
  <1>6. run' = [run EXCEPT ![w] = r]
    BY <1>3, <1>4
  <1>7. /\ run'[w] = r /\ run' \in [Processes -> Runs]
        /\ \A o \in Processes \ {w} : run'[o] = run[o]
    BY <1>1, <1>5, <1>6
  <1>8. /\ pc' \in [Processes -> Labels]
        /\ pc'[w] = IF last THEN "check" ELSE pc[w]
        /\ \A o \in Processes \ {w} : pc'[o] = pc[o]
    BY <1>1, <1>3 DEF Labels
  <1> QED
    BY <1>5, <1>7, <1>8 DEF flat, left, todo, origin, got

\* A step that copies an upload keeps the invariant when the other uploads in its
\* way are hindered, no part is noted without being there, and an upload that is not
\* copied in full is put away.
LEMMA CopiedHolds ==
    ASSUME IInv, NEW w \in Processes, NEW u \in Names,
           pc[w] = "unpack", u \in run[w].left, HasOwner(u), area[u] \in Contents,
           NEW parts \in SUBSET area[u].parts, NEW owners \in SUBSET area[u].parts,
           NEW errs \in BOOLEAN,
           Copied(w, u, parts, owners, errs), PutAway, UNCHANGED Apart,
           hindered \subseteq hindered', hindered' \subseteq Names,
           \A p \in parts \cup owners : run[w].flat[p] # None => run[w].flat[p].of \in hindered',
           \A p \in owners : p \in parts \/ run[w].flat[p] # None,
           \A p \in parts : p \in owners \/ run[w].flat[p] = None \/ u \in hindered',
           parts = area[u].parts \/ [name |-> u, content |-> area[u]] \in problem',
           u \in WebNames /\ errs => ~Sound(area[u])
    PROVE  IInv'
  <1>1. /\ run[w] \in Runs /\ run[w].files \subseteq Names /\ RunSound(w) /\ Fresh(w)
        /\ Kept(w) /\ Blame(w)
    BY RunType DEF IInv, Sane
  <1>2. parts \subseteq Parts /\ owners \subseteq Parts
    BY ContentType
  <1>3. /\ \A o \in Processes \ {w} : pc'[o] = pc[o] /\ run'[o] = run[o]
        /\ pc' \in [Processes -> Labels] /\ run' \in [Processes -> Runs]
        /\ pc'[w] = IF run[w].left = {u} THEN "check" ELSE pc[w]
        /\ run'[w].files = run[w].files
        /\ run'[w].left = IF run[w].left = {u} THEN run[w].files ELSE run[w].left \ {u}
        /\ run'[w].got = [run[w].got EXCEPT ![u] = area[u]]
        /\ run'[w].flat = [p \in Parts |-> IF p \in parts THEN area[u] ELSE run[w].flat[p]]
        /\ run'[w].origin = [p \in Parts |-> IF p \in owners THEN u ELSE run[w].origin[p]]
        /\ run'[w].todo = {p \in Parts : run[w].left = {u} /\ run'[w].flat[p] # None}
        /\ run'[w].errs = (run[w].errs \/ errs)
        /\ run'[w].out = run[w].out
    BY <1>2, CopiedRun
  <1>4. /\ area[u] # None /\ area[u].of = u /\ area[u] = latest[u]
        /\ u \in run[w].files /\ run[w].got[u] = None
    BY <1>1, ContentType DEF IInv, AreaSound, RunSound
  <1>5. /\ run'[w].got[u] = area[u]
        /\ \A v \in Names \ {u} : run'[w].got[v] = run[w].got[v]
    BY <1>1, <1>3 DEF Runs
  <1>6. /\ \A p \in parts : run'[w].flat[p] = area[u]
        /\ \A p \in Parts \ parts : run'[w].flat[p] = run[w].flat[p]
        /\ \A p \in owners : run'[w].origin[p] = u
        /\ \A p \in Parts \ owners : run'[w].origin[p] = run[w].origin[p]
    BY <1>2, <1>3
  <1>7. UNCHANGED <<temp, rows, jobs, repository, metadata, published, latest, torn, contested,
                    puts, faultsLeft>>
    BY DEF Apart, bounds
  <1>8. TypeOK'
    BY <1>3, <1>7 DEF IInv, TypeOK, PutAway
  <1>9. RunSound(w)'
    <2>1. pc'[w] \in {"unpack", "check"} /\ run'[w].left \subseteq run'[w].files
      BY <1>1, <1>3 DEF RunSound
    <2>2. /\ \A a, b \in run'[w].files : DatasetOf[a] = DatasetOf[b]
          /\ \A a \in run'[w].files : a \in WebNames => run'[w].files = {a}
      BY <1>1, <1>3 DEF RunSound
    <2>3. \A v \in Names : run'[w].got[v] # None => run'[w].got[v].of = v
      BY <1>1, <1>4, <1>5 DEF RunSound
    <2>4. ASSUME NEW p \in Parts, run'[w].flat[p] # None
          PROVE  /\ run'[w].flat[p].of \in run'[w].files
                 /\ run'[w].got[run'[w].flat[p].of] = run'[w].flat[p]
      <3>1. CASE p \in parts
        BY <1>3, <1>4, <1>5, <1>6, <3>1
      <3>2. CASE p \notin parts
        <4>1. /\ run'[w].flat[p] = run[w].flat[p]
              /\ run[w].flat[p].of \in run[w].files
              /\ run[w].got[run[w].flat[p].of] = run[w].flat[p]
          BY <1>1, <1>6, <2>4, <3>2 DEF RunSound
        <4>2. run[w].flat[p].of # u
          BY <1>4, <2>4, <4>1
        <4> QED
          BY <1>1, <1>3, <1>5, <4>1, <4>2
      <3> QED
        BY <3>1, <3>2
    <2>5. \A p \in run'[w].todo : run'[w].flat[p] # None
      BY <1>3
    <2>6. ASSUME pc'[w] = "unpack"
          PROVE  /\ \A v \in run'[w].left : run'[w].got[v] = None
                 /\ \A v \in run'[w].files : \/ v \in run'[w].left \/ ~HasOwner(v)
                                             \/ run'[w].got[v] # None
      <3>1. run'[w].left = run[w].left \ {u}
        BY <1>3, <2>6
      <3> QED
        BY <1>1, <1>3, <1>4, <1>5, <3>1 DEF RunSound
    <2>7. \A p \in Parts : run'[w].origin[p] # None => run'[w].flat[p] # None
      BY <1>1, <1>4, <1>6 DEF RunSound
    <2>8. ASSUME pc'[w] = "check", NEW v \in run'[w].files
          PROVE  run'[w].got[v] # None
      <3>1. run[w].left = {u} /\ v \in run[w].files
        BY <1>3, <2>8
      <3>2. HasOwner(v)
        BY <1>1, <1>4, <3>1 DEF RunSound, HasOwner
      <3> QED
        BY <1>1, <1>4, <1>5, <3>1, <3>2 DEF RunSound
    <2> QED
      BY <2>1, <2>2, <2>3, <2>4, <2>5, <2>6, <2>7, <2>8 DEF RunSound, Copying, HasOwner
  <1>10. Fresh(w)'
    <2>1. ASSUME NEW v \in run'[w].files, run'[w].got[v] # None, v \notin hindered'
          PROVE  run'[w].got[v] = latest'[v]
      BY <1>1, <1>3, <1>4, <1>5, <1>7, <2>1 DEF Fresh
    <2>2. ASSUME NEW p \in Parts, run'[w].flat[p] # None, run'[w].flat[p].of \notin hindered'
          PROVE  run'[w].origin[p] \in {None, run'[w].flat[p].of}
      <3>1. CASE p \in parts
        <4>1. run'[w].flat[p].of = u /\ u \notin hindered'
          BY <1>4, <1>6, <2>2, <3>1
        <4>2. CASE p \in owners
          BY <1>6, <4>1, <4>2
        <4>3. CASE p \notin owners
          BY <1>1, <1>6, <3>1, <4>1, <4>3 DEF RunSound
        <4> QED
          BY <4>2, <4>3
      <3>2. CASE p \notin parts
        <4>1. run'[w].flat[p] = run[w].flat[p]
          BY <1>6, <3>2
        <4>2. p \notin owners
          BY <2>2, <3>2, <4>1
        <4> QED
          BY <1>1, <1>6, <2>2, <4>1, <4>2 DEF Fresh
      <3> QED
        BY <3>1, <3>2
    <2> QED
      BY <2>1, <2>2 DEF Fresh
  <1>11. Kept(w)'
    <2>1. SUFFICES ASSUME NEW v \in run'[w].files, run'[w].got[v] # None, v \notin hindered'
                   PROVE  \/ [name |-> v, content |-> run'[w].got[v]] \in problem'
                          \/ \A p \in Taken(run'[w].got[v]) : OnItsWay(w, p, run[w].got[v])'
      BY DEF Kept
    <2>2. pc'[w] \in {"unpack", "check"}
      BY <1>3
    <2>3. CASE v = u
      <3>1. Taken(area[u]) \subseteq area[u].parts
        BY ContentType
      <3> QED
        BY <1>3, <1>5, <1>6, <2>2, <2>3, <3>1 DEF OnItsWay
    <2>4. CASE v # u
      <3>1. PICK c \in Contents : c = run[w].got[v] /\ c = run'[w].got[v]
        BY <1>1, <1>3, <1>5, <2>1, <2>4 DEF Runs
      <3>2. v \in Names /\ v \in run[w].files /\ v \notin hindered /\ c.of = v /\ c = latest[v]
        <4>1. v \in Names /\ v \in run[w].files /\ v \notin hindered /\ run[w].got[v] # None
          BY <1>1, <1>3, <2>1, <3>1, ContentType
        <4>2. run[w].got[v].of = v
          BY <1>1, <4>1 DEF RunSound
        <4>3. run[w].got[v] = latest[v]
          BY <1>1, <4>1 DEF Fresh
        <4> QED
          BY <3>1, <4>1, <4>2, <4>3
      <3>3. CASE [name |-> v, content |-> c] \in problem
        BY <3>1, <3>2, <3>3 DEF PutAway
      <3>4. CASE \A p \in Taken(c) : OnItsWay(w, p, c)
        <4>1. ASSUME NEW p \in Taken(c)
              PROVE  \/ <<p, c>> \in published'
                     \/ run'[w].flat[p] = c
          <5>1. p \in Parts /\ c # None
            BY ContentType
          <5>2. CASE <<p, c>> \in published
            BY <1>7, <5>2
          <5>3. CASE run[w].flat[p] = c
            BY <1>6, <2>1, <3>2, <5>1, <5>3
          <5> QED
            BY <3>4, <5>2, <5>3 DEF OnItsWay
        <4> QED
          BY <2>2, <3>1, <4>1 DEF OnItsWay
      <3> QED
        BY <1>1, <2>1, <3>1, <3>2, <3>3, <3>4 DEF Kept
    <2> QED
      BY <2>3, <2>4
  <1>12. Blame(w)'
    <2>1. SUFFICES ASSUME NEW v \in run'[w].files \cap WebNames, run'[w].errs \/ run'[w].out
                   PROVE  run'[w].got[v] # None /\ ~Sound(run'[w].got[v])
      BY DEF Blame, Sound
    <2>2. v = u
      BY <1>1, <1>3, <1>4 DEF RunSound
    <2>3. ~run[w].errs /\ ~run[w].out
      BY <1>1, <1>3, <1>4, <2>2 DEF Blame
    <2> QED
      BY <1>3, <1>4, <1>5, <2>1, <2>2, <2>3
  <1>13. NothingVanishes'
    BY <1>7, VanishHolds
  <1>14. NoFalseAlarm'
    BY <1>7 DEF IInv, NoFalseAlarm, Sound
  <1>15. /\ \A v \in Names : area'[v] \in {area[v], None}
         /\ \A v \in Names, c \in Contents :
               c = latest[v] /\ [name |-> v, content |-> c] \in problem
                  => [name |-> v, content |-> c] \in problem'
    BY DEF PutAway
  <1>16. Sane(w)'
    BY <1>9, <1>10, <1>11, <1>12 DEF Sane
  <1> QED
    BY <1>3, <1>7, <1>8, <1>13, <1>14, <1>15, <1>16, StepHolds

\* An upload to be copied is the latest, and one of the form is alone.
LEMMA ToCopy ==
    ASSUME IInv, NEW w \in Processes, NEW u \in Names, NEW form,
           CanCopy(w, u, form)
    PROVE  /\ pc[w] = "unpack" /\ u \in run[w].left /\ HasOwner(u)
           /\ area[u] \in Contents /\ area[u].form = form
           /\ area[u].parts \subseteq Parts
           /\ InTheWay(w, u) \subseteq Names
           /\ \A p \in area[u].parts :
                 run[w].flat[p] # None => run[w].flat[p].of \in InTheWay(w, u)
           /\ u \in WebNames => Unpacked(w) = {}
  <1>1. /\ pc[w] = "unpack" /\ u \in run[w].left /\ HasOwner(u)
        /\ area[u] \in Contents /\ area[u].form = form /\ RunSound(w)
        /\ \A p \in Parts : run[w].flat[p] \in Contents \cup {None}
    BY RunType DEF CanCopy, IInv, TypeOK, Sane
  <1>2. area[u].parts \subseteq Parts
    BY <1>1, ContentType
  <1>3. \A p \in area[u].parts :
           run[w].flat[p] # None => run[w].flat[p].of \in InTheWay(w, u)
    BY <1>2 DEF InTheWay, Unpacked
  <1>4. InTheWay(w, u) \subseteq Names
    BY <1>1, ContentType DEF InTheWay, Unpacked
  <1>5. ASSUME u \in WebNames
        PROVE  Unpacked(w) = {}
    <2>1. run[w].got[u] = None /\ run[w].files = {u}
      BY <1>1, <1>5 DEF RunSound
    <2> QED
      BY <1>1, <2>1 DEF RunSound, Unpacked
  <1> QED
    BY <1>1, <1>2, <1>3, <1>4, <1>5

\* What cannot be unpacked is put away, and is not sound.
LEMMA UnreadableHolds ==
    ASSUME IInv, NEW w \in Processes, NEW u \in Names, Unreadable(w, u)
    PROVE  IInv'
  <1>1. CanCopy(w, u, "broken") /\ Copied(w, u, {}, {}, TRUE) /\ MoveToProblemdir(u)
        /\ UNCHANGED Apart /\ UNCHANGED hindered
    BY DEF Unreadable, Others
  <1>2. pc[w] = "unpack" /\ u \in run[w].left /\ HasOwner(u) /\ area[u] \in Contents
        /\ area[u].form = "broken"
    BY <1>1, ToCopy
  <1>3. PutAway /\ [name |-> u, content |-> area[u]] \in problem'
    BY <1>1, <1>2, MoveHolds, ContentType
  <1>4. ~Sound(area[u]) /\ hindered' \subseteq Names
    BY <1>1, <1>2 DEF Sound, IInv, TypeOK
  <1>5. PICK none \in SUBSET area[u].parts : none = {}
    OBVIOUS
  <1>6. Copied(w, u, none, none, TRUE)
    BY <1>1, <1>5
  <1>7. \A p \in none : FALSE
    BY <1>5
  <1> QED
    BY <1>1, <1>2, <1>3, <1>4, <1>6, <1>7, CopiedHolds

\* An archive of which a component is there already is put away.
LEMMA UnpackTarHolds ==
    ASSUME IInv, NEW w \in Processes, NEW u \in Names, UnpackTar(w, u)
    PROVE  IInv'
  <1>1. PICK taken \in SUBSET Parts : taken = area[u].parts \cap Unpacked(w)
    BY DEF Unpacked
  <1>2. /\ CanCopy(w, u, "tar")
        /\ Copied(w, u, area[u].parts \ taken, area[u].parts, taken # {})
        /\ IF taken = {} THEN UNCHANGED <<area, problem>> ELSE MoveToProblemdir(u)
        /\ hindered' = hindered \cup InTheWay(w, u)
        /\ UNCHANGED Apart
    BY <1>1 DEF UnpackTar, Collides
  <1>3. /\ pc[w] = "unpack" /\ u \in run[w].left /\ HasOwner(u) /\ area[u] \in Contents
        /\ area[u].parts \subseteq Parts /\ InTheWay(w, u) \subseteq Names
        /\ \A p \in area[u].parts :
              run[w].flat[p] # None => run[w].flat[p].of \in InTheWay(w, u)
        /\ u \in WebNames => Unpacked(w) = {}
    BY <1>2, ToCopy
  <1>4. PutAway /\ (taken = {} \/ [name |-> u, content |-> area[u]] \in problem')
    BY <1>2, <1>3, LeaveHolds, MoveHolds, ContentType
  <1>5. PICK parts \in SUBSET area[u].parts, owners \in SUBSET area[u].parts, errs \in BOOLEAN :
           /\ parts = area[u].parts \ taken /\ owners = area[u].parts /\ errs = (taken # {})
    OBVIOUS
  <1>6. Copied(w, u, parts, owners, errs)
    BY <1>2, <1>5
  <1>7. \A p \in area[u].parts : p \in parts <=> run[w].flat[p] = None
    BY <1>1, <1>3, <1>5 DEF Unpacked
  <1>8. /\ \A p \in parts \cup owners : run[w].flat[p] # None => run[w].flat[p].of \in hindered'
        /\ \A p \in owners : p \in parts \/ run[w].flat[p] # None
        /\ \A p \in parts : p \in owners
    BY <1>2, <1>3, <1>5, <1>7
  <1>9. parts = area[u].parts \/ [name |-> u, content |-> area[u]] \in problem'
    BY <1>4, <1>5
  <1>10. u \in WebNames => ~errs
    BY <1>1, <1>3, <1>5
  <1>11. hindered \subseteq hindered' /\ hindered' \subseteq Names
    BY <1>2, <1>3 DEF IInv, TypeOK
  <1> QED
    BY <1>2, <1>3, <1>4, <1>6, <1>8, <1>9, <1>10, <1>11, CopiedHolds

\* A file whose name is taken is put away.
LEMMA PlaceFileHolds ==
    ASSUME IInv, NEW w \in Processes, NEW u \in Names, PlaceFile(w, u)
    PROVE  IInv'
  <1>1. PICK taken \in BOOLEAN : taken = (area[u].parts \subseteq Unpacked(w))
    OBVIOUS
  <1>2. PICK new \in SUBSET area[u].parts : new = IF taken THEN {} ELSE area[u].parts
    OBVIOUS
  <1>3. /\ CanCopy(w, u, "plain") /\ Copied(w, u, new, new, taken)
        /\ IF taken THEN MoveToProblemdir(u) ELSE UNCHANGED <<area, problem>>
        /\ hindered' = hindered \cup InTheWay(w, u)
        /\ UNCHANGED Apart
    BY <1>1, <1>2 DEF PlaceFile, Collides
  <1>4. /\ pc[w] = "unpack" /\ u \in run[w].left /\ HasOwner(u) /\ area[u] \in Contents
        /\ area[u].form = "plain"
        /\ area[u].parts \subseteq Parts /\ InTheWay(w, u) \subseteq Names
        /\ \A p \in area[u].parts :
              run[w].flat[p] # None => run[w].flat[p].of \in InTheWay(w, u)
        /\ u \in WebNames => Unpacked(w) = {}
    BY <1>3, ToCopy
  <1>5. PICK q \in Parts : area[u].parts = {q}
    BY <1>4, UploadAssumption
  <1>6. PutAway /\ (~taken \/ [name |-> u, content |-> area[u]] \in problem')
    BY <1>3, <1>4, LeaveHolds, MoveHolds, ContentType
  <1>7. \A p \in new : run[w].flat[p] = None
    BY <1>1, <1>2, <1>5 DEF Unpacked
  <1>8. u \in WebNames => ~taken
    BY <1>1, <1>4, <1>5
  <1>9. hindered' \subseteq Names
    BY <1>3, <1>4 DEF IInv, TypeOK
  <1> QED
    BY <1>2, <1>3, <1>4, <1>6, <1>7, <1>8, <1>9, CopiedHolds

\* The uncompressed file may replace that of another upload of the batch.
LEMMA GunzipHolds ==
    ASSUME IInv, NEW w \in Processes, NEW u \in Names, Gunzip(w, u)
    PROVE  IInv'
  <1>1. PICK names : names = IF InTheWay(w, u) = {} THEN {} ELSE InTheWay(w, u) \cup {u}
    OBVIOUS
  <1>2. /\ CanCopy(w, u, "gzip") /\ Copied(w, u, area[u].parts, {}, FALSE)
        /\ hindered' = hindered \cup names
        /\ UNCHANGED <<area, problem>> /\ UNCHANGED Apart
    BY <1>1 DEF Gunzip, Collides
  <1>3. /\ pc[w] = "unpack" /\ u \in run[w].left /\ HasOwner(u) /\ area[u] \in Contents
        /\ area[u].parts \subseteq Parts /\ InTheWay(w, u) \subseteq Names
        /\ \A p \in area[u].parts :
              run[w].flat[p] # None => run[w].flat[p].of \in InTheWay(w, u)
    BY <1>2, ToCopy
  <1>4. PutAway
    BY <1>2, LeaveHolds
  <1>5. hindered' \subseteq Names
    BY <1>1, <1>2, <1>3 DEF IInv, TypeOK
  <1>6. \A p \in area[u].parts :
           run[w].flat[p] # None => run[w].flat[p].of \in hindered' /\ u \in hindered'
    BY <1>1, <1>2, <1>3
  <1>7. PICK parts \in SUBSET area[u].parts, owners \in SUBSET area[u].parts, errs \in BOOLEAN :
           parts = area[u].parts /\ owners = {} /\ errs = FALSE
    OBVIOUS
  <1>8. Copied(w, u, parts, owners, errs)
    BY <1>2, <1>7
  <1>9. /\ \A p \in parts \cup owners : run[w].flat[p] # None => run[w].flat[p].of \in hindered'
        /\ \A p \in owners : p \in parts \/ run[w].flat[p] # None
        /\ \A p \in parts : p \in owners \/ run[w].flat[p] = None \/ u \in hindered'
    BY <1>6, <1>7
  <1>10. hindered \subseteq hindered'
    BY <1>2
  <1>11. u \in WebNames /\ errs => ~Sound(area[u])
    BY <1>7
  <1>12. UNCHANGED Apart /\ parts = area[u].parts
    BY <1>2, <1>7
  <1>13. /\ pc[w] = "unpack" /\ u \in run[w].left /\ HasOwner(u) /\ area[u] \in Contents
         /\ Copied(w, u, parts, owners, errs) /\ PutAway /\ UNCHANGED Apart
         /\ hindered \subseteq hindered' /\ hindered' \subseteq Names
    BY <1>3, <1>4, <1>5, <1>8, <1>10, <1>12
  <1>14. parts = area[u].parts \/ [name |-> u, content |-> area[u]] \in problem'
    BY <1>12
  <1> QED
    BY <1>13, <1>14, <1>9, <1>11, CopiedHolds

\* A process gets a new run and a new label.
LEMMA RunStep ==
    ASSUME IInv, NEW w \in Processes, NEW r \in Runs, NEW l \in Labels,
           run' = [run EXCEPT ![w] = r], pc' = [pc EXCEPT ![w] = l]
    PROVE  /\ run'[w] = r /\ pc'[w] = l
           /\ run' \in [Processes -> Runs] /\ pc' \in [Processes -> Labels]
           /\ \A o \in Processes \ {w} : pc'[o] = pc[o] /\ run'[o] = run[o]
  BY DEF IInv, TypeOK

\* No file of a dataset that has no owner is copied; all are put away.
LEMMA DatasetNotInitializedHolds ==
    ASSUME IInv, NEW w \in Processes, NEW u \in Names, DatasetNotInitialized(w, u)
    PROVE  IInv'
  <1>1. /\ pc[w] = "unpack" /\ u \in run[w].left /\ ~HasOwner(u) /\ MoveToProblemdir(u)
        /\ run' = [run EXCEPT ![w] = [run[w] EXCEPT !.left = run[w].left \ {u}]]
        /\ pc' = [pc EXCEPT ![w] = IF run[w].left = {u} THEN "end" ELSE pc[w]]
        /\ UNCHANGED <<temp, rows, jobs, repository, metadata, published, latest, torn, contested,
                       puts, faultsLeft, hindered>>
    BY DEF DatasetNotInitialized, Others, Apart, bounds
  <1>2. /\ run[w] \in Runs /\ pc[w] \in Labels /\ RunSound(w) /\ Fresh(w) /\ Kept(w) /\ Blame(w)
    BY RunType DEF IInv, Sane
  <1>3. PICK r : r = [run[w] EXCEPT !.left = run[w].left \ {u}]
    OBVIOUS
  <1>4. /\ r \in Runs /\ r.files = run[w].files /\ r.left = run[w].left \ {u}
        /\ r.got = run[w].got /\ r.flat = run[w].flat /\ r.origin = run[w].origin
        /\ r.todo = run[w].todo /\ r.errs = run[w].errs /\ r.out = run[w].out
    BY <1>2, <1>3 DEF Runs
  <1>5. PICK l \in Labels : l = IF run[w].left = {u} THEN "end" ELSE pc[w]
    BY <1>2 DEF Labels
  <1>6. run' = [run EXCEPT ![w] = r] /\ pc' = [pc EXCEPT ![w] = l]
    BY <1>1, <1>3, <1>5
  <1>7. /\ run'[w] = r /\ pc'[w] = l
        /\ run' \in [Processes -> Runs] /\ pc' \in [Processes -> Labels]
        /\ \A o \in Processes \ {w} : pc'[o] = pc[o] /\ run'[o] = run[o]
    BY <1>4, <1>6, RunStep
  <1>8. PutAway
    BY <1>1, MoveHolds
  <1>9. TypeOK'
    BY <1>1, <1>7, <1>8 DEF IInv, TypeOK, PutAway
  <1>10. RunSound(w)'
    BY <1>1, <1>2, <1>4, <1>5, <1>7 DEF RunSound, Copying, HasOwner
  <1>11. Fresh(w)' /\ Blame(w)'
    BY <1>1, <1>2, <1>4, <1>7 DEF Fresh, Blame, Sound
  <1>12. Kept(w)'
    <2>1. run'[w].files = run[w].files /\ run'[w].got = run[w].got /\ run'[w].flat = run[w].flat
      BY <1>4, <1>7
    <2>2. pc[w] = "unpack" /\ (pc'[w] = "unpack" \/ pc'[w] = "end")
      BY <1>1, <1>5, <1>7
    <2>3. \A c \in Contents : pc'[w] # "end" =>
             \A p \in Taken(c) : OnItsWay(w, p, c) =>
                <<p, c>> \in published' \/ (run'[w].flat[p] = c /\ pc'[w] = "unpack")
      BY <1>1, <2>1, <2>2 DEF OnItsWay
    <2> QED
      BY <1>1, <1>8, <2>1, <2>2, <2>3, KeepHolds DEF PutAway
  <1>13. NothingVanishes' /\ NoFalseAlarm'
    BY <1>1, <1>8, VanishHolds DEF IInv, NoFalseAlarm, Sound
  <1> QED
    BY <1>1, <1>7, <1>8, <1>9, <1>10, <1>11, <1>12, <1>13, StepHolds DEF Sane, PutAway

\* A helper that dies leaves all as it is.
LEMMA CopyFailsHolds ==
    ASSUME IInv, NEW w \in Processes, NEW u \in Names, CopyFails(w, u)
    PROVE  IInv'
  <1>1. /\ pc[w] = "unpack" /\ pc' = [pc EXCEPT ![w] = "end"]
        /\ UNCHANGED <<area, problem, run, temp, rows, jobs, repository, metadata, published,
                       latest, torn, contested, puts, faultsLeft, hindered>>
    BY DEF CopyFails, Others, Apart, bounds
  <1>2. RunSound(w) /\ Fresh(w) /\ Blame(w) /\ "end" \in Labels
    BY DEF IInv, Sane, Labels
  <1>3. /\ pc'[w] = "end" /\ pc' \in [Processes -> Labels]
        /\ \A o \in Processes \ {w} : pc'[o] = pc[o]
    BY <1>1, <1>2 DEF IInv, TypeOK
  <1>4. TypeOK'
    BY <1>1, <1>3 DEF IInv, TypeOK
  <1>5. RunSound(w)'
    BY <1>1, <1>2, <1>3 DEF RunSound, Copying, HasOwner
  <1>6. Fresh(w)' /\ Blame(w)' /\ Kept(w)'
    BY <1>1, <1>2, <1>3 DEF Fresh, Blame, Sound, Kept
  <1>7. PutAway
    BY <1>1, LeaveHolds
  <1>8. NothingVanishes' /\ NoFalseAlarm'
    BY <1>1, <1>7, VanishHolds DEF IInv, NoFalseAlarm, Sound
  <1> QED
    BY <1>1, <1>3, <1>4, <1>5, <1>6, <1>8, StepHolds DEF Sane
-----------------------------------------------------------------------------
(***************************************************************************)
(* The processes: checking and digesting.                                  *)
(***************************************************************************)

\* A part that is bad is the latest content of its upload, which is put away now or
\* was before; or its upload is hindered.
LEMMA BadPart ==
    ASSUME IInv, NEW w \in Processes, NEW p \in Parts, pc[w] # "end",
           NEW u \in Names, run[w].origin[p] = u,
           NEW c \in Contents, run[w].flat[p] = c, c.of \notin hindered,
           MoveToProblemdir(u)
    PROVE  \/ [name |-> c.of, content |-> c] \in problem'
           \/ \A q \in Taken(c) : <<q, c>> \in published
  <1>1. RunSound(w) /\ Fresh(w) /\ c # None /\ c.of \in Names
    BY ContentType DEF IInv, Sane
  <1>2. c.of \in run[w].files /\ run[w].got[c.of] = c
    BY <1>1 DEF RunSound
  <1>3. latest[c.of] = c
    BY <1>1, <1>2 DEF Fresh
  <1>4. u = c.of
    BY <1>1, UploadAssumption DEF Fresh
  <1>5. CASE area[u] = None
    <2>1. \/ [name |-> c.of, content |-> c] \in problem
          \/ \A q \in Taken(c) : <<q, c>> \in published
      BY <1>1, <1>3, <1>4, <1>5 DEF IInv, NothingVanishes
    <2> QED
      BY <1>5, <2>1 DEF MoveToProblemdir
  <1>6. CASE area[u] # None
    BY <1>3, <1>4, <1>6, MoveHolds DEF IInv, AreaSound
  <1> QED
    BY <1>5, <1>6

\* A part that is not netCDF is dropped, and its upload put away.
LEMMA CheckPartHolds ==
    ASSUME IInv, NEW w \in Processes, NEW p \in Parts, CheckPart(w, p)
    PROVE  IInv'
  <1>0. PICK u : u = run[w].origin[p]
    OBVIOUS
  <1>1. PICK bad \in BOOLEAN : bad = (u # None /\ p \in run[w].flat[p].bad)
    OBVIOUS
  <1>2. /\ pc[w] = "check" /\ p \in run[w].todo
        /\ run' = [run EXCEPT ![w] = [run[w] EXCEPT !.todo = run[w].todo \ {p},
              !.flat = [run[w].flat EXCEPT ![p] = IF bad THEN None ELSE run[w].flat[p]],
              !.errs = run[w].errs \/ bad]]
        /\ IF bad THEN MoveToProblemdir(u) ELSE UNCHANGED <<area, problem>>
        /\ UNCHANGED <<pc, temp, rows, jobs, repository, metadata, published, latest, torn, contested,
                       puts, faultsLeft, hindered>>
    BY <1>0, <1>1 DEF CheckPart, Others, Apart, bounds
  <1>3. /\ run[w] \in Runs /\ RunSound(w) /\ Fresh(w) /\ Kept(w) /\ Blame(w)
    BY RunType DEF IInv, Sane
  <1>4. PICK flat : flat = [run[w].flat EXCEPT ![p] = IF bad THEN None ELSE run[w].flat[p]]
    OBVIOUS
  <1>5. /\ flat \in [Parts -> Contents \cup {None}]
        /\ flat[p] = IF bad THEN None ELSE run[w].flat[p]
        /\ \A q \in Parts \ {p} : flat[q] = run[w].flat[q]
    BY <1>3, <1>4 DEF Runs
  <1>6. PICK r : r = [run[w] EXCEPT !.todo = run[w].todo \ {p}, !.flat = flat,
                                    !.errs = run[w].errs \/ bad]
    OBVIOUS
  <1>7. /\ r \in Runs /\ r.files = run[w].files /\ r.left = run[w].left
        /\ r.got = run[w].got /\ r.flat = flat /\ r.origin = run[w].origin
        /\ r.todo = run[w].todo \ {p} /\ r.errs = (run[w].errs \/ bad) /\ r.out = run[w].out
    BY <1>3, <1>5, <1>6 DEF Runs
  <1>8. run' = [run EXCEPT ![w] = r]
    BY <1>2, <1>4, <1>6
  <1>9. /\ run'[w] = r /\ pc'[w] = "check"
        /\ run' \in [Processes -> Runs] /\ pc' \in [Processes -> Labels]
        /\ \A o \in Processes \ {w} : pc'[o] = pc[o] /\ run'[o] = run[o]
    BY <1>2, <1>7, <1>8 DEF IInv, TypeOK
  <1>10. PICK c \in Contents : c = run[w].flat[p]
    BY <1>2, <1>3 DEF RunSound, Runs
  <1>11. c # None /\ c.of \in run[w].files /\ run[w].got[c.of] = c /\ c.of \in Names
    BY <1>3, <1>10, ContentType DEF RunSound
  <1>12. bad => u \in Names
    BY <1>0, <1>1, RunType DEF IInv
  <1>13. PutAway
    BY <1>2, <1>12, LeaveHolds, MoveHolds
  <1>14. TypeOK'
    BY <1>2, <1>9, <1>13 DEF IInv, TypeOK, PutAway
  <1>15. RunSound(w)'
    BY <1>2, <1>3, <1>5, <1>7, <1>9 DEF RunSound, Copying
  <1>16. Fresh(w)'
    BY <1>2, <1>3, <1>5, <1>7, <1>9 DEF Fresh
  <1>17. Blame(w)'
    <2>1. SUFFICES ASSUME NEW v \in run[w].files \cap WebNames, run[w].errs \/ bad \/ run[w].out
                   PROVE  run[w].got[v] # None /\ ~Sound(run[w].got[v])
      BY <1>7, <1>9 DEF Blame, Sound
    <2>2. CASE bad
      <3>1. v = c.of
        BY <1>3, <1>11 DEF RunSound
      <3> QED
        BY <1>1, <1>10, <1>11, <2>2, <3>1 DEF Sound
    <2>3. CASE ~bad
      BY <1>3, <2>1, <2>3 DEF Blame
    <2> QED
      BY <2>2, <2>3
  <1>18. Kept(w)'
    <2>1. ASSUME NEW d \in Contents, d.of \in run[w].files, d.of \notin hindered',
                 d = run[w].got[d.of], pc'[w] # "end"
          PROVE  \/ [name |-> d.of, content |-> d] \in problem'
                 \/ \A q \in Taken(d) : OnItsWay(w, q, d)
                       => \/ <<q, d>> \in published'
                          \/ run'[w].flat[q] = d /\ pc'[w] = "check"
                 \/ \A q \in Taken(d) : <<q, d>> \in published'
      <3>1. CASE bad /\ d = c
        BY <1>0, <1>1, <1>2, <1>10, <1>12, <2>1, <3>1, BadPart
      <3>2. CASE ~(bad /\ d = c)
        <4>1. ASSUME NEW q \in Taken(d), OnItsWay(w, q, d)
              PROVE  <<q, d>> \in published' \/ run'[w].flat[q] = d
          <5>1. q \in Parts
            BY ContentType
          <5> QED
            BY <1>2, <1>5, <1>7, <1>9, <1>10, <3>2, <4>1, <5>1 DEF OnItsWay
        <4> QED
          BY <1>9, <4>1
      <3> QED
        BY <3>1, <3>2
    <2> QED
      BY <1>2, <1>7, <1>9, <1>13, <2>1, KeepHolds DEF PutAway
  <1>19. NothingVanishes' /\ NoFalseAlarm'
    BY <1>2, <1>13, VanishHolds DEF IInv, NoFalseAlarm, Sound
  <1> QED
    BY <1>2, <1>9, <1>13, <1>14, <1>15, <1>16, <1>17, <1>18, <1>19, StepHolds DEF Sane, PutAway

\* From the check on, the working directory stays as it is.
LEMMA StageHolds ==
    ASSUME IInv, NEW w \in Processes, pc[w] \in Copying, pc'[w] \in Copying,
           run'[w].files = run[w].files, run'[w].left \subseteq run[w].files,
           run'[w].got = run[w].got, run'[w].flat = run[w].flat,
           run'[w].origin = run[w].origin, run'[w].todo \subseteq Unpacked(w),
           UNCHANGED latest, hindered \subseteq hindered'
    PROVE  RunSound(w)' /\ Fresh(w)'
  <1>1. RunSound(w) /\ Fresh(w)
    BY DEF IInv, Sane
  <1>2. RunSound(w)'
    BY <1>1 DEF RunSound, Copying, Unpacked
  <1>3. Fresh(w)'
    BY <1>1 DEF Fresh
  <1> QED
    BY <1>2, <1>3

\* The errors the digest finds are those of the uploads.
LEMMA DigestHolds ==
    ASSUME IInv, NEW w \in Processes, Digest(w)
    PROVE  IInv'
  <1>1. PICK todo \in SUBSET Parts : todo = Unpacked(w) \ Misnamed
    BY DEF Unpacked
  <1>2. PICK out \in BOOLEAN :
           out = (run[w].errs \/ \E p \in todo : p \in run[w].flat[p].flawed)
    OBVIOUS
  <1>3. PICK l \in Labels : l = IF todo = {} THEN "report" ELSE "describe"
    BY DEF Labels
  <1>4. PICK flat : flat = [p \in Parts |-> IF p \in Misnamed THEN None ELSE run[w].flat[p]]
    OBVIOUS
  <1>5. PICK r : r = [run[w] EXCEPT !.flat = flat, !.todo = todo, !.out = out]
    OBVIOUS
  <1>6. /\ pc[w] = "check"
        /\ run' = [run EXCEPT ![w] = r] /\ pc' = [pc EXCEPT ![w] = l]
        /\ UNCHANGED <<area, problem, temp, rows, jobs, repository, metadata, published,
                       latest, torn, puts, faultsLeft, hindered>>
        /\ contested' \subseteq contested \cup Unpacked(w)
    BY <1>1, <1>2, <1>3, <1>4, <1>5 DEF Digest, bounds
  <1>7. /\ run[w] \in Runs /\ RunSound(w) /\ Fresh(w) /\ Blame(w)
        /\ flat \in [Parts -> Contents \cup {None}]
        /\ \A p \in Parts : flat[p] = IF p \in Misnamed THEN None ELSE run[w].flat[p]
    BY <1>4, RunType DEF IInv, Sane, Runs
  <1>8. /\ r \in Runs /\ r.files = run[w].files /\ r.left = run[w].left
        /\ r.got = run[w].got /\ r.flat = flat /\ r.origin = run[w].origin
        /\ r.todo = todo /\ r.errs = run[w].errs /\ r.out = out
    BY <1>5, <1>7 DEF Runs
  <1>9. /\ run'[w] = r /\ pc'[w] = l
        /\ run' \in [Processes -> Runs] /\ pc' \in [Processes -> Labels]
        /\ \A o \in Processes \ {w} : pc'[o] = pc[o] /\ run'[o] = run[o]
    BY <1>6, <1>8, RunStep
  <1>10. TypeOK'
    BY <1>6, <1>9 DEF IInv, TypeOK, Unpacked
  <1>11. RunSound(w)' /\ Fresh(w)'
    <2>1. pc[w] \in Copying /\ l # "idle" /\ l # "unpack"
      BY <1>3, <1>6 DEF Copying
    <2>2. \A p \in todo : flat[p] # None
      BY <1>1, <1>7 DEF Unpacked
    <2>3. RunSound(w)'
      BY <1>7, <1>8, <1>9, <2>1, <2>2 DEF RunSound
    <2>4. Fresh(w)'
      BY <1>6, <1>7, <1>8, <1>9 DEF Fresh
    <2> QED
      BY <2>3, <2>4
  <1>12. Blame(w)'
    <2>1. SUFFICES ASSUME NEW v \in run[w].files \cap WebNames, run[w].errs \/ out
                   PROVE  run[w].got[v] # None /\ ~Sound(run[w].got[v])
      BY <1>8, <1>9 DEF Blame, Sound
    <2>2. CASE run[w].errs
      BY <1>7, <2>2 DEF Blame
    <2>3. CASE ~run[w].errs
      <3>1. PICK p \in Unpacked(w) : p \in run[w].flat[p].flawed
        BY <1>1, <1>2, <2>1, <2>3
      <3>2. run[w].flat[p] # None /\ run[w].got[run[w].flat[p].of] = run[w].flat[p]
            /\ run[w].flat[p].of = v
        BY <1>7, <3>1 DEF RunSound, Unpacked
      <3> QED
        BY <3>1, <3>2 DEF Sound
    <2> QED
      BY <2>2, <2>3
  <1>13. Kept(w)'
    <2>1. ASSUME NEW d \in Contents, NEW q \in Taken(d), OnItsWay(w, q, d)
          PROVE  <<q, d>> \in published' \/ (run'[w].flat[q] = d /\ pc'[w] = "describe")
      <3>1. q \in Parts /\ q \notin Misnamed /\ d # None
        BY ContentType
      <3>2. CASE run[w].flat[q] = d
        BY <1>1, <1>3, <1>7, <1>8, <1>9, <3>1, <3>2 DEF Unpacked
      <3> QED
        BY <1>6, <2>1, <3>2 DEF OnItsWay
    <2> QED
      BY <1>6, <1>8, <1>9, <2>1, KeepHolds
  <1>14. PutAway
    BY <1>6, LeaveHolds
  <1>15. NothingVanishes' /\ NoFalseAlarm'
    BY <1>6, <1>14, VanishHolds DEF IInv, NoFalseAlarm, Sound
  <1> QED
    BY <1>6, <1>9, <1>10, <1>11, <1>12, <1>13, <1>15, StepHolds DEF Sane
-----------------------------------------------------------------------------
(***************************************************************************)
(* The processes: describing and moving.                                   *)
(***************************************************************************)

\* The metadata are those of the part in the working directory.
LEMMA DescribePartHolds ==
    ASSUME IInv, NEW w \in Processes, NEW p \in Parts, DescribePart(w, p)
    PROVE  IInv'
  <1>1. pc[w] = "describe" /\ p \in run[w].todo
    BY DEF DescribePart
  <1>2. run[w] \in Runs /\ pc[w] \in Labels /\ RunSound(w) /\ Blame(w)
    BY RunType DEF IInv, Sane
  <1>3. PICK c \in Contents : c = run[w].flat[p]
    BY <1>1, <1>2 DEF RunSound, Runs
  <1>4. PICK out \in BOOLEAN : out <=> p \in c.flawed
    OBVIOUS
  <1>5. PICK todo \in SUBSET Parts :
           todo = IF run[w].todo = {p} THEN Unpacked(w) ELSE run[w].todo \ {p}
    BY <1>2 DEF Unpacked, Runs
  <1>6. PICK l \in Labels : l = IF run[w].todo = {p} THEN "move" ELSE pc[w]
    <2>1. "move" \in Labels
      BY DEF Labels
    <2> QED
      BY <1>2, <2>1
  <1>7. PICK r : r = [run[w] EXCEPT !.out = out, !.todo = todo]
    OBVIOUS
  <1>8. /\ run' = [run EXCEPT ![w] = r] /\ pc' = [pc EXCEPT ![w] = l]
        /\ metadata' = [metadata EXCEPT ![p] = IF p \in c.bad THEN metadata[p] ELSE c]
        /\ UNCHANGED <<area, problem, temp, rows, jobs, repository, published,
                       latest, torn, contested, puts, faultsLeft, hindered>>
    BY <1>3, <1>4, <1>5, <1>6, <1>7 DEF DescribePart, history, bounds, IInv, TypeOK
  <1>9. /\ r \in Runs /\ r.files = run[w].files /\ r.left = run[w].left
        /\ r.got = run[w].got /\ r.flat = run[w].flat /\ r.origin = run[w].origin
        /\ r.todo = todo /\ r.errs = run[w].errs /\ r.out = out
    BY <1>2, <1>7 DEF Runs
  <1>10. /\ run'[w] = r /\ pc'[w] = l
         /\ run' \in [Processes -> Runs] /\ pc' \in [Processes -> Labels]
         /\ \A o \in Processes \ {w} : pc'[o] = pc[o] /\ run'[o] = run[o]
    BY <1>8, <1>9, RunStep
  <1>11. TypeOK'
    BY <1>8, <1>10 DEF IInv, TypeOK
  <1>12. RunSound(w)' /\ Fresh(w)'
    <2>1. run[w].left \subseteq run[w].files /\ todo \subseteq Unpacked(w)
      BY <1>2, <1>5 DEF RunSound, Unpacked, Runs
    <2>2. pc[w] \in Copying /\ l \in Copying
      BY <1>1, <1>6 DEF Copying
    <2> QED
      BY <1>8, <1>9, <1>10, <2>1, <2>2, StageHolds
  <1>13. Blame(w)'
    <2>1. SUFFICES ASSUME NEW v \in run[w].files \cap WebNames, run[w].errs \/ out
                   PROVE  run[w].got[v] # None /\ ~Sound(run[w].got[v])
      BY <1>9, <1>10 DEF Blame, Sound
    <2>2. CASE run[w].errs
      BY <1>2, <2>2 DEF Blame
    <2>3. CASE p \in c.flawed
      <3>1. c # None /\ run[w].got[c.of] = c /\ c.of = v
        BY <1>2, <1>3, ContentType DEF RunSound
      <3> QED
        BY <2>3, <3>1 DEF Sound
    <2> QED
      BY <1>4, <2>1, <2>2, <2>3
  <1>14. Kept(w)'
    <2>1. ASSUME NEW d \in Contents, NEW q \in Taken(d), OnItsWay(w, q, d)
          PROVE  \/ <<q, d>> \in published'
                 \/ run'[w].flat[q] = d
                    /\ (pc'[w] = "describe" \/ (pc'[w] = "move" /\ q \in run'[w].todo))
      <3>1. q \in Parts /\ d # None
        BY ContentType
      <3>2. CASE run[w].flat[q] = d
        BY <1>1, <1>5, <1>6, <1>9, <1>10, <3>1, <3>2 DEF Unpacked
      <3> QED
        BY <1>8, <2>1, <3>2 DEF OnItsWay
    <2> QED
      BY <1>1, <1>8, <1>9, <1>10, <2>1, KeepHolds
  <1>15. PutAway
    BY <1>8, LeaveHolds
  <1>16. NothingVanishes' /\ NoFalseAlarm'
    BY <1>8, <1>15, VanishHolds DEF IInv, NoFalseAlarm, Sound
  <1> QED
    BY <1>8, <1>10, <1>11, <1>12, <1>13, <1>14, <1>16, StepHolds DEF Sane

\* What both outcomes of a move do to the run.
LEMMA PartDoneRun ==
    ASSUME IInv, NEW w \in Processes, NEW p \in Parts, PartDone(w, p)
    PROVE  /\ pc[w] = "move" /\ p \in run[w].todo
           /\ run[w].flat[p] \in Contents
           /\ run' \in [Processes -> Runs] /\ pc' \in [Processes -> Labels]
           /\ \A o \in Processes \ {w} : pc'[o] = pc[o] /\ run'[o] = run[o]
           /\ run'[w].files = run[w].files /\ run'[w].left = run[w].left
           /\ run'[w].got = run[w].got /\ run'[w].flat = run[w].flat
           /\ run'[w].origin = run[w].origin
           /\ run'[w].errs = run[w].errs /\ run'[w].out = run[w].out
           /\ run'[w].todo = run[w].todo \ {p}
           /\ pc'[w] = IF run[w].todo = {p} THEN "report" ELSE "move"
  <1>1. run[w] \in Runs /\ RunSound(w) /\ run[w].todo \subseteq Parts
    BY RunType DEF IInv, Sane
  <1>2. PICK r : r = [run[w] EXCEPT !.todo = run[w].todo \ {p}]
    OBVIOUS
  <1>3. PICK l \in Labels : l = IF run[w].todo = {p} THEN "report" ELSE "move"
    BY DEF Labels
  <1>4. /\ pc[w] = "move" /\ p \in run[w].todo
        /\ run' = [run EXCEPT ![w] = r] /\ pc' = [pc EXCEPT ![w] = l]
    BY <1>2, <1>3 DEF PartDone, IInv, TypeOK
  <1>5. /\ r \in Runs /\ r.files = run[w].files /\ r.left = run[w].left
        /\ r.got = run[w].got /\ r.flat = run[w].flat /\ r.origin = run[w].origin
        /\ r.todo = run[w].todo \ {p} /\ r.errs = run[w].errs /\ r.out = run[w].out
    BY <1>1, <1>2 DEF Runs
  <1>6. run[w].flat[p] \in Contents
    BY <1>1, <1>4 DEF RunSound, Runs
  <1>7. /\ run'[w] = r /\ pc'[w] = l
        /\ run' \in [Processes -> Runs] /\ pc' \in [Processes -> Labels]
        /\ \A o \in Processes \ {w} : pc'[o] = pc[o] /\ run'[o] = run[o]
    BY <1>4, <1>5, RunStep
  <1> QED
    BY <1>3, <1>4, <1>5, <1>6, <1>7

\* A part is published, or its upload hindered, and the others are on their way.
LEMMA MoveStepHolds ==
    ASSUME IInv, NEW w \in Processes, NEW p \in Parts, PartDone(w, p), UNCHANGED problem,
           repository' \in [Parts -> Contents \cup {None}],
           published \subseteq published', published' \subseteq Parts \X Contents,
           hindered \subseteq hindered', hindered' \subseteq Names,
           torn' \subseteq Parts, UNCHANGED contested, faultsLeft' \in Nat,
           \/ <<p, run[w].flat[p]>> \in published'
           \/ run[w].flat[p].of \in hindered'
    PROVE  IInv'
  <1>1. /\ pc[w] = "move" /\ p \in run[w].todo
        /\ run[w].flat[p] \in Contents
        /\ run' \in [Processes -> Runs] /\ pc' \in [Processes -> Labels]
        /\ \A o \in Processes \ {w} : pc'[o] = pc[o] /\ run'[o] = run[o]
        /\ run'[w].files = run[w].files /\ run'[w].left = run[w].left
        /\ run'[w].got = run[w].got /\ run'[w].flat = run[w].flat
        /\ run'[w].origin = run[w].origin
        /\ run'[w].errs = run[w].errs /\ run'[w].out = run[w].out
        /\ run'[w].todo = run[w].todo \ {p}
        /\ pc'[w] = IF run[w].todo = {p} THEN "report" ELSE "move"
    BY PartDoneRun
  <1>2. UNCHANGED <<area, temp, rows, jobs, metadata, latest, puts>>
    BY DEF PartDone
  <1>3. RunSound(w) /\ Blame(w) /\ run[w].todo \subseteq Parts
    BY RunType DEF IInv, Sane
  <1>4. TypeOK'
    BY <1>1, <1>2 DEF IInv, TypeOK
  <1>5. RunSound(w)' /\ Fresh(w)'
    <2>1. run[w].left \subseteq run[w].files /\ run'[w].todo \subseteq Unpacked(w)
      BY <1>1, <1>3 DEF RunSound, Unpacked
    <2>2. pc[w] \in Copying /\ pc'[w] \in Copying
      BY <1>1 DEF Copying
    <2> QED
      BY <1>1, <1>2, <2>1, <2>2, StageHolds
  <1>6. Blame(w)'
    BY <1>1, <1>3 DEF Blame, Sound
  <1>7. Kept(w)'
    <2>1. ASSUME NEW d \in Contents, d.of \notin hindered', NEW q \in Taken(d), OnItsWay(w, q, d)
          PROVE  \/ <<q, d>> \in published'
                 \/ run'[w].flat[q] = d /\ pc'[w] = "move" /\ q \in run'[w].todo
      <3>1. CASE <<q, d>> \in published
        BY <3>1
      <3>2. CASE run[w].flat[q] = d /\ q \in run[w].todo
        BY <1>1, <2>1, <3>2
      <3> QED
        BY <1>1, <2>1, <3>1, <3>2 DEF OnItsWay
    <2>2. \A n \in Names, c \in Contents :
             c = latest[n] /\ [name |-> n, content |-> c] \in problem
                => [name |-> n, content |-> c] \in problem'
      OBVIOUS
    <2> QED
      BY <1>1, <1>2, <2>1, <2>2, KeepHolds
  <1>8. PutAway
    BY <1>2, LeaveHolds
  <1>9. NothingVanishes' /\ NoFalseAlarm'
    BY <1>2, <1>8, VanishHolds DEF IInv, NoFalseAlarm, Sound
  <1> QED
    BY <1>1, <1>2, <1>4, <1>5, <1>6, <1>7, <1>9, StepHolds DEF Sane

\* A part is moved, or its move fails.
LEMMA MovePartHolds ==
    ASSUME IInv, NEW w \in Processes, NEW p \in Parts, MovePart(w, p) \/ MoveFails(w, p)
    PROVE  IInv'
  <1>1. PartDone(w, p) /\ UNCHANGED problem
    BY DEF MovePart, MoveFails, PartDone
  <1>2. PICK c \in Contents : c = run[w].flat[p]
    BY <1>1, PartDoneRun
  <1>3. c.of \in Names
    BY ContentType
  <1>4. CASE MovePart(w, p)
    <2>1. /\ repository' = [repository EXCEPT ![p] = c]
          /\ published' = published \cup {<<p, c>>} /\ torn' = torn \ {p}
          /\ UNCHANGED <<hindered, contested, faultsLeft>>
      BY <1>2, <1>4 DEF MovePart
    <2>2. /\ repository' \in [Parts -> Contents \cup {None}]
          /\ published \subseteq published' /\ published' \subseteq Parts \X Contents
          /\ hindered \subseteq hindered' /\ hindered' \subseteq Names
          /\ torn' \subseteq Parts /\ faultsLeft' \in Nat
      BY <2>1 DEF IInv, TypeOK
    <2> QED
      BY <1>1, <1>2, <2>1, <2>2, MoveStepHolds
  <1>5. CASE MoveFails(w, p)
    <2>1. /\ hindered' = hindered \cup {c.of} /\ torn' = torn \cup {p}
          /\ UNCHANGED <<repository, published, contested>> /\ faultsLeft' \in Nat
      BY <1>2, <1>5 DEF MoveFails, Fault, IInv, TypeOK
    <2>2. /\ repository' \in [Parts -> Contents \cup {None}]
          /\ published \subseteq published' /\ published' \subseteq Parts \X Contents
          /\ hindered \subseteq hindered' /\ hindered' \subseteq Names
          /\ torn' \subseteq Parts
      BY <1>3, <2>1 DEF IInv, TypeOK
    <2> QED
      BY <1>1, <1>2, <2>1, <2>2, MoveStepHolds
  <1> QED
    BY <1>4, <1>5
-----------------------------------------------------------------------------
(***************************************************************************)
(* The processes: reporting, unlinking, ending.                            *)
(***************************************************************************)

\* The owner of an upload of the form is told of its own errors.
LEMMA ReportHolds ==
    ASSUME IInv, NEW w \in Processes, Report(w)
    PROVE  IInv'
  <1>1. /\ pc[w] = "report"
        /\ rows' = [u \in Names |-> IF u \in run[w].files
                                    THEN [status |-> Status(w), content |-> run[w].got[u]]
                                    ELSE rows[u]]
        /\ pc' = [pc EXCEPT ![w] = "unlink"]
        /\ UNCHANGED <<area, temp, jobs, problem, repository, metadata, run, published,
                       latest, hindered, torn, contested, puts, faultsLeft>>
    BY DEF Report, history, bounds
  <1>2. RunSound(w) /\ Blame(w) /\ run[w] \in Runs
    BY RunType DEF IInv, Sane
  <1>3. \A u \in run[w].files : u \in Names /\ run[w].got[u] \in Contents
    BY <1>1, <1>2 DEF RunSound, Copying, Runs
  <1>4. /\ pc'[w] = "unlink" /\ pc' \in [Processes -> Labels]
        /\ \A o \in Processes \ {w} : pc'[o] = pc[o]
    BY <1>1 DEF IInv, TypeOK, Labels
  <1>5. TypeOK'
    <2>1. Status(w) \in {"File accepted", "Errors found"}
      BY DEF Status
    <2>2. ASSUME NEW u \in Names
          PROVE  rows'[u] \in Reports \cup {None}
      BY <1>1, <1>3, <2>1 DEF IInv, TypeOK, Reports
    <2>3. rows' \in [Names -> Reports \cup {None}]
      BY <1>1, <2>2
    <2> QED
      BY <1>1, <1>4, <2>3 DEF IInv, TypeOK
  <1>6. RunSound(w)' /\ Fresh(w)'
    <2>1. pc[w] \in Copying /\ pc'[w] \in Copying
      BY <1>1, <1>4 DEF Copying
    <2>2. run[w].left \subseteq run[w].files /\ run[w].todo \subseteq Unpacked(w)
      BY <1>2 DEF RunSound, Unpacked, Runs
    <2> QED
      BY <1>1, <2>1, <2>2, StageHolds
  <1>7. Blame(w)'
    BY <1>1, <1>2 DEF Blame, Sound
  <1>8. Kept(w)'
    <2>1. \A d \in Contents : \A q \in Taken(d) :
             OnItsWay(w, q, d) => <<q, d>> \in published'
      BY <1>1 DEF OnItsWay
    <2>2. run'[w].files = run[w].files /\ run'[w].got = run[w].got /\ pc[w] # "end"
      BY <1>1
    <2> QED
      BY <1>1, <2>1, <2>2, KeepHolds
  <1>9. PutAway
    BY <1>1, LeaveHolds
  <1>10. NothingVanishes'
    BY <1>1, <1>9, VanishHolds
  <1>11. NoFalseAlarm'
    <2>1. SUFFICES ASSUME NEW u \in WebNames, rows'[u] # None,
                          rows'[u].status = "Errors found"
                   PROVE  ~Sound(rows'[u].content)
      BY DEF NoFalseAlarm, Sound
    <2>2. CASE u \in run[w].files
      <3>1. rows'[u].content = run[w].got[u] /\ rows'[u].status = Status(w)
        BY <1>1, <2>2 DEF Names
      <3>2. run[w].out
        BY <2>1, <3>1 DEF Status
      <3> QED
        BY <1>2, <2>2, <3>1, <3>2 DEF Blame
    <2>3. CASE u \notin run[w].files
      <3>1. rows'[u] = rows[u]
        BY <1>1, <2>3 DEF Names
      <3> QED
        BY <2>1, <3>1 DEF IInv, NoFalseAlarm
    <2> QED
      BY <2>2, <2>3
  <1> QED
    BY <1>1, <1>4, <1>5, <1>6, <1>7, <1>8, <1>10, <1>11, StepHolds DEF Sane

\* What is unlinked was put away or published.
LEMMA UnlinkUploadHolds ==
    ASSUME IInv, NEW w \in Processes, NEW u \in Names, UnlinkUpload(w, u)
    PROVE  IInv'
  <1>1. PICK r : r = [run[w] EXCEPT !.left = run[w].left \ {u}]
    OBVIOUS
  <1>2. run[w] \in Runs /\ pc[w] \in Labels /\ RunSound(w) /\ Fresh(w) /\ Kept(w) /\ Blame(w)
    BY RunType DEF IInv, Sane
  <1>3. PICK l \in Labels : l = IF run[w].left = {u} THEN "end" ELSE "unlink"
    BY DEF Labels
  <1>4. /\ pc[w] = "unlink" /\ u \in run[w].left
        /\ area' = [area EXCEPT ![u] = None]
        /\ run' = [run EXCEPT ![w] = r] /\ pc' = [pc EXCEPT ![w] = l]
        /\ UNCHANGED <<problem, temp, rows, jobs, repository, metadata, published, latest,
                       torn, contested, puts, faultsLeft, hindered>>
    BY <1>1, <1>3 DEF UnlinkUpload, Others, Apart, bounds, IInv, TypeOK
  <1>5. /\ r \in Runs /\ r.files = run[w].files /\ r.left = run[w].left \ {u}
        /\ r.got = run[w].got /\ r.flat = run[w].flat /\ r.origin = run[w].origin
        /\ r.todo = run[w].todo /\ r.errs = run[w].errs /\ r.out = run[w].out
    BY <1>1, <1>2 DEF Runs
  <1>6. /\ run'[w] = r /\ pc'[w] = l
        /\ run' \in [Processes -> Runs] /\ pc' \in [Processes -> Labels]
        /\ \A o \in Processes \ {w} : pc'[o] = pc[o] /\ run'[o] = run[o]
    BY <1>4, <1>5, RunStep
  <1>7. /\ area' \in [Names -> Contents \cup {None}]
        /\ \A v \in Names : area'[v] \in {area[v], None}
        /\ \A v \in Names \ {u} : area'[v] = area[v]
    BY <1>4 DEF IInv, TypeOK
  <1>8. TypeOK'
    BY <1>4, <1>6, <1>7 DEF IInv, TypeOK
  <1>9. RunSound(w)'
    BY <1>2, <1>3, <1>4, <1>5, <1>6 DEF RunSound, Copying
  <1>10. Fresh(w)' /\ Blame(w)'
    BY <1>2, <1>4, <1>5, <1>6 DEF Fresh, Blame, Sound
  <1>11. Kept(w)'
    <2>1. \A d \in Contents : \A q \in Taken(d) :
             OnItsWay(w, q, d) => <<q, d>> \in published'
      BY <1>4 DEF OnItsWay
    <2> QED
      BY <1>4, <1>5, <1>6, <2>1, KeepHolds
  <1>12. NothingVanishes'
    <2>1. SUFFICES ASSUME NEW v \in Names, latest[v] # None, v \notin hindered
                   PROVE  \/ area'[v] = latest[v]
                          \/ [name |-> v, content |-> latest[v]] \in problem
                          \/ \A p \in Taken(latest[v]) : <<p, latest[v]>> \in published
      BY <1>4 DEF NothingVanishes
    <2>2. CASE v = u
      <3>1. u \in run[w].files /\ run[w].got[u] # None
        BY <1>2, <1>4 DEF RunSound, Copying
      <3>2. run[w].got[u] = latest[u]
        BY <1>2, <2>1, <2>2, <3>1 DEF Fresh
      <3> QED
        BY <1>2, <1>4, <2>1, <2>2, <3>1, <3>2 DEF Kept, OnItsWay
    <2>3. CASE v # u
      BY <1>7, <2>1, <2>3 DEF IInv, NothingVanishes
    <2> QED
      BY <2>2, <2>3
  <1>13. NoFalseAlarm'
    BY <1>4 DEF IInv, NoFalseAlarm, Sound
  <1> QED
    BY <1>4, <1>6, <1>7, <1>8, <1>9, <1>10, <1>11, <1>12, <1>13, StepHolds DEF Sane

\* A process without work has an empty run.
LEMMA RestHolds ==
    ASSUME IInv, NEW w \in Processes, run' = [run EXCEPT ![w] = NoRun],
           pc' = [pc EXCEPT ![w] = "idle"], jobs' \subseteq Jobs, torn' \subseteq Parts,
           faultsLeft' \in Nat,
           UNCHANGED <<area, temp, rows, problem, repository, metadata, published, latest,
                       hindered, contested, puts>>
    PROVE  IInv'
  <1>1. NoRun \in Runs /\ "idle" \in Labels
    BY RunType DEF IInv, Labels
  <1>2. /\ run'[w] = NoRun /\ pc'[w] = "idle"
        /\ run' \in [Processes -> Runs] /\ pc' \in [Processes -> Labels]
        /\ \A o \in Processes \ {w} : pc'[o] = pc[o] /\ run'[o] = run[o]
    BY <1>1, RunStep
  <1>3. /\ NoRun.files = {} /\ NoRun.left = {} /\ NoRun.todo = {}
        /\ \A p \in Parts : NoRun.flat[p] = None
        /\ \A u \in Names : NoRun.got[u] = None
    BY DEF NoRun
  <1>4. TypeOK'
    BY <1>2 DEF IInv, TypeOK
  <1>5. RunSound(w)'
    BY <1>2, <1>3 DEF RunSound, Copying
  <1>6. Fresh(w)' /\ Kept(w)' /\ Blame(w)'
    BY <1>2, <1>3 DEF Fresh, Kept, Blame
  <1>7. PutAway
    BY LeaveHolds
  <1>8. NothingVanishes' /\ NoFalseAlarm'
    BY <1>7, VanishHolds DEF IInv, NoFalseAlarm, Sound
  <1> QED
    BY <1>2, <1>4, <1>5, <1>6, <1>8, StepHolds DEF Sane

\* A job ends, or its process does.
LEMMA EndHolds ==
    ASSUME IInv, NEW w \in Processes, EndJob(w) \/ Crash(w)
    PROVE  IInv'
  <1>1. CASE EndJob(w)
    BY <1>1, RestHolds DEF EndJob, IInv, TypeOK, history, bounds
  <1>2. CASE Crash(w)
    <2>1. Unpacked(w) \subseteq Parts
      BY DEF Unpacked
    <2>2. torn' \subseteq Parts /\ faultsLeft' \in Nat /\ jobs' \subseteq Jobs
      BY <1>2, <2>1 DEF Crash, Fault, IInv, TypeOK
    <2> QED
      BY <1>2, <2>2, RestHolds DEF Crash
  <1> QED
    BY <1>1, <1>2
-----------------------------------------------------------------------------
(***************************************************************************)
(* The theorems.                                                           *)
(***************************************************************************)

\* Every step keeps the invariant.
LEMMA NextHolds ==
    ASSUME IInv, [Next]_vars
    PROVE  IInv'
  <1>1. ASSUME NEW w \in Processes, ProcessFiles(w)
        PROVE  IInv'
    <2>1. ASSUME NEW u \in Names,
                 \/ DatasetNotInitialized(w, u) \/ CopyFails(w, u) \/ Unreadable(w, u)
                 \/ UnpackTar(w, u) \/ PlaceFile(w, u) \/ Gunzip(w, u)
          PROVE  IInv'
      BY <2>1, DatasetNotInitializedHolds, CopyFailsHolds, UnreadableHolds, UnpackTarHolds,
         PlaceFileHolds, GunzipHolds
    <2>2. ASSUME NEW p \in Parts, CheckPart(w, p) \/ DescribePart(w, p) \/ MovePart(w, p)
          PROVE  IInv'
      BY <2>2, CheckPartHolds, DescribePartHolds, MovePartHolds
    <2>3. CASE Digest(w) \/ Report(w) \/ EndJob(w)
      BY <2>3, DigestHolds, ReportHolds, EndHolds
    <2>4. ASSUME NEW u \in Names, UnlinkUpload(w, u)
          PROVE  IInv'
      BY <2>4, UnlinkUploadHolds
    <2> QED
      BY <1>1, <2>1, <2>2, <2>3, <2>4 DEF ProcessFiles, Unpack
  <1>2. ASSUME NEW w \in Processes, Failure(w)
        PROVE  IInv'
    <2>1. ASSUME NEW j \in jobs, TakeSlowJob(w, j)
          PROVE  IInv'
      <3>1. j.name \in Names /\ j.no \in Nat
        BY DEF IInv, TypeOK, Jobs
      <3>2. pc[w] = "idle" /\ Begin(w, {j.name}, j.no) /\ faultsLeft' \in Nat
        BY <2>1 DEF TakeSlowJob, Fault, IInv, TypeOK
      <3> QED
        BY <3>1, <3>2, BeginHolds
    <2> QED
      BY <1>2, <2>1, EndHolds, MovePartHolds DEF Failure
  <1>3. CASE UNCHANGED vars
    <2> USE <1>3 DEF vars, history, bounds
    <2>1. TypeOK' /\ AreaSound' /\ NothingVanishes' /\ NoFalseAlarm'
      BY DEF IInv, TypeOK, AreaSound, NothingVanishes, NoFalseAlarm, Sound
    <2>2. \A w \in Processes : Sane(w)'
      BY DEF IInv, Sane, RunSound, Fresh, Kept, Blame, OnItsWay, HasOwner, Sound
    <2> QED
      BY <2>1, <2>2 DEF IInv
  <1> QED
    BY <1>1, <1>2, <1>3, UserHolds, FindWorkHolds DEF Next

\* The invariant holds in every behaviour.
LEMMA SpecHolds == Spec => []IInv
  <1>1. Init => IInv
    BY InitHolds
  <1>2. IInv /\ [Next]_vars => IInv'
    BY NextHolds
  <1> QED
    BY <1>1, <1>2, PTL DEF Spec

(***************************************************************************)
(* The variables of the upload processing keep their types.                *)
(***************************************************************************)
THEOREM UploadTyping == Spec => []TypeOK
  <1>1. IInv => TypeOK
    BY DEF IInv
  <1> QED
    BY <1>1, SpecHolds, PTL

(***************************************************************************)
(* The last content a user put into an upload area does not vanish, with   *)
(* any number of workers, batches, crashes and jobs done twice: it is in   *)
(* the area, among the problem files, or all its parts were published      *)
(* whose names begin with the dataset's, unless its processing was         *)
(* hindered.  (Other parts of an archive do vanish.)                       *)
(***************************************************************************)
THEOREM UploadsAreKept == Spec => []NothingVanishes
  <1>1. IInv => NothingVanishes
    BY DEF IInv
  <1> QED
    BY <1>1, SpecHolds, PTL

(***************************************************************************)
(* The owner of a sound file uploaded with the web form is never told of   *)
(* errors.                                                                 *)
(***************************************************************************)
THEOREM OnlyOwnErrorsReported == Spec => []NoFalseAlarm
  <1>1. IInv => NoFalseAlarm
    BY DEF IInv
  <1> QED
    BY <1>1, SpecHolds, PTL

\* A part that is moved is the latest content of its upload, or that was hindered.
LEMMA PublishedIsLatest ==
    ASSUME IInv, [Next]_vars, NEW p \in Parts, repository'[p] # repository[p]
    PROVE  \/ repository'[p] = latest[repository'[p].of]
           \/ repository'[p].of \in hindered
  <1>1. PICK w \in Processes, q \in Parts : MovePart(w, q)
    <2>1. repository' # repository
      OBVIOUS
    <2>2. ~(UNCHANGED repository)
      BY <2>1
    <2>3. ~User
      BY <2>2 DEF User, UploadNew, UploadAgain, Deposit, Overwrite, CancelUpload
    <2>4. \A w \in Processes : ~FindWork(w)
      BY <2>2 DEF FindWork, TakeJob, StartBatch, FileWithNoDataset, Begin
    <2>5. \A w \in Processes : ~Failure(w)
      BY <2>2 DEF Failure, Crash, MoveFails, TakeSlowJob, Begin
    <2>6. \A w \in Processes : ~Unpack(w)
      BY <2>2 DEF Unpack, DatasetNotInitialized, CopyFails, Unreadable, UnpackTar, PlaceFile,
                  Gunzip, Others, Apart
    <2>7. \A w \in Processes : ~(Digest(w) \/ Report(w) \/ EndJob(w))
      BY <2>2 DEF Digest, Report, EndJob, Others, Apart
    <2>8. \A w \in Processes, q \in Parts : ~(CheckPart(w, q) \/ DescribePart(w, q))
      BY <2>2 DEF CheckPart, DescribePart, Others, Apart
    <2>9. \A w \in Processes, u \in Names : ~UnlinkUpload(w, u)
      BY <2>2 DEF UnlinkUpload, Others, Apart
    <2>10. ~(UNCHANGED vars)
      BY <2>2 DEF vars
    <2> QED
      BY <2>3, <2>4, <2>5, <2>6, <2>7, <2>8, <2>9, <2>10 DEF Next, ProcessFiles
  <1>2. RunSound(w) /\ Fresh(w)
    BY DEF IInv, Sane
  <1>3. PICK c \in Contents : c = run[w].flat[q]
    BY <1>1, PartDoneRun DEF MovePart
  <1>4. repository' = [repository EXCEPT ![q] = c]
    BY <1>1, <1>3 DEF MovePart
  <1>5. p = q /\ repository'[p] = c
    BY <1>4 DEF IInv, TypeOK
  <1>6. c # None /\ c.of \in run[w].files /\ run[w].got[c.of] = c
    BY <1>2, <1>3, ContentType DEF RunSound
  <1> QED
    BY <1>2, <1>5, <1>6 DEF Fresh

(***************************************************************************)
(* A move to the data repository never brings an older content back: what  *)
(* is moved is the last content of its upload, unless that was hindered.   *)
(***************************************************************************)
THEOREM LatestArePublished == Spec => OnlyLatestIsPublished
  <1>1. IInv /\ [Next]_vars =>
           \/ UNCHANGED vars
           \/ \A p \in Parts :
                 LET c == repository'[p]
                 IN  c # repository[p] => c = latest[c.of] \/ c.of \in hindered
    BY PublishedIsLatest
  <1> QED
    BY <1>1, SpecHolds, PTL DEF Spec, OnlyLatestIsPublished
-----------------------------------------------------------------------------
(***************************************************************************)
(* Metadata and repository.                                                *)
(***************************************************************************)

\* A process between its digest of all parts and its report.
Treats(w) == pc[w] \in {"describe", "move"}

Holders(p) == {w \in Processes : Treats(w) /\ p \in Unpacked(w)}

(***************************************************************************)
(* The processes that have a part agree on its content; one that has       *)
(* described or moved it finds its metadata and its file as it left them;  *)
(* and what the last of them leaves matches.                               *)
(***************************************************************************)
Agreed(p) ==
    /\ \A v, w \in Holders(p) : run[v].flat[p] = run[w].flat[p]
    /\ \A w \in Holders(p) : pc[w] = "move" \/ p \notin run[w].todo =>
          metadata[p] = run[w].flat[p] \/ p \in run[w].flat[p].bad
    /\ \A w \in Holders(p) : pc[w] = "move" /\ p \notin run[w].todo =>
          repository[p] = run[w].flat[p] \/ p \in torn
    /\ Holders(p) = {} => \/ metadata[p] = repository[p]
                          \/ p \in torn
                          \/ repository[p] # None /\ p \in repository[p].bad

MatchInv == \A p \in Parts \ contested : Agreed(p)

\* Steps of processes that have no parts to describe or move.
LEMMA MatchStays ==
    ASSUME MatchInv, UNCHANGED <<metadata, repository, torn, contested>>,
           \A w \in Processes : Treats(w) \/ Treats(w)' => pc'[w] = pc[w] /\ run'[w] = run[w]
    PROVE  MatchInv'
  <1>1. ASSUME NEW p \in Parts \ contested PROVE Agreed(p)'
    <2>1. Agreed(p)
      BY DEF MatchInv
    <2>2. \A w \in Processes : w \in Holders(p)' <=> w \in Holders(p)
      BY DEF Holders, Treats, Unpacked
    <2>3. Holders(p)' = Holders(p)
      BY <2>2 DEF Holders
    <2>4. \A w \in Holders(p) : pc'[w] = pc[w] /\ run'[w] = run[w]
      BY DEF Holders
    <2> QED
      BY <2>1, <2>3, <2>4 DEF Agreed
  <1> QED
    BY <1>1 DEF MatchInv

\* The same of one process.
LEMMA MatchApart ==
    ASSUME IInv, MatchInv, NEW w \in Processes,
           UNCHANGED <<metadata, repository, torn, contested>>,
           \A o \in Processes \ {w} : pc'[o] = pc[o] /\ run'[o] = run[o],
           ~Treats(w), ~(pc'[w] \in {"describe", "move"})
    PROVE  MatchInv'
  <1>1. ~Treats(w)'
    BY DEF Treats
  <1> QED
    BY <1>1, MatchStays

\* The other labels.
Calm == {"idle", "unpack", "check", "report", "unlink", "end"}

\* A step that gives one process a new label, and the run it may give it.
LEMMA MatchLabel ==
    ASSUME IInv, MatchInv, NEW w \in Processes, NEW l, NEW r,
           UNCHANGED <<metadata, repository, torn, contested>>,
           pc' = pc \/ pc' = [pc EXCEPT ![w] = l],
           run' = run \/ run' = [run EXCEPT ![w] = r],
           pc[w] \in Calm, l \in Calm
    PROVE  MatchInv'
  <1>1. \A o \in Processes \ {w} : pc'[o] = pc[o] /\ run'[o] = run[o]
    BY DEF IInv, TypeOK
  <1>2. pc[w] \notin {"describe", "move"} /\ pc'[w] \notin {"describe", "move"}
    BY DEF IInv, TypeOK, Calm
  <1> QED
    BY <1>1, <1>2, MatchApart DEF Treats

\* What users do, and what processes do to find work.
LEMMA MatchOutside ==
    ASSUME IInv, MatchInv,
           User \/ \E w \in Processes : FindWork(w) \/ \E j \in jobs : TakeSlowJob(w, j)
    PROVE  MatchInv'
  <1>1. CASE User
    <2>1. UNCHANGED <<metadata, repository, torn, contested, pc, run>>
      BY <1>1 DEF User, UploadNew, UploadAgain, Deposit, Overwrite, CancelUpload, history
    <2> QED
      BY <2>1, MatchStays
  <1>2. ASSUME NEW w \in Processes, NEW files, NEW job, pc[w] = "idle", Begin(w, files, job)
        PROVE  MatchInv'
    <2>1. PICK l : l = "unpack"
      OBVIOUS
    <2>2. PICK r : r = [run[w] EXCEPT !.files = files, !.left = files, !.job = job]
      OBVIOUS
    <2>3. /\ pc' = [pc EXCEPT ![w] = l] /\ run' = [run EXCEPT ![w] = r]
          /\ UNCHANGED <<metadata, repository, torn, contested>>
      BY <1>2, <2>1, <2>2 DEF Begin, history, IInv, TypeOK
    <2>4. pc[w] \in Calm /\ l \in Calm
      BY <1>2, <2>1 DEF Calm
    <2> QED
      BY <2>3, <2>4, MatchLabel
  <1>3. ASSUME NEW w \in Processes, NEW j \in jobs, TakeJob(w, j) \/ TakeSlowJob(w, j)
        PROVE  MatchInv'
    BY <1>2, <1>3 DEF TakeJob, TakeSlowJob
  <1>4. ASSUME NEW w \in Processes, NEW d \in FtpDatasets, StartBatch(w, d)
        PROVE  MatchInv'
    BY <1>2, <1>4 DEF StartBatch
  <1>5. ASSUME NEW w \in Processes, NEW u \in FtpNames, FileWithNoDataset(w, u)
        PROVE  MatchInv'
    <2>1. UNCHANGED <<metadata, repository, torn, contested, pc, run>>
      BY <1>5 DEF FileWithNoDataset, history
    <2> QED
      BY <2>1, MatchStays
  <1> QED
    BY <1>1, <1>3, <1>4, <1>5 DEF FindWork

\* Unpacking and checking, reporting, unlinking and ending.
LEMMA MatchBesides ==
    ASSUME IInv, MatchInv, NEW w \in Processes,
           \/ Unpack(w) \/ Report(w) \/ EndJob(w)
           \/ \E p \in Parts : CheckPart(w, p)
           \/ \E u \in Names : UnlinkUpload(w, u)
    PROVE  MatchInv'
  <1>1. ASSUME NEW u \in Names, DatasetNotInitialized(w, u) PROVE MatchInv'
    <2>1. PICK l : l = IF run[w].left = {u} THEN "end" ELSE pc[w]
      OBVIOUS
    <2>2. PICK r : run' = [run EXCEPT ![w] = r]
      BY <1>1 DEF DatasetNotInitialized
    <2>3. /\ pc[w] = "unpack" /\ pc' = [pc EXCEPT ![w] = l]
          /\ UNCHANGED <<metadata, repository, torn, contested>>
      BY <1>1, <2>1 DEF DatasetNotInitialized, Others, Apart, IInv, TypeOK
    <2>4. pc[w] \in Calm /\ l \in Calm
      BY <2>1, <2>3 DEF Calm
    <2> QED
      BY <2>2, <2>3, <2>4, MatchLabel
  <1>2. ASSUME NEW u \in Names, CopyFails(w, u) PROVE MatchInv'
    <2>1. PICK l : l = "end"
      OBVIOUS
    <2>2. /\ pc[w] = "unpack" /\ pc' = [pc EXCEPT ![w] = l] /\ run' = run
          /\ UNCHANGED <<metadata, repository, torn, contested>>
      BY <1>2, <2>1 DEF CopyFails, Others, Apart
    <2>3. pc[w] \in Calm /\ l \in Calm
      BY <2>1, <2>2 DEF Calm
    <2> QED
      BY <2>2, <2>3, MatchLabel
  <1>3. ASSUME NEW u \in Names, NEW parts, NEW owners, NEW errs, pc[w] = "unpack",
               Copied(w, u, parts, owners, errs),
               UNCHANGED <<metadata, repository, torn, contested>>
        PROVE  MatchInv'
    <2>1. PICK l : l = IF run[w].left = {u} THEN "check" ELSE pc[w]
      OBVIOUS
    <2>2. pc' = [pc EXCEPT ![w] = l]
      BY <1>3, <2>1 DEF Copied, IInv, TypeOK
    <2>3. PICK r : run' = [run EXCEPT ![w] = r]
      BY <1>3 DEF Copied
    <2>4. pc[w] \in Calm /\ l \in Calm
      BY <1>3, <2>1 DEF Calm
    <2> QED
      BY <1>3, <2>2, <2>3, <2>4, MatchLabel
  <1>4. ASSUME NEW u \in Names,
               Unreadable(w, u) \/ UnpackTar(w, u) \/ PlaceFile(w, u) \/ Gunzip(w, u)
        PROVE  MatchInv'
    <2>1. pc[w] = "unpack" /\ UNCHANGED <<metadata, repository, torn, contested>>
      BY <1>4 DEF Unreadable, UnpackTar, PlaceFile, Gunzip, CanCopy, Others, Apart
    <2>2. \E parts, owners, errs : Copied(w, u, parts, owners, errs)
      BY <1>4 DEF Unreadable, UnpackTar, PlaceFile, Gunzip
    <2> QED
      BY <1>3, <2>1, <2>2
  <1>5. ASSUME NEW p \in Parts, CheckPart(w, p) PROVE MatchInv'
    <2>1. PICK r : run' = [run EXCEPT ![w] = r]
      BY <1>5 DEF CheckPart
    <2>2. pc[w] = "check" /\ UNCHANGED <<pc, metadata, repository, torn, contested>>
      BY <1>5 DEF CheckPart, Others, Apart
    <2>3. PICK l : l \in Calm
      BY DEF Calm
    <2>4. pc[w] \in Calm
      BY <2>2 DEF Calm
    <2> QED
      BY <2>1, <2>2, <2>3, <2>4, MatchLabel
  <1>6. CASE Report(w)
    <2>1. PICK l : l = "unlink"
      OBVIOUS
    <2>2. /\ pc[w] = "report" /\ pc' = [pc EXCEPT ![w] = l] /\ run' = run
          /\ UNCHANGED <<metadata, repository, torn, contested>>
      BY <1>6, <2>1 DEF Report, history
    <2>3. pc[w] \in Calm /\ l \in Calm
      BY <2>1, <2>2 DEF Calm
    <2> QED
      BY <2>2, <2>3, MatchLabel
  <1>7. CASE EndJob(w)
    <2>1. PICK l : l = "idle"
      OBVIOUS
    <2>2. /\ pc[w] = "end" /\ pc' = [pc EXCEPT ![w] = l] /\ run' = [run EXCEPT ![w] = NoRun]
          /\ UNCHANGED <<metadata, repository, torn, contested>>
      BY <1>7, <2>1 DEF EndJob, history
    <2>3. pc[w] \in Calm /\ l \in Calm
      BY <2>1, <2>2 DEF Calm
    <2> QED
      BY <2>2, <2>3, MatchLabel
  <1>8. ASSUME NEW u \in Names, UnlinkUpload(w, u) PROVE MatchInv'
    <2>1. PICK l : l = IF run[w].left = {u} THEN "end" ELSE "unlink"
      OBVIOUS
    <2>2. PICK r : run' = [run EXCEPT ![w] = r]
      BY <1>8 DEF UnlinkUpload
    <2>3. /\ pc[w] = "unlink" /\ pc' = [pc EXCEPT ![w] = l]
          /\ UNCHANGED <<metadata, repository, torn, contested>>
      BY <1>8, <2>1 DEF UnlinkUpload, Others, Apart, IInv, TypeOK
    <2>4. pc[w] \in Calm /\ l \in Calm
      BY <2>1, <2>3 DEF Calm
    <2> QED
      BY <2>2, <2>3, <2>4, MatchLabel
  <1> QED
    BY <1>1, <1>2, <1>4, <1>5, <1>6, <1>7, <1>8 DEF Unpack

\* A process comes to have parts to describe: those others have too are contested, if
\* with another content, and those nobody has are not any more.
LEMMA MatchDigest ==
    ASSUME IInv, MatchInv, NEW w \in Processes, Digest(w)
    PROVE  MatchInv'
  <1>1. PICK todo : todo = Unpacked(w) \ Misnamed
    OBVIOUS
  <1>2. /\ pc[w] = "check" /\ UNCHANGED <<metadata, repository, torn>>
        /\ contested' = {p \in contested : p \in todo => Rivals(w, p) # {}}
              \cup {p \in todo : \E v \in Rivals(w, p) :
                       run[v].flat[p] # run[w].flat[p]}
    BY <1>1 DEF Digest
  <1>3. PICK l : l = IF todo = {} THEN "report" ELSE "describe"
    OBVIOUS
  <1>4. PICK out : out = (run[w].errs \/ \E p \in todo : p \in run[w].flat[p].flawed)
    OBVIOUS
  <1>5. PICK flat : flat = [p \in Parts |-> IF p \in Misnamed THEN None ELSE run[w].flat[p]]
    OBVIOUS
  <1>6. PICK r : r = [run[w] EXCEPT !.flat = flat, !.todo = todo, !.out = out]
    OBVIOUS
  <1>7. /\ r.flat = flat /\ r.todo = todo
        /\ \A p \in Parts : flat[p] = IF p \in Misnamed THEN None ELSE run[w].flat[p]
    BY <1>5, <1>6, RunType DEF Runs, IInv
  <1>8. run' = [run EXCEPT ![w] = r] /\ pc' = [pc EXCEPT ![w] = l]
    BY <1>1, <1>3, <1>4, <1>5, <1>6 DEF Digest
  <1>9. /\ pc'[w] = l /\ run'[w] = r
        /\ \A o \in Processes \ {w} : pc'[o] = pc[o] /\ run'[o] = run[o]
    BY <1>8 DEF IInv, TypeOK
  <1>10. \A q \in Parts : q \in todo <=> flat[q] # None
    BY <1>1, <1>7 DEF Unpacked
  <1>11. ASSUME NEW q \in Parts \ contested' PROVE Agreed(q)'
    <2>1. /\ w \notin Holders(q)
          /\ q \in todo => Holders(q)' = Rivals(w, q) \cup {w}
          /\ q \notin todo => Holders(q)' = Holders(q)
          /\ Rivals(w, q) = Holders(q)
      BY <1>2, <1>3, <1>7, <1>9, <1>10 DEF Holders, Treats, Unpacked, Rivals
    <2>2. \A o \in Holders(q) : pc'[o] = pc[o] /\ run'[o] = run[o]
      BY <1>9, <2>1 DEF Holders
    <2>3. CASE q \notin todo
      <3>1. Agreed(q)
        BY <1>2, <1>11, <2>3 DEF MatchInv
      <3> QED
        BY <1>2, <2>1, <2>2, <2>3, <3>1 DEF Agreed
    <2>4. CASE q \in todo
      <3>1. run'[w].flat[q] = run[w].flat[q] /\ q \in run'[w].todo /\ pc'[w] = "describe"
        BY <1>1, <1>3, <1>7, <1>9, <2>4
      <3>2. \A v \in Holders(q) : run[v].flat[q] = run[w].flat[q]
        BY <1>2, <1>11, <2>1, <2>4
      <3>3. Holders(q) # {} => Agreed(q)
        BY <1>2, <1>11, <2>1, <2>4 DEF MatchInv
      <3> QED
        BY <1>2, <2>1, <2>2, <2>4, <3>1, <3>2, <3>3 DEF Agreed
    <2> QED
      BY <2>3, <2>4
  <1> QED
    BY <1>11 DEF MatchInv

\* The metadata of a part become those of the content all its holders have.
LEMMA MatchDescribe ==
    ASSUME IInv, MatchInv, NEW w \in Processes, NEW p \in Parts, DescribePart(w, p)
    PROVE  MatchInv'
  <1>1. /\ pc[w] = "describe" /\ p \in run[w].todo
        /\ UNCHANGED <<repository, torn, contested>>
    BY DEF DescribePart, history
  <1>2. PICK c : c = run[w].flat[p]
    OBVIOUS
  <1>3. PICK l : l = IF run[w].todo = {p} THEN "move" ELSE "describe"
    OBVIOUS
  <1>4. PICK todo : todo = IF run[w].todo = {p} THEN Unpacked(w) ELSE run[w].todo \ {p}
    OBVIOUS
  <1>5. PICK out : out = (p \in c.flawed)
    OBVIOUS
  <1>6. PICK r : r = [run[w] EXCEPT !.out = out, !.todo = todo]
    OBVIOUS
  <1>7. r.flat = run[w].flat /\ r.todo = todo
    BY <1>6, RunType DEF Runs, IInv
  <1>8. /\ run' = [run EXCEPT ![w] = r] /\ pc' = [pc EXCEPT ![w] = l]
        /\ metadata' = [metadata EXCEPT ![p] = IF p \in c.bad THEN metadata[p] ELSE c]
    BY <1>1, <1>2, <1>3, <1>4, <1>5, <1>6 DEF DescribePart, IInv, TypeOK
  <1>9. /\ pc'[w] = l /\ run'[w] = r
        /\ \A o \in Processes \ {w} : pc'[o] = pc[o] /\ run'[o] = run[o]
        /\ \A q \in Parts \ {p} : metadata'[q] = metadata[q]
        /\ metadata'[p] = IF p \in c.bad THEN metadata[p] ELSE c
    BY <1>8 DEF IInv, TypeOK
  <1>10. w \in Holders(p)
    BY <1>1 DEF IInv, Sane, RunSound, Holders, Treats, Unpacked
  <1>11. ASSUME NEW q \in Parts \ contested PROVE Agreed(q)'
    <2>1. Holders(q)' = Holders(q) /\ \A v \in Processes : run'[v].flat = run[v].flat
      BY <1>1, <1>3, <1>7, <1>9 DEF Holders, Treats, Unpacked
    <2>2. Agreed(q)
      BY <1>11 DEF MatchInv
    <2>3. ASSUME NEW v \in Holders(q), pc'[v] = "move" \/ q \notin run'[v].todo
          PROVE  metadata'[q] = run[v].flat[q] \/ q \in run[v].flat[q].bad
      <3>1. CASE q = p
        BY <1>2, <1>9, <1>10, <2>2, <3>1 DEF Agreed
      <3>2. CASE q # p
        <4>1. pc[v] = "move" \/ q \notin run[v].todo
          BY <1>1, <1>3, <1>4, <1>7, <1>9, <2>3, <3>2 DEF Holders
        <4> QED
          BY <1>9, <2>2, <3>2, <4>1 DEF Agreed
      <3> QED
        BY <3>1, <3>2
    <2>4. ASSUME NEW v \in Holders(q), pc'[v] = "move", q \notin run'[v].todo
          PROVE  repository[q] = run[v].flat[q] \/ q \in torn
      <3>1. v # w
        BY <1>3, <1>4, <1>7, <1>9, <2>4 DEF Holders
      <3>2. pc[v] = "move" /\ q \notin run[v].todo
        BY <1>9, <2>4, <3>1 DEF Holders
      <3> QED
        BY <2>2, <3>2 DEF Agreed
    <2>5. Holders(q) = {} => metadata'[q] = metadata[q]
      BY <1>9, <1>10
    <2>6. \A u, v \in Holders(q) : run'[u].flat[q] = run'[v].flat[q]
      BY <2>1, <2>2 DEF Agreed, Holders
    <2>7. /\ \A v \in Holders(q) : pc'[v] = "move" \/ q \notin run'[v].todo =>
                metadata'[q] = run'[v].flat[q] \/ q \in run'[v].flat[q].bad
          /\ \A v \in Holders(q) : pc'[v] = "move" /\ q \notin run'[v].todo =>
                repository'[q] = run'[v].flat[q] \/ q \in torn'
      BY <1>1, <2>1, <2>3, <2>4 DEF Holders
    <2>8. Holders(q) = {} => \/ metadata'[q] = repository'[q]
                             \/ q \in torn'
                             \/ repository'[q] # None /\ q \in repository'[q].bad
      BY <1>1, <2>2, <2>5 DEF Agreed
    <2> QED
      BY <2>1, <2>6, <2>7, <2>8 DEF Agreed
  <1> QED
    BY <1>1, <1>11 DEF MatchInv

\* A part is moved, or is torn; the last holder of a part leaves what it described.
LEMMA MatchMoved ==
    ASSUME IInv, MatchInv, NEW w \in Processes, NEW p \in Parts, PartDone(w, p),
           UNCHANGED contested,
           \A q \in Parts \ {p} : repository'[q] = repository[q] /\ (q \in torn' <=> q \in torn),
           \/ repository'[p] = run[w].flat[p]
           \/ p \in torn'
    PROVE  MatchInv'
  <1>1. /\ pc[w] = "move" /\ p \in run[w].todo
        /\ \A o \in Processes \ {w} : pc'[o] = pc[o] /\ run'[o] = run[o]
        /\ run'[w].flat = run[w].flat /\ run'[w].todo = run[w].todo \ {p}
        /\ pc'[w] = IF run[w].todo = {p} THEN "report" ELSE "move"
        /\ UNCHANGED metadata
    BY PartDoneRun DEF PartDone
  <1>2. w \in Holders(p)
    BY <1>1 DEF IInv, Sane, RunSound, Holders, Treats, Unpacked
  <1>3. ASSUME NEW q \in Parts \ contested PROVE Agreed(q)'
    <2>1. /\ Holders(q)' = IF run[w].todo = {p} THEN Holders(q) \ {w} ELSE Holders(q)
          /\ \A v \in Processes : run'[v].flat = run[v].flat
      <3>1. \A v \in Processes : run'[v].flat = run[v].flat
        BY <1>1
      <3>2. CASE run[w].todo = {p}
        BY <1>1, <3>1, <3>2 DEF Holders, Treats, Unpacked
      <3>3. CASE run[w].todo # {p}
        BY <1>1, <3>1, <3>3 DEF Holders, Treats, Unpacked
      <3> QED
        BY <3>1, <3>2, <3>3
    <2>2. Agreed(q)
      BY <1>3 DEF MatchInv
    <2>3. ASSUME NEW v \in Holders(q)', pc'[v] = "move" \/ q \notin run'[v].todo
          PROVE  metadata[q] = run[v].flat[q] \/ q \in run[v].flat[q].bad
      <3>1. v \in Holders(q) /\ (pc[v] = "move" \/ q \notin run[v].todo)
        <4>1. v \in Holders(q) /\ v \in Processes
          BY <2>1 DEF Holders
        <4>2. v # w => pc'[v] = pc[v] /\ run'[v] = run[v]
          BY <1>1, <4>1
        <4> QED
          BY <1>1, <2>3, <4>1, <4>2
      <3> QED
        BY <2>2, <3>1 DEF Agreed
    <2>4. ASSUME NEW v \in Holders(q), v = w \/ pc'[v] = "move", q \notin run'[v].todo
          PROVE  repository'[q] = run[v].flat[q] \/ q \in torn'
      <3>1. CASE q = p
        BY <1>2, <2>2, <3>1 DEF Agreed
      <3>2. CASE q # p
        <4>1. pc[v] = "move" /\ q \notin run[v].todo
          BY <1>1, <2>4, <3>2 DEF Holders
        <4> QED
          BY <2>2, <3>2, <4>1 DEF Agreed
      <3> QED
        BY <3>1, <3>2
    <2>5. ASSUME Holders(q)' = {}
          PROVE  \/ metadata[q] = repository'[q]
                 \/ q \in torn'
                 \/ repository'[q] # None /\ q \in repository'[q].bad
      <3>1. CASE w \notin Holders(q)
        <4>1. Holders(q) = {} /\ q # p
          BY <1>2, <2>1, <2>5, <3>1
        <4> QED
          BY <2>2, <4>1 DEF Agreed
      <3>2. CASE w \in Holders(q)
        <4>1. run[w].todo = {p}
          BY <2>1, <2>5, <3>2
        <4>2. q \notin run'[w].todo
          BY <1>1, <4>1
        <4>3. repository'[q] = run[w].flat[q] \/ q \in torn'
          BY <2>4, <3>2, <4>2
        <4>4. metadata[q] = run[w].flat[q] \/ q \in run[w].flat[q].bad
          BY <1>1, <2>2, <3>2 DEF Agreed
        <4>5. run[w].flat[q] # None
          BY <3>2 DEF Holders, Unpacked
        <4> QED
          BY <4>3, <4>4, <4>5
      <3> QED
        BY <3>1, <3>2
    <2>6. \A u, v \in Holders(q)' : run[u].flat[q] = run[v].flat[q]
      BY <2>1, <2>2 DEF Agreed
    <2>7. Holders(q)' \subseteq Holders(q) /\ Holders(q) \subseteq Processes
      BY <2>1 DEF Holders
    <2>8. /\ \A u, v \in Holders(q)' : run'[u].flat[q] = run'[v].flat[q]
          /\ \A v \in Holders(q)' : pc'[v] = "move" \/ q \notin run'[v].todo =>
                metadata'[q] = run'[v].flat[q] \/ q \in run'[v].flat[q].bad
          /\ \A v \in Holders(q)' : pc'[v] = "move" /\ q \notin run'[v].todo =>
                repository'[q] = run'[v].flat[q] \/ q \in torn'
      BY <1>1, <2>1, <2>3, <2>4, <2>6, <2>7
    <2>9. Holders(q)' = {} => \/ metadata'[q] = repository'[q]
                              \/ q \in torn'
                              \/ repository'[q] # None /\ q \in repository'[q].bad
      BY <1>1, <2>5
    <2> QED
      BY <2>8, <2>9 DEF Agreed
  <1> QED
    BY <1>3 DEF MatchInv

\* A crash tears the parts the process had.
LEMMA MatchCrash ==
    ASSUME IInv, MatchInv, NEW w \in Processes, Crash(w)
    PROVE  MatchInv'
  <1>1. /\ torn' = torn \cup (IF Treats(w) THEN Unpacked(w) ELSE {})
        /\ UNCHANGED <<metadata, repository, contested>>
        /\ pc' = [pc EXCEPT ![w] = "idle"] /\ run' = [run EXCEPT ![w] = NoRun]
    BY DEF Crash, Treats
  <1>2. /\ pc'[w] = "idle"
        /\ \A o \in Processes \ {w} : pc'[o] = pc[o] /\ run'[o] = run[o]
    BY <1>1 DEF IInv, TypeOK
  <1>3. ASSUME NEW q \in Parts \ contested PROVE Agreed(q)'
    <2>1. Agreed(q)
      BY <1>3 DEF MatchInv
    <2>2. Holders(q)' = Holders(q) \ {w}
      BY <1>2 DEF Holders, Treats, Unpacked
    <2>3. w \in Holders(q) => q \in torn'
      BY <1>1 DEF Holders
    <2>4. \A v \in Holders(q)' : v \in Holders(q) /\ pc'[v] = pc[v] /\ run'[v] = run[v]
      BY <1>2, <2>2 DEF Holders
    <2>5. q \in torn => q \in torn'
      BY <1>1
    <2> QED
      BY <1>1, <2>1, <2>2, <2>3, <2>4, <2>5 DEF Agreed
  <1> QED
    BY <1>1, <1>3 DEF MatchInv

\* Every step keeps metadata and files together.
LEMMA MatchNext == IInv /\ MatchInv /\ [Next]_vars => MatchInv'
  <1> SUFFICES ASSUME IInv, MatchInv, [Next]_vars PROVE MatchInv'
    OBVIOUS
  <1>1. CASE UNCHANGED vars
    BY <1>1, MatchStays DEF vars, history
  <1>2. ASSUME NEW w \in Processes, NEW p \in Parts, MovePart(w, p) \/ MoveFails(w, p)
        PROVE  MatchInv'
    <2>1. PartDone(w, p) /\ UNCHANGED contested
      BY <1>2 DEF MovePart, MoveFails
    <2>2. CASE MovePart(w, p)
      <3>1. repository' = [repository EXCEPT ![p] = run[w].flat[p]] /\ torn' = torn \ {p}
        BY <2>2 DEF MovePart
      <3> QED
        BY <2>1, <3>1, MatchMoved DEF IInv, TypeOK
    <2>3. CASE MoveFails(w, p)
      <3>1. repository' = repository /\ torn' = torn \cup {p}
        BY <2>3 DEF MoveFails
      <3> QED
        BY <2>1, <3>1, MatchMoved
    <2> QED
      BY <1>2, <2>2, <2>3
  <1>3. ASSUME NEW w \in Processes, ProcessFiles(w) PROVE MatchInv'
    BY <1>2, <1>3, MatchBesides, MatchDigest, MatchDescribe DEF ProcessFiles
  <1>4. ASSUME NEW w \in Processes, Failure(w) PROVE MatchInv'
    BY <1>2, <1>4, MatchCrash, MatchOutside DEF Failure
  <1> QED
    BY <1>1, <1>3, <1>4, MatchOutside DEF Next

(***************************************************************************)
(* Metadata describe the file in the repository, with any number of        *)
(* processes, uploads with parts of the same name, and failures, but for   *)
(* parts that are contested, torn, being processed or not netCDF.          *)
(***************************************************************************)
THEOREM MetadataDescribeFiles == Spec => []MetadataMatch
  <1>1. Init => MatchInv
    BY DEF Init, MatchInv, Agreed, Holders, Treats
  <1>2. MatchInv => MetadataMatch
    <2> SUFFICES ASSUME MatchInv, NEW p \in Parts \ contested
                 PROVE  \/ metadata[p] = repository[p]
                        \/ p \in torn
                        \/ \E w \in Processes : pc[w] \in {"describe", "move"}
                                                /\ p \in Unpacked(w)
                        \/ repository[p] # None /\ p \in repository[p].bad
      BY DEF MetadataMatch
    <2> QED
      BY DEF MatchInv, Agreed, Holders, Treats
  <1> QED
    BY <1>1, <1>2, MatchNext, SpecHolds, PTL DEF Spec
=============================================================================
