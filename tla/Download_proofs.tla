-------------------------- MODULE Download_proofs --------------------------
(***************************************************************************)
(* Proofs about the preparation of downloads, for any files, recipients,   *)
(* workers and faults.                                                     *)
(***************************************************************************)
EXTENDS Download, TLAPS

\* A file of job j is in the set z, or its recipient was told that it is not, or it was
\* cut off.
Accounted(j, f, z) ==
    \/ [file |-> f, whole |-> TRUE] \in z
    \/ [job |-> j, file |-> f] \in errors
    \/ f \in MayBeCut(j) /\ [file |-> f, whole |-> FALSE] \in z

NameOf(v) == [recipient |-> jobs[v.job].recipient, second |-> v.second]

\* What a worker has done of its job.
WorkOK(v) ==
    /\ v.job \in 1 .. Len(jobs)
    /\ \A m \in v.zip : m.file \in jobs[v.job].files
    /\ v.left \subseteq jobs[v.job].files
    /\ \A f \in jobs[v.job].files : f \in v.left \/ Accounted(v.job, f, v.zip)
    /\ v.at \in {"send", "complete"} => v.job \in writers[NameOf(v)]

WorksSound == \A w \in Workers : work[w] # NoWork => WorkOK(work[w])

\* What an archive holds is of a job that wrote it, and all of it when one did.
ArchiveOK(n) ==
    /\ \A j \in writers[n] : jobs[j].recipient = n.recipient
    /\ writers[n] # {} => \E j \in writers[n] : \A m \in archives[n] : m.file \in jobs[j].files
    /\ \A j \in writers[n] : writers[n] = {j} =>
          \A f \in jobs[j].files : Accounted(j, f, archives[n])

ArchivesSound == \A n \in Names : ArchiveOK(n)

LinksSound == \A l \in links : l.job \in writers[l.name]

IInv == TypeOK /\ WorksSound /\ ArchivesSound /\ LinksSound
-----------------------------------------------------------------------------
\* The initial states satisfy the invariant.
LEMMA InitHolds == Init => IInv
  <1> SUFFICES ASSUME Init PROVE IInv
    OBVIOUS
  <1> USE DownloadAssumption DEF Init
  <1>1. TypeOK
    BY DEF TypeOK, Time
  <1>2. WorksSound
    BY DEF WorksSound
  <1>3. ArchivesSound
    BY DEF ArchivesSound, ArchiveOK
  <1>4. LinksSound
    BY DEF LinksSound
  <1> QED
    BY <1>1, <1>2, <1>3, <1>4 DEF IInv

\* A worker is busy with a job that exists, under a name archives can have.
LEMMA WorkType ==
    ASSUME IInv, NEW w \in Workers, work[w] # NoWork
    PROVE  /\ work[w] \in Works /\ work[w].job \in 1 .. Len(jobs)
           /\ jobs[work[w].job] \in Jobs
           /\ Name(w) \in Names /\ Name(w) = NameOf(work[w])
           /\ WorkOK(work[w])
  <1>1. work[w] \in Works /\ WorkOK(work[w])
    BY DEF IInv, TypeOK, WorksSound
  <1>2. work[w].job \in 1 .. Len(jobs) /\ jobs[work[w].job] \in Jobs
    BY <1>1 DEF WorkOK, IInv, TypeOK
  <1> QED
    BY <1>1, <1>2 DEF Name, NameOf, Recipient, Names, Works, Jobs

(***************************************************************************)
(* Steps that write no archive and take no work back: the jobs stay, more  *)
(* errors may be told, and the workers whose work changed are sound.       *)
(***************************************************************************)
LEMMA ProgressHolds ==
    ASSUME IInv, UNCHANGED <<jobs, archives, writers, links>>,
           errors \subseteq errors',
           \A w \in Workers : \/ work'[w] = work[w] \/ work'[w] = NoWork
                              \/ \E v \in Works : work'[w] = v /\ WorkOK(v)'
    PROVE  WorksSound' /\ ArchivesSound' /\ LinksSound'
  <1>1. ASSUME NEW v, WorkOK(v) PROVE WorkOK(v)'
    BY <1>1 DEF WorkOK, NameOf, Accounted, MayBeCut
  <1>2. WorksSound'
    <2> SUFFICES ASSUME NEW w \in Workers, work'[w] # NoWork
                 PROVE  \E v : v = work'[w] /\ WorkOK(v)'
      BY DEF WorksSound, WorkOK, NameOf, Accounted, MayBeCut
    <2>1. CASE work'[w] = work[w]
      <3>1. PICK v : v = work[w]
        OBVIOUS
      <3>2. WorkOK(v)
        BY <2>1, <3>1 DEF IInv, WorksSound
      <3> QED
        BY <1>1, <2>1, <3>1, <3>2
    <2> QED
      BY <2>1
  <1>3. ArchivesSound' /\ LinksSound'
    BY DEF IInv, ArchivesSound, ArchiveOK, LinksSound, Accounted, MayBeCut
  <1> QED
    BY <1>2, <1>3

\* Inserting a job leaves the numbers and contents of the others.
LEMMA RequestHolds ==
    ASSUME IInv, NEW job \in Requests, RequestDownload(job)
    PROVE  IInv'
  <1>1. /\ job \in Jobs /\ jobs' = Append(jobs, job) /\ open' = open \cup {Len(jobs) + 1}
        /\ UNCHANGED <<now, grabbed, work, zipVars, mailVars, faults>>
    BY DownloadAssumption DEF RequestDownload
  <1>2. /\ jobs' \in Seq(Jobs) /\ Len(jobs') = Len(jobs) + 1 /\ Len(jobs) \in Nat
        /\ \A j \in 1 .. Len(jobs) : jobs'[j] = jobs[j]
    BY <1>1 DEF IInv, TypeOK
  <1>3. 1 .. Len(jobs) \subseteq 1 .. Len(jobs') /\ Len(jobs) + 1 \in 1 .. Len(jobs')
    BY <1>2
  <1>4. TypeOK'
    <2>1. \A n \in Names : writers[n] \subseteq 1 .. Len(jobs')
      BY <1>3 DEF IInv, TypeOK
    <2> QED
      BY <1>1, <1>2, <1>3, <2>1 DEF IInv, TypeOK, zipVars, mailVars
  <1>5. ASSUME NEW w \in Workers, work[w] # NoWork PROVE WorkOK(work[w])'
    <2>1. WorkOK(work[w]) /\ work[w].job \in 1 .. Len(jobs)
      BY <1>5, WorkType
    <2> QED
      BY <1>1, <1>2, <1>3, <2>1 DEF WorkOK, NameOf, Accounted, MayBeCut, zipVars, mailVars
  <1>6. ASSUME NEW n \in Names PROVE ArchiveOK(n)'
    <2>1. ArchiveOK(n) /\ writers[n] \subseteq 1 .. Len(jobs)
      BY DEF IInv, TypeOK, ArchivesSound
    <2> QED
      BY <1>1, <1>2, <2>1 DEF ArchiveOK, Accounted, MayBeCut, zipVars, mailVars
  <1>7. WorksSound' /\ ArchivesSound' /\ LinksSound'
    BY <1>1, <1>5, <1>6 DEF WorksSound, ArchivesSound, LinksSound, IInv, zipVars, mailVars
  <1> QED
    BY <1>4, <1>7 DEF IInv

\* A worker takes a job.
LEMMA GrabHolds ==
    ASSUME IInv, NEW w \in Workers, NEW j \in open, Grab(w, j)
    PROVE  IInv'
  <1>0. PICK v : v = [at |-> "check", job |-> j, left |-> jobs[j].files, zip |-> {}, second |-> now]
    OBVIOUS
  <1>1. /\ work' = [work EXCEPT ![w] = v] /\ grabbed' = grabbed \cup {j}
        /\ UNCHANGED <<now, jobs, open, zipVars, mailVars, faults>>
        /\ j \in 1 .. Len(jobs) /\ jobs[j] \in Jobs
    BY <1>0 DEF Grab, IInv, TypeOK
  <1>2. v \in Works /\ v.job = j /\ v.zip = {} /\ v.left = jobs[j].files /\ v.at = "check"
    BY <1>0, <1>1 DEF Works, Jobs, IInv, TypeOK
  <1>3. TypeOK'
    BY <1>1, <1>2 DEF IInv, TypeOK, zipVars, mailVars
  <1>4. WorkOK(v)'
    BY <1>1, <1>2 DEF WorkOK
  <1>5. \A o \in Workers : work'[o] = IF o = w THEN v ELSE work[o]
    BY <1>1 DEF IInv, TypeOK
  <1>6. WorksSound' /\ ArchivesSound' /\ LinksSound'
    BY <1>1, <1>2, <1>4, <1>5, ProgressHolds DEF zipVars, mailVars
  <1> QED
    BY <1>3, <1>6 DEF IInv

\* A worker ends, whatever it told, or crashes.
LEMMA EndingHolds ==
    ASSUME IInv, NEW w \in Workers, work[w] # NoWork,
           \/ WriteFails(w) \/ MailFails(w) \/ Complete(w) \/ Crash(w)
           \/ TempdirDies(w) \/ \E f \in Files : TempfileDies(w, f)
    PROVE  IInv'
  <1> USE DEF WriteFails, MailFails, Complete, Crash, TempdirDies, TempfileDies, Die, End
  <1>1. work[w].job \in 1 .. Len(jobs)
    BY WorkType
  <1>e. /\ open' = open \/ open' = open \ {work[w].job}
        /\ grabbed' \subseteq open'
    BY DEF queueVars, IInv, TypeOK
  <1>t. /\ errors' = errors \/ errors' = errors \cup {[job |-> work[w].job, file |-> NoFile]}
        /\ unmailed' = unmailed \/ unmailed' = unmailed \cup {work[w].job}
        /\ dropped' = dropped \/ dropped' = dropped \cup {work[w].job}
    BY DEF Report, mailVars
  <1>f. faults' \in Nat
    BY DEF Fault, IInv, TypeOK
  <1>u. work' = [work EXCEPT ![w] = NoWork] /\ UNCHANGED <<now, jobs, zipVars, links>>
    BY DEF Report, queueVars, mailVars
  <1>3. TypeOK'
    <2>1. work' \in [Workers -> Works \cup {NoWork}]
      BY <1>u DEF IInv, TypeOK
    <2>2. errors' \subseteq [job : 1 .. Len(jobs), file : Files \cup {NoFile}]
      <3>1. [job |-> work[w].job, file |-> NoFile] \in [job : 1 .. Len(jobs), file : Files \cup {NoFile}]
        BY <1>1
      <3>2. errors \subseteq [job : 1 .. Len(jobs), file : Files \cup {NoFile}]
        BY DEF IInv, TypeOK
      <3>. QED
        BY <1>t, <3>1, <3>2
    <2>3. /\ unmailed' \subseteq 1 .. Len(jobs) /\ dropped' \subseteq 1 .. Len(jobs)
          /\ open' \subseteq 1 .. Len(jobs) /\ grabbed' \subseteq open'
      BY <1>1, <1>e, <1>t DEF IInv, TypeOK
    <2>. QED
      BY <1>u, <1>f, <2>1, <2>2, <2>3 DEF IInv, TypeOK, zipVars
  <1>4. \A o \in Workers : work'[o] = work[o] \/ work'[o] = NoWork
    BY <1>u DEF IInv, TypeOK
  <1>5. WorksSound' /\ ArchivesSound' /\ LinksSound'
    <2>1. errors \subseteq errors'
      BY <1>t
    <2> QED
      BY <1>u, <1>4, <2>1, ProgressHolds DEF zipVars
  <1> QED
    BY <1>3, <1>5 DEF IInv

\* A worker goes on with the same job and no new archive, and may tell an error.
LEMMA WorkingHolds ==
    ASSUME IInv, NEW w \in Workers, NEW v \in Works, NEW f \in Files \cup {NoFile},
           work[w] # NoWork, work' = [work EXCEPT ![w] = v], v.job = work[w].job,
           UNCHANGED <<now, queueVars, zipVars, links, unmailed, dropped>>, faults' \in Nat,
           errors' \in {errors, errors \cup {[job |-> v.job, file |-> f]}},
           WorkOK(v)'
    PROVE  IInv'
  <1>1. work[w].job \in 1 .. Len(jobs)
    BY WorkType
  <1>2. TypeOK'
    BY <1>1 DEF IInv, TypeOK, queueVars, zipVars
  <1>3. \A o \in Workers : work'[o] = IF o = w THEN v ELSE work[o]
    BY DEF IInv, TypeOK
  <1>4. WorksSound' /\ ArchivesSound' /\ LinksSound'
    BY <1>3, ProgressHolds DEF queueVars, zipVars
  <1> QED
    BY <1>2, <1>4 DEF IInv

\* The checks before anything is prepared.
LEMMA CheckHolds == ASSUME IInv, NEW w \in Workers, CheckSpace(w) PROVE IInv'
  <1>0. PICK v : v = [work[w] EXCEPT !.at = "prepare"]
    OBVIOUS
  <1>1. work[w] # NoWork
    BY DEF CheckSpace, At
  <1>2. work[w] \in Works /\ WorkOK(work[w])
    BY <1>1, WorkType
  <1>3. /\ v \in Works /\ v.job = work[w].job /\ v.left = work[w].left /\ v.zip = work[w].zip
        /\ v.at = "prepare"
    BY <1>0, <1>2 DEF Works
  <1>4. work' = [work EXCEPT ![w] = v]
    BY <1>0, <1>2 DEF CheckSpace, IInv, TypeOK, Works
  <1>5. /\ UNCHANGED <<now, queueVars, zipVars, links, unmailed, dropped>> /\ faults' \in Nat
        /\ errors' \in {errors, errors \cup {[job |-> v.job, file |-> NoFile]}}
    BY <1>3 DEF CheckSpace, Fault, Report, mailVars, IInv, TypeOK
  <1>6. WorkOK(v)'
    BY <1>2, <1>3, <1>5 DEF WorkOK, Accounted, MayBeCut, queueVars
  <1> QED
    BY <1>1, <1>3, <1>4, <1>5, <1>6, WorkingHolds

\* The temporary directory is made.
LEMMA TempdirHolds == ASSUME IInv, NEW w \in Workers, MakeTempdir(w) PROVE IInv'
  <1>0. PICK v : v = [work[w] EXCEPT !.at = "files", !.second = now]
    OBVIOUS
  <1>1. work[w] # NoWork
    BY DEF MakeTempdir, At
  <1>2. work[w] \in Works /\ WorkOK(work[w])
    BY <1>1, WorkType
  <1>3. /\ v \in Works /\ v.job = work[w].job /\ v.left = work[w].left /\ v.zip = work[w].zip
        /\ v.at = "files"
    BY <1>0, <1>2 DEF Works, IInv, TypeOK
  <1>4. work' = [work EXCEPT ![w] = v]
    BY <1>0, <1>2 DEF MakeTempdir, IInv, TypeOK, Works
  <1>5. /\ UNCHANGED <<now, queueVars, zipVars, links, unmailed, dropped>> /\ faults' \in Nat
        /\ errors' \in {errors, errors \cup {[job |-> v.job, file |-> NoFile]}}
    BY DEF MakeTempdir, mailVars, IInv, TypeOK
  <1>6. WorkOK(v)'
    BY <1>2, <1>3, <1>5 DEF WorkOK, Accounted, MayBeCut, queueVars
  <1> QED
    BY <1>1, <1>3, <1>4, <1>5, <1>6, WorkingHolds

\* A failed check of the disk space is told.
LEMMA TellHolds == ASSUME IInv, NEW w \in Workers, NEW f \in Files, TellSpace(w, f) PROVE IInv'
  <1>0. PICK v : v = work[w]
    OBVIOUS
  <1>1. work[w] # NoWork /\ work'= work
    BY DEF TellSpace, Fetches, Treats, At
  <1>2. v \in Works /\ WorkOK(v)
    BY <1>0, <1>1, WorkType
  <1>4. work' = [work EXCEPT ![w] = v] /\ v.job = work[w].job
    BY <1>0, <1>1 DEF IInv, TypeOK
  <1>5. /\ UNCHANGED <<now, queueVars, zipVars, links, unmailed, dropped>> /\ faults' \in Nat
        /\ errors' \in {errors, errors \cup {[job |-> v.job, file |-> NoFile]}}
    BY <1>0 DEF TellSpace, Fault, Report, IInv, TypeOK
  <1>6. WorkOK(v)'
    BY <1>2, <1>5 DEF WorkOK, NameOf, Accounted, MayBeCut, queueVars, zipVars
  <1> QED
    BY <1>1, <1>2, <1>4, <1>5, <1>6, WorkingHolds

\* A file is added to the archive, whole or cut off.
LEMMA AddHolds ==
    ASSUME IInv, NEW w \in Workers, NEW f \in Files, AddFile(w, f) \/ CutOff(w, f)
    PROVE  IInv'
  <1>w. PICK whole \in BOOLEAN :
           /\ work' = Added(w, f, whole)
           /\ ~whole => f \in MayBeCut(work[w].job)
    <2>1. CASE AddFile(w, f)
      BY <2>1 DEF AddFile
    <2>2. CASE CutOff(w, f)
      <3>1. f \in work[w].left /\ work[w] # NoWork /\ f \in Remote
            /\ ~jobs[work[w].job].reproj
        BY <2>2 DEF CutOff, Fetches, Treats, At
      <3>2. f \in jobs[work[w].job].files
        BY <3>1, WorkType DEF WorkOK
      <3> QED
        BY <2>2, <3>1, <3>2 DEF CutOff, MayBeCut
    <2> QED
      BY <2>1, <2>2
  <1>0. PICK v : v = [work[w] EXCEPT !.left = @ \ {f},
                                    !.zip = @ \cup {[file |-> f, whole |-> whole]}]
    OBVIOUS
  <1>1. work[w] # NoWork /\ work[w].at = "files" /\ f \in work[w].left
    BY DEF AddFile, CutOff, Fetches, Treats, At
  <1>2. work[w] \in Works /\ WorkOK(work[w])
    BY <1>1, WorkType
  <1>3. /\ v \in Works /\ v.job = work[w].job /\ v.at = "files"
        /\ v.left = work[w].left \ {f}
        /\ v.zip = work[w].zip \cup {[file |-> f, whole |-> whole]}
    <2>1. [file |-> f, whole |-> whole] \in Members
      BY DEF Members
    <2>2. PICK m \in Members : m = [file |-> f, whole |-> whole]
      BY <2>1
    <2>3. v = [work[w] EXCEPT !.left = @ \ {f}, !.zip = @ \cup {m}]
      BY <1>0, <2>2
    <2>4. /\ v \in Works /\ v.job = work[w].job /\ v.at = "files"
          /\ v.left = work[w].left \ {f} /\ v.zip = work[w].zip \cup {m}
      BY <1>1, <1>2, <2>3 DEF Works
    <2> QED
      BY <2>2, <2>4
  <1>4. work' = [work EXCEPT ![w] = v]
    BY <1>w, <1>0, <1>2 DEF Added, IInv, TypeOK, Works
  <1>5. /\ UNCHANGED <<now, queueVars, zipVars, links, unmailed, dropped>> /\ faults' \in Nat
        /\ errors' \in {errors, errors \cup {[job |-> v.job, file |-> f]}}
    <2>1. CASE AddFile(w, f)
      BY <2>1 DEF AddFile, mailVars, IInv, TypeOK
    <2>2. CASE CutOff(w, f)
      BY <2>2 DEF CutOff, Fault, mailVars, IInv, TypeOK
    <2> QED
      BY <2>1, <2>2
  <1>6. WorkOK(v)'
    <2>1. jobs' = jobs /\ errors \subseteq errors'
      BY <1>5 DEF queueVars
    <2>2. Accounted(v.job, f, v.zip)'
      <3>1. CASE whole
        BY <1>3, <3>1 DEF Accounted
      <3>2. CASE ~whole
        BY <1>w, <1>3, <2>1, <3>2 DEF Accounted, MayBeCut
      <3> QED
        BY <3>1, <3>2
    <2>3. ASSUME NEW g \in jobs[v.job].files, g \notin v.left PROVE Accounted(v.job, g, v.zip)'
      <3>1. CASE g = f
        BY <2>2, <3>1
      <3>2. CASE g # f
        <4>1. Accounted(work[w].job, g, work[w].zip)
          BY <1>2, <1>3, <2>3, <3>2 DEF WorkOK
        <4> QED
          BY <1>3, <2>1, <4>1 DEF Accounted, MayBeCut
      <3> QED
        BY <3>1, <3>2
    <2>4. /\ v.left \subseteq jobs[v.job].files /\ v.job \in 1 .. Len(jobs)
          /\ \A m \in v.zip : m.file \in jobs[v.job].files
      BY <1>1, <1>2, <1>3 DEF WorkOK
    <2> QED
      BY <1>3, <2>1, <2>3, <2>4 DEF WorkOK
  <1> QED
    BY <1>1, <1>3, <1>4, <1>5, <1>6, WorkingHolds

\* A file cannot be had.
LEMMA FailHolds == ASSUME IInv, NEW w \in Workers, NEW f \in Files, FileFails(w, f) PROVE IInv'
  <1>0. PICK v : v = [work[w] EXCEPT !.left = @ \ {f}]
    OBVIOUS
  <1>1. work[w] # NoWork /\ work[w].at = "files" /\ f \in work[w].left
    BY DEF FileFails, Treats, At
  <1>2. work[w] \in Works /\ WorkOK(work[w])
    BY <1>1, WorkType
  <1>3. /\ v \in Works /\ v.job = work[w].job /\ v.at = "files"
        /\ v.left = work[w].left \ {f} /\ v.zip = work[w].zip
    BY <1>0, <1>1, <1>2 DEF Works
  <1>4. work' = [work EXCEPT ![w] = v]
    BY <1>0, <1>2 DEF FileFails, IInv, TypeOK, Works
  <1>5. /\ UNCHANGED <<now, queueVars, zipVars, links, unmailed, dropped>> /\ faults' \in Nat
        /\ errors' = errors \cup {[job |-> v.job, file |-> f]}
    BY <1>3 DEF FileFails, Fault, Report, IInv, TypeOK
  <1>6. WorkOK(v)'
    BY <1>1, <1>2, <1>3, <1>5 DEF WorkOK, Accounted, MayBeCut, queueVars
  <1> QED
    BY <1>1, <1>3, <1>4, <1>5, <1>6, WorkingHolds

\* The archive is written.
LEMMA WriteHolds == ASSUME IInv, NEW w \in Workers, WriteArchive(w) PROVE IInv'
  <1>0. PICK v : v = [work[w] EXCEPT !.at = "send"]
    OBVIOUS
  <1>n. PICK n : n = Name(w)
    OBVIOUS
  <1>j. PICK j : j = work[w].job
    OBVIOUS
  <1>1. work[w] # NoWork /\ work[w].left = {}
    BY DEF WriteArchive, At
  <1>2. /\ work[w] \in Works /\ WorkOK(work[w]) /\ n \in Names /\ n = NameOf(work[w])
        /\ j \in 1 .. Len(jobs)
    BY <1>0, <1>n, <1>j, <1>1, WorkType
  <1>3. /\ v \in Works /\ v.job = j /\ v.at = "send" /\ v.left = {} /\ v.zip = work[w].zip
        /\ v.second = work[w].second
    BY <1>0, <1>n, <1>j, <1>1, <1>2 DEF Works
  <1>4. work' = [work EXCEPT ![w] = v]
    BY <1>0, <1>n, <1>j, <1>2 DEF WriteArchive, IInv, TypeOK, Works
  <1>5. /\ archives' = [archives EXCEPT ![n] = work[w].zip]
        /\ writers' = [writers EXCEPT ![n] = @ \cup {j}]
        /\ UNCHANGED <<now, queueVars, mailVars, faults>>
    BY <1>0, <1>n, <1>j DEF WriteArchive
  <1>6. n.recipient = jobs[j].recipient
    BY <1>j, <1>2 DEF NameOf
  <1>7. /\ \A m \in Names : archives'[m] = IF m = n THEN work[w].zip ELSE archives[m]
        /\ \A m \in Names : writers'[m] = IF m = n THEN writers[m] \cup {j} ELSE writers[m]
        /\ \A o \in Workers : work'[o] = IF o = w THEN v ELSE work[o]
    BY <1>4, <1>5 DEF IInv, TypeOK
  <1>8. work[w].zip \in SUBSET Members
    BY <1>0, <1>n, <1>j, <1>2 DEF Works
  <1>9. TypeOK'
    BY <1>2, <1>3, <1>4, <1>5, <1>7, <1>8 DEF IInv, TypeOK, queueVars, mailVars
  <1>10. WorkOK(v)'
    <2>2. jobs' = jobs /\ errors' = errors
      BY <1>5 DEF queueVars, mailVars
    <2>3. n = [recipient |-> jobs[v.job].recipient, second |-> v.second]
      BY <1>j, <1>2, <1>3 DEF NameOf
    <2>4. NameOf(v)' = n
      BY <2>2, <2>3 DEF NameOf
    <2>5. j \in writers'[n]
      BY <1>2, <1>7
    <2>1. NameOf(v)' = n /\ j \in writers'[n]
      BY <2>4, <2>5
    <2> QED
      BY <1>j, <1>1, <1>2, <1>3, <2>1, <2>2 DEF WorkOK, Accounted, MayBeCut
  <1>w. WorksSound'
    <2> SUFFICES ASSUME NEW o \in Workers, work'[o] # NoWork
                 PROVE  \E u : u = work'[o] /\ WorkOK(u)'
      BY DEF WorksSound, WorkOK, NameOf, Accounted, MayBeCut
    <2>1. CASE o = w
      <3>1. v = work'[o]
        BY <1>7, <2>1
      <3> QED
        BY <1>10, <3>1
    <2>2. CASE o # w
      <3>1. PICK u : u = work[o]
        OBVIOUS
      <3>2. work'[o] = u /\ u # NoWork
        BY <1>7, <2>2, <3>1
      <3>3. WorkOK(u) /\ NameOf(u) \in Names
        BY <3>1, <3>2, WorkType
      <3>4. writers[NameOf(u)] \subseteq writers'[NameOf(u)]
        BY <1>7, <3>3
      <3>5. jobs' = jobs /\ errors' = errors /\ NameOf(u)' = NameOf(u)
        BY <1>5 DEF queueVars, mailVars, NameOf
      <3>6. WorkOK(u)'
        BY <3>3, <3>4, <3>5 DEF WorkOK, Accounted, MayBeCut
      <3> QED
        BY <3>2, <3>6
    <2> QED
      BY <2>1, <2>2
  <1>11. ASSUME NEW m \in Names PROVE ArchiveOK(m)'
    <2>1. ArchiveOK(m)
      BY DEF IInv, ArchivesSound
    <2>2. CASE m # n
      BY <1>5, <1>7, <2>1, <2>2 DEF ArchiveOK, Accounted, MayBeCut, queueVars, mailVars
    <2>3. CASE m = n
      <3>1. archives'[m] = work[w].zip /\ writers'[m] = writers[m] \cup {j}
        BY <1>7, <2>3
      <3>2. /\ \A k \in work[w].zip : k.file \in jobs[j].files
            /\ \A f \in jobs[j].files : Accounted(j, f, work[w].zip)
        BY <1>j, <1>1, <1>2 DEF WorkOK
      <3>3. jobs' = jobs /\ errors' = errors
        BY <1>5 DEF queueVars, mailVars
      <3>4. \A i \in writers'[m] : jobs'[i].recipient = m.recipient
        BY <1>6, <2>1, <2>3, <3>1, <3>3 DEF ArchiveOK
      <3>5. \E i \in writers'[m] : \A k \in archives'[m] : k.file \in jobs'[i].files
        BY <3>1, <3>2, <3>3
      <3>6. \A i \in writers'[m] : writers'[m] = {i} =>
               \A f \in jobs'[i].files : Accounted(i, f, archives[m])'
        <4> SUFFICES ASSUME NEW i \in writers'[m], writers'[m] = {i}
                     PROVE  \A f \in jobs'[i].files : Accounted(i, f, archives[m])'
          OBVIOUS
        <4>1. i = j
          BY <3>1
        <4> QED
          BY <3>1, <3>2, <3>3, <4>1 DEF Accounted, MayBeCut
      <3> QED
        BY <3>4, <3>5, <3>6 DEF ArchiveOK
    <2> QED
      BY <2>2, <2>3
  <1>12. LinksSound'
    <2>1. \A l \in links : l.name \in Names /\ l.job \in writers[l.name]
      BY DEF IInv, TypeOK, LinksSound
    <2> QED
      BY <1>5, <1>7, <2>1 DEF LinksSound, mailVars
  <1> QED
    BY <1>9, <1>w, <1>11, <1>12 DEF IInv, ArchivesSound

\* The link is sent.
LEMMA SendHolds == ASSUME IInv, NEW w \in Workers, SendLink(w) PROVE IInv'
  <1>0. PICK v : v = [work[w] EXCEPT !.at = "complete"]
    OBVIOUS
  <1>l. PICK l : l = [job |-> work[w].job, name |-> Name(w)]
    OBVIOUS
  <1>1. work[w] # NoWork /\ work[w].at = "send"
    BY DEF SendLink, At
  <1>2. /\ work[w] \in Works /\ WorkOK(work[w]) /\ Name(w) \in Names /\ Name(w) = NameOf(work[w])
        /\ work[w].job \in 1 .. Len(jobs)
    BY <1>0, <1>l, <1>1, WorkType
  <1>3. /\ v \in Works /\ v.job = work[w].job /\ v.at = "complete" /\ v.left = work[w].left
        /\ v.zip = work[w].zip /\ v.second = work[w].second
    BY <1>0, <1>l, <1>1, <1>2 DEF Works
  <1>4. work' = [work EXCEPT ![w] = v]
    BY <1>0, <1>l, <1>2 DEF SendLink, IInv, TypeOK, Works
  <1>5. /\ links' = links \cup {l} /\ l.job \in writers[l.name] /\ l.name \in Names
        /\ l.job \in 1 .. Len(jobs) /\ l \in [job : 1 .. Len(jobs), name : Names]
        /\ UNCHANGED <<now, queueVars, zipVars, errors, unmailed, dropped, faults>>
    BY <1>0, <1>l, <1>1, <1>2 DEF SendLink, WorkOK
  <1>6. \A o \in Workers : work'[o] = IF o = w THEN v ELSE work[o]
    BY <1>4 DEF IInv, TypeOK
  <1>7. TypeOK'
    BY <1>3, <1>4, <1>5 DEF IInv, TypeOK, queueVars, zipVars
  <1>8. WorkOK(v)'
    BY <1>1, <1>2, <1>3, <1>5 DEF WorkOK, NameOf, Accounted, MayBeCut, queueVars, zipVars
  <1>9. ASSUME NEW u, WorkOK(u) PROVE WorkOK(u)'
    BY <1>5, <1>9 DEF WorkOK, NameOf, Accounted, MayBeCut, queueVars, zipVars
  <1>10. WorksSound'
    <2> SUFFICES ASSUME NEW o \in Workers, work'[o] # NoWork
                 PROVE  \E u : u = work'[o] /\ WorkOK(u)'
      BY DEF WorksSound, WorkOK, NameOf, Accounted, MayBeCut
    <2>1. CASE o = w
      BY <1>6, <1>8, <2>1
    <2>2. CASE o # w
      <3>1. PICK u : u = work[o]
        OBVIOUS
      <3>2. work'[o] = u /\ WorkOK(u)
        BY <1>6, <2>2, <3>1, WorkType
      <3> QED
        BY <1>9, <3>2
    <2> QED
      BY <2>1, <2>2
  <1>11. ArchivesSound'
    BY <1>5 DEF IInv, ArchivesSound, ArchiveOK, Accounted, MayBeCut, queueVars, zipVars
  <1>12. LinksSound'
    BY <1>5 DEF IInv, LinksSound, zipVars
  <1> QED
    BY <1>7, <1>10, <1>11, <1>12 DEF IInv

\* Time passes, or a job becomes free again.
LEMMA EnvironmentHolds == ASSUME IInv, Tick \/ \E j \in grabbed : Release(j) PROVE IInv'
  <1>1. /\ UNCHANGED <<jobs, open, work, zipVars, mailVars>>
        /\ grabbed' \subseteq grabbed /\ faults' \in Nat
    BY DEF Tick, Release, Fault, queueVars, IInv, TypeOK
  <1>2. now' \in Time
    BY DownloadAssumption DEF Tick, Release, Time, IInv, TypeOK
  <1>3. TypeOK'
    BY <1>1, <1>2 DEF IInv, TypeOK, zipVars, mailVars
  <1>4. WorksSound' /\ ArchivesSound' /\ LinksSound'
    BY <1>1, ProgressHolds DEF zipVars, mailVars
  <1> QED
    BY <1>3, <1>4 DEF IInv

\* Every step keeps the invariant.
LEMMA StepHolds == IInv /\ [Next]_vars => IInv'
  <1> SUFFICES ASSUME IInv, [Next]_vars PROVE IInv'
    OBVIOUS
  <1>1. CASE UNCHANGED vars
    <2>1. UNCHANGED <<now, queueVars, work, zipVars, mailVars, faults>>
      BY <1>1 DEF vars
    <2>2. TypeOK'
      BY <2>1 DEF IInv, TypeOK, queueVars, zipVars, mailVars
    <2>3. WorksSound' /\ ArchivesSound' /\ LinksSound'
      BY <2>1, ProgressHolds DEF queueVars, zipVars, mailVars
    <2> QED
      BY <2>2, <2>3 DEF IInv
  <1>2. ASSUME NEW w \in Workers, Step(w) \/ Crash(w) PROVE IInv'
    <2>1. work[w] # NoWork
      BY <1>2 DEF Step, Crash, CheckSpace, MakeTempdir, TempdirDies, TellSpace, TempfileDies,
         AddFile, CutOff, FileFails, Fetches, Treats, WriteArchive, WriteFails,
         SendLink, MailFails, Complete, At
    <2> QED
      BY <1>2, <2>1, CheckHolds, TempdirHolds, TellHolds, AddHolds, FailHolds, WriteHolds,
         SendHolds, EndingHolds DEF Step
  <1> QED
    BY <1>1, <1>2, RequestHolds, GrabHolds, EnvironmentHolds DEF Next

\* The invariant holds in every state.
LEMMA Invariance == Spec => []IInv
  BY InitHolds, StepHolds, PTL DEF Spec

-----------------------------------------------------------------------------
\* Every reachable state of queue, workers and archives is well typed.
THEOREM Typing == Spec => []TypeOK
  <1>1. IInv => TypeOK
    BY DEF IInv
  <1> QED
    BY <1>1, Invariance, PTL

\* A link leads to an archive made for a job of its recipient.
THEOREM LinksAreOwn == Spec => []LinksLeadToOwnFiles
  <1>1. IInv => LinksLeadToOwnFiles
    <2> SUFFICES ASSUME IInv, NEW l \in links
                 PROVE  \E j \in writers[l.name] :
                           /\ jobs[j].recipient = jobs[l.job].recipient
                           /\ \A m \in archives[l.name] : m.file \in jobs[j].files
      BY DEF LinksLeadToOwnFiles
    <2>1. l.job \in writers[l.name] /\ ArchiveOK(l.name)
      BY DEF IInv, LinksSound, ArchivesSound, TypeOK
    <2> QED
      BY <2>1 DEF ArchiveOK
  <1> QED
    BY <1>1, Invariance, PTL

\* A file that is not whole in the archive of a link was told about, or got over HTTP.
THEOREM LinksAreComplete == Spec => []CompleteOrTold
  <1>1. IInv => CompleteOrTold
    <2> SUFFICES ASSUME IInv, NEW l \in links, writers[l.name] = {l.job},
                        NEW f \in jobs[l.job].files
                 PROVE  Accounted(l.job, f, archives[l.name])
      BY DEF CompleteOrTold, Accounted
    <2>1. ArchiveOK(l.name)
      BY DEF IInv, ArchivesSound, TypeOK
    <2> QED
      BY <2>1 DEF ArchiveOK
  <1> QED
    BY <1>1, Invariance, PTL
=============================================================================
