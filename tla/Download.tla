------------------------------ MODULE Download ------------------------------
(***************************************************************************)
(* The preparation of downloads: requests for the files in a basket, which *)
(* become jobs of a queue, and the workers that put the files into an      *)
(* archive and mail the recipient a link to it.  Locations that are URLs   *)
(* are fetched over HTTP, and what was fetched of them is never compared   *)
(* with what there is.                                                     *)
(***************************************************************************)
EXTENDS Naturals, Sequences

CONSTANTS
    Files,         \* the locations find_data_locations may find in a basket
    Remote,        \* those that are URLs
    Large,         \* and of them those longer than max_size of the user agent
    Recipients,    \* mail addresses
    Unfit,         \* those that cannot be part of the name of a file
    Workers,
    NoWork, NoFile,
    Requests,      \* what users may ask for
    MaxJobs,       \* bound: jobs
    MaxTime,       \* bound: the time, in seconds
    MaxFaults      \* bound: faults

\* reproj: the files are transformed.
Jobs == [recipient : Recipients, files : SUBSET Files, reproj : BOOLEAN]

Time == 0 .. MaxTime

\* The name of an archive: its recipient and $now of the job.
Names == [recipient : Recipients, second : Time]

\* What archives hold: a file, or as much as came before it was cut off.
Members == [file : Files, whole : BOOLEAN]

\* left: the locations not treated yet; zip: what was added to the archive.
Works ==
    [at : {"check", "prepare", "files", "send", "complete"}, job : Nat \ {0},
     left : SUBSET Files, zip : SUBSET Members, second : Time]

ASSUME DownloadAssumption ==
    /\ NoWork \notin Works
    /\ NoFile \notin Files
    /\ Requests \subseteq Jobs /\ \A r \in Requests : r.files # {}
    /\ Large \subseteq Remote /\ Remote \subseteq Files /\ Unfit \subseteq Recipients
    /\ MaxJobs \in Nat /\ MaxTime \in Nat /\ MaxFaults \in Nat

VARIABLES
    now,         \* the clock
    jobs,        \* the jobs inserted, in order: all there ever were
    open,        \* the numbers of those that are neither completed nor failed
    grabbed,     \* and of those that no other worker can take
    work,        \* what each worker does
    archives,    \* what is in the archives of the download area
    links,       \* mails with a link
    errors,      \* mails with an error
    unmailed,    \* history: jobs that failed because a mail could not be sent
    dropped,     \* history: jobs that died for want of a temporary file or directory
    writers,     \* history: the jobs that wrote an archive of a name
    faults       \* number of faults

queueVars == <<jobs, open, grabbed>>
mailVars  == <<links, errors, unmailed, dropped>>
zipVars   == <<archives, writers>>
vars == <<now, queueVars, work, zipVars, mailVars, faults>>

TypeOK ==
    /\ now \in Time
    /\ jobs \in Seq(Jobs)
    /\ open \subseteq 1 .. Len(jobs) /\ grabbed \subseteq open
    /\ work \in [Workers -> Works \cup {NoWork}]
    /\ archives \in [Names -> SUBSET Members]
    /\ links \subseteq [job : 1 .. Len(jobs), name : Names]
    /\ errors \subseteq [job : 1 .. Len(jobs), file : Files \cup {NoFile}]
    /\ unmailed \subseteq 1 .. Len(jobs) /\ dropped \subseteq 1 .. Len(jobs)
    /\ writers \in [Names -> SUBSET (1 .. Len(jobs))]
    /\ faults \in Nat

Init ==
    /\ now = 0
    /\ jobs = <<>> /\ open = {} /\ grabbed = {}
    /\ work = [w \in Workers |-> NoWork]
    /\ archives = [n \in Names |-> {}]
    /\ links = {} /\ errors = {} /\ unmailed = {} /\ dropped = {}
    /\ writers = [n \in Names |-> {}]
    /\ faults = 0
-----------------------------------------------------------------------------
\* request_download, for the files in the basket that have a location.
RequestDownload(request) ==
    /\ Len(jobs) < MaxJobs
    /\ jobs' = Append(jobs, request)
    /\ open' = open \cup {Len(jobs) + 1}
    /\ UNCHANGED <<now, grabbed, work, zipVars, mailVars, faults>>

Tick ==
    /\ now < MaxTime
    /\ now' = now + 1
    /\ UNCHANGED <<queueVars, work, zipVars, mailVars, faults>>
-----------------------------------------------------------------------------
\* The workers of TheSchwartz.
Grab(w, j) ==
    /\ work[w] = NoWork
    /\ j \in open \ grabbed
    /\ grabbed' = grabbed \cup {j}
    /\ work' = [work EXCEPT ![w] =
          [at |-> "check", job |-> j, left |-> jobs[j].files, zip |-> {}, second |-> now]]
    /\ UNCHANGED <<now, jobs, open, zipVars, mailVars, faults>>

At(w, label) == work[w] # NoWork /\ work[w].at = label

Fault == faults < MaxFaults /\ faults' = faults + 1

\* Mutation: the job is left grabbed.
EndOpen(w) ==
    /\ open' = open \ {work[w].job}
    /\ UNCHANGED grabbed
    /\ work' = [work EXCEPT ![w] = NoWork]

\* completed, or failed: a job is not tried again.
End(w) ==
    /\ open' = open \ {work[w].job}
    /\ grabbed' = grabbed \ {work[w].job}
    /\ work' = [work EXCEPT ![w] = NoWork]

Report(w, file) ==
    /\ errors' = errors \cup {[job |-> work[w].job, file |-> file]}
    /\ UNCHANGED <<links, unmailed, dropped>>

\* After a failed check the recipient is told, and the job goes on.
CheckSpace(w) ==
    /\ At(w, "check")
    /\ work' = [work EXCEPT ![w].at = "prepare"]
    /\ \/ UNCHANGED <<mailVars, faults>>
       \/ Fault /\ Report(w, NoFile)
    /\ UNCHANGED <<now, queueVars, zipVars>>

\* An exception outside of try: the worker prints it, and the recipient is not told.
Die(w) ==
    /\ End(w)
    /\ dropped' = dropped \cup {work[w].job}
    /\ UNCHANGED <<now, jobs, zipVars, links, errors, unmailed>>

Recipient(w) == jobs[work[w].job].recipient

\* $now, and newdir, which dies when there can be no directory of the name, or no more.
MakeTempdir(w) ==
    /\ At(w, "prepare") /\ Recipient(w) \notin Unfit
    /\ work' = [work EXCEPT ![w].at = "files", ![w].second = now]
    /\ UNCHANGED <<now, queueVars, zipVars, mailVars, faults>>

TempdirDies(w) ==
    /\ At(w, "prepare")
    /\ \/ Recipient(w) \in Unfit /\ UNCHANGED faults
       \/ Fault
    /\ Die(w)

Treats(w, f) == At(w, "files") /\ f \in work[w].left

\* make_file_available gets the file over HTTP.
Fetches(w, f) == Treats(w, f) /\ f \in Remote /\ ~jobs[work[w].job].reproj

\* A failed check of the disk space is told before the file is fetched all the same.
TellSpace(w, f) ==
    /\ Fetches(w, f)
    /\ Fault /\ Report(w, NoFile)
    /\ UNCHANGED <<now, queueVars, work, zipVars>>

TempfileDies(w, f) == Fetches(w, f) /\ Fault /\ Die(w)

Added(w, f, whole) ==
    [work EXCEPT ![w].left = @ \ {f}, ![w].zip = @ \cup {[file |-> f, whole |-> whole]}]

\* make_file_available or transform_file, and the file is added.
AddFile(w, f) ==
    /\ Treats(w, f) /\ ~(Fetches(w, f) /\ f \in Large)
    /\ work' = Added(w, f, TRUE)
    /\ UNCHANGED <<now, queueVars, zipVars, mailVars, faults>>

\* The response ends early: at max_size, by a broken connection, or because it cannot
\* be written.  It is a success all the same, and what there is of the file is added.
CutOff(w, f) ==
    /\ Fetches(w, f)
    /\ \/ f \in Large /\ UNCHANGED faults
       \/ Fault
    /\ work' = Added(w, f, FALSE)
    /\ UNCHANGED <<now, queueVars, zipVars, mailVars>>

\* Mutation: the file is left out and nobody is told.
FileIsSkipped(w, f) ==
    /\ Treats(w, f)
    /\ Fault
    /\ work' = [work EXCEPT ![w].left = @ \ {f}]
    /\ UNCHANGED <<now, queueVars, zipVars, mailVars>>

\* The request or the transformation fails, or the file cannot be read.
FileFails(w, f) ==
    /\ Treats(w, f)
    /\ Fault /\ Report(w, f)
    /\ work' = [work EXCEPT ![w].left = @ \ {f}]
    /\ UNCHANGED <<now, queueVars, zipVars>>

\* Mutation: archives are named by the second alone.
NameBySecond(w) == [recipient |-> CHOOSE to \in Recipients : TRUE, second |-> work[w].second]

Name(w) == [recipient |-> Recipient(w), second |-> work[w].second]

WriteArchive(w) ==
    /\ At(w, "files") /\ work[w].left = {}
    /\ archives' = [archives EXCEPT ![Name(w)] = work[w].zip]
    /\ writers' = [writers EXCEPT ![Name(w)] = @ \cup {work[w].job}]
    /\ work' = [work EXCEPT ![w].at = "send"]
    /\ UNCHANGED <<now, queueVars, mailVars, faults>>

\* Mutation: report_error is forgotten.
WriteUntold(w) ==
    /\ At(w, "files") /\ work[w].left = {}
    /\ Fault /\ End(w)
    /\ UNCHANGED <<now, jobs, zipVars, mailVars>>

WriteFails(w) ==
    /\ At(w, "files") /\ work[w].left = {}
    /\ Fault /\ Report(w, NoFile) /\ End(w)
    /\ UNCHANGED <<now, jobs, zipVars>>

SendLink(w) ==
    /\ At(w, "send")
    /\ links' = links \cup {[job |-> work[w].job, name |-> Name(w)]}
    /\ work' = [work EXCEPT ![w].at = "complete"]
    /\ UNCHANGED <<now, queueVars, zipVars, errors, unmailed, dropped, faults>>

\* send_simple_email dies, be it the mail with the link or one with an error that
\* came before, and with it the job.
MailFails(w) ==
    /\ work[w] # NoWork /\ work[w].at # "complete"
    /\ Fault /\ End(w)
    /\ unmailed' = unmailed \cup {work[w].job}
    /\ UNCHANGED <<now, jobs, zipVars, links, errors, dropped>>

Complete(w) ==
    /\ At(w, "complete")
    /\ End(w)
    /\ UNCHANGED <<now, jobs, zipVars, mailVars, faults>>

Crash(w) ==
    /\ work[w] # NoWork
    /\ Fault
    /\ work' = [work EXCEPT ![w] = NoWork]
    /\ UNCHANGED <<now, queueVars, zipVars, mailVars>>

Held(j) == \E w \in Workers : work[w] # NoWork /\ work[w].job = j

\* grab_for is over: the worker is dead, or needs more than an hour.
Release(j) ==
    /\ j \in grabbed
    /\ grabbed' = grabbed \ {j}
    /\ \/ ~Held(j) /\ UNCHANGED faults
       \/ Held(j) /\ Fault
    /\ UNCHANGED <<now, jobs, open, work, zipVars, mailVars>>

Step(w) ==
    \/ CheckSpace(w) \/ MakeTempdir(w) \/ TempdirDies(w)
    \/ \E f \in Files :
          \/ TellSpace(w, f) \/ TempfileDies(w, f)
          \/ AddFile(w, f) \/ CutOff(w, f) \/ FileFails(w, f)
    \/ WriteArchive(w) \/ WriteFails(w) \/ SendLink(w) \/ MailFails(w) \/ Complete(w)

Next ==
    \/ \E request \in Requests : RequestDownload(request)
    \/ Tick
    \/ \E w \in Workers : Step(w) \/ Crash(w) \/ \E j \in open : Grab(w, j)
    \/ \E j \in grabbed : Release(j)

Spec == Init /\ [][Next]_vars

(***************************************************************************)
(* TheSchwartz gives a job that is due to a worker, the worker goes on     *)
(* with it, and an hour passes.                                            *)
(***************************************************************************)
Fairness ==
    /\ \A w \in Workers : WF_vars(Step(w))
    /\ WF_vars(\E w \in Workers, j \in open : Grab(w, j))
    /\ WF_vars(\E j \in grabbed : ~Held(j) /\ Release(j))

FairSpec == Spec /\ Fairness
-----------------------------------------------------------------------------
(***************************************************************************)
(* The archive a link leads to is there, and was made for a job of the     *)
(* recipient of the link, even when jobs of one second write archives      *)
(* meanwhile.                                                              *)
(***************************************************************************)
LinksLeadToOwnFiles ==
    \A l \in links : \E j \in writers[l.name] :
        /\ jobs[j].recipient = jobs[l.job].recipient
        /\ \A m \in archives[l.name] : m.file \in jobs[j].files

\* What may be cut off without anybody noticing: files the job got over HTTP.
MayBeCut(j) == IF jobs[j].reproj THEN {} ELSE jobs[j].files \cap Remote

(***************************************************************************)
(* A file that was in the basket and is not in the archive the link of the *)
(* job leads to was told about in a mail, whatever failed; and what is     *)
(* there of it is the whole file, unless it was got over HTTP.  All this   *)
(* unless another job of the recipient in the same second wrote an archive *)
(* of the name.                                                            *)
(***************************************************************************)
CompleteOrTold ==
    \A l \in links : writers[l.name] = {l.job} =>
        \A f \in jobs[l.job].files :
            \/ [file |-> f, whole |-> TRUE] \in archives[l.name]
            \/ [job |-> l.job, file |-> f] \in errors
            \/ f \in MayBeCut(l.job) /\ [file |-> f, whole |-> FALSE] \in archives[l.name]

Told(j) == (\E l \in links : l.job = j) \/ (\E e \in errors : e.job = j)

(***************************************************************************)
(* Every job ends, and its recipient was sent a link or an error, unless   *)
(* mail could not be sent, or there could be no temporary file or          *)
(* directory.                                                              *)
(***************************************************************************)
EveryJobIsAnswered ==
    \A j \in 1 .. MaxJobs :
        j \in open ~> j \notin open /\ (Told(j) \/ j \in unmailed \cup dropped)
=============================================================================
