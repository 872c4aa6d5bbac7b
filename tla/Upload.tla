------------------------------- MODULE Upload -------------------------------
(***************************************************************************)
(* Uploads of data files: the web form, which inserts a job for each file, *)
(* the workers that do the jobs (upload_monitor), and the FTP monitor,     *)
(* which takes all files of a dataset in one batch.  Workers and monitor   *)
(* run UploadHelper::process_files: unpack the uploads in a directory of   *)
(* their own, check and digest the parts, move them to the data            *)
(* repository, report, and unlink the uploads.                             *)
(*                                                                         *)
(* Nothing is locked: users replace files while they are processed, jobs   *)
(* of dead workers are done again, and all write the same repository.      *)
(* Test uploads (TAF), which publish nothing, are left out.                *)
(***************************************************************************)
EXTENDS Naturals

CONSTANTS
    WebNames,       \* names of files uploaded with the web form
    FtpNames,       \* and of files put into the FTP area
    Parts,          \* names of the netCDF files that uploads are unpacked to
    Misnamed,       \* those that contain the dataset's name, but do not begin with it
    Contents,       \* what uploaded files may contain
    Datasets,
    DatasetOf,      \* the dataset an upload belongs to by its name
    OwnedDatasets,  \* those get_dataset_institution finds an owner for
    FtpDatasets,    \* those of the ftp_events file
    Workers,
    Monitor,        \* the process of ftp_monitor.pl
    None,
    Faults,         \* the faults that may happen, of AllFaults
    MaxFaults,      \* bound: how many of them happen in a behaviour
    MaxPuts         \* bound: how often a file is put into an upload area

Names == WebNames \cup FtpNames
Processes == Workers \cup {Monitor}

\* crash: a process ends; lease: a job takes more than the hour it was grabbed for;
\* queue: no job can be inserted; move: a file cannot be moved to the repository.
AllFaults == {"crash", "lease", "queue", "move"}

\* What of a content decides about its processing.  broken: it cannot be unpacked,
\* whatever parts it has;
\* gzip: one compressed file; bad: parts that are not netCDF; flawed: parts in
\* which the digest finds user errors.
ContentRecords ==
    [of : Names, no : Nat, form : {"plain", "gzip", "tar", "broken"},
     parts : SUBSET Parts, bad : SUBSET Parts, flawed : SUBSET Parts]

Sound(c) == c.form # "broken" /\ c.bad = {} /\ c.flawed = {}

\* The parts of a content that are digested and moved: the names of uploads begin
\* with their dataset's, but those of tar components need only contain it.
Taken(c) == c.parts \ Misnamed

ASSUME UploadAssumption ==
    /\ WebNames \cap FtpNames = {} /\ Monitor \notin Workers
    /\ Contents \subseteq ContentRecords /\ None \notin Contents
    /\ None \notin Names
    /\ \A c \in Contents : c.bad \subseteq c.parts /\ c.flawed \subseteq c.parts
    /\ Misnamed \subseteq Parts
    /\ \A c \in Contents :
          c.form \in {"plain", "gzip"} => \E p \in Parts \ Misnamed : c.parts = {p}
    /\ DatasetOf \in [Names -> Datasets]
    /\ OwnedDatasets \subseteq Datasets /\ FtpDatasets \subseteq Datasets
    /\ Faults \subseteq AllFaults
    /\ MaxFaults \in Nat /\ MaxPuts \in Nat

VARIABLES
    area,        \* the upload areas: what is in the file of a name
    temp,        \* the file name_, which waits for the user to confirm
    rows,        \* File rows of the user database: last status, and of what
    jobs,        \* the job queue
    problem,     \* the problem directory
    repository,  \* the data repository
    metadata,    \* the level 2 XML files: which content of a part they describe
    pc,          \* where each process is in process_files
    run,         \* and its variables and working directories
    published,   \* history: all that was moved to the repository
    latest,      \* history: the last content put into the upload area
    hindered,    \* history: names whose processing something got in the way of
    torn,        \* history: parts whose move or description was broken off
    contested,   \* history: parts two processes described and moved at the same time,
                 \* with different contents, and none has had for itself since
    puts,        \* number of files put into an upload area
    faultsLeft   \* faults that may still happen

history == <<published, latest, hindered, torn, contested>>
bounds  == <<puts, faultsLeft>>
vars == <<area, temp, rows, jobs, problem, repository, metadata, pc, run, history, bounds>>

Jobs == [no : Nat \ {0}, name : Names]

Reports == [status : {"File accepted", "Errors found"}, content : Contents]

\* files: %files_to_process; job: the number of the job, 0 in a batch; left: files
\* still to be unpacked, or unlinked; flat: the directory work_flat; origin:
\* %orignames; got: what was copied from the upload area; todo: parts still to be
\* treated; errs: user_errors is not empty; out: nc_usererrors.out is not empty.
Runs ==
    [files : SUBSET Names, job : Nat, left : SUBSET Names,
     flat : [Parts -> Contents \cup {None}], origin : [Parts -> Names \cup {None}],
     got : [Names -> Contents \cup {None}], todo : SUBSET Parts,
     errs : BOOLEAN, out : BOOLEAN]

NoRun ==
    [files |-> {}, job |-> 0, left |-> {}, flat |-> [p \in Parts |-> None],
     origin |-> [p \in Parts |-> None], got |-> [u \in Names |-> None], todo |-> {},
     errs |-> FALSE, out |-> FALSE]

Labels == {"idle", "unpack", "check", "describe", "move", "report", "unlink", "end"}

TypeOK ==
    /\ area \in [Names -> Contents \cup {None}]
    /\ temp \in [WebNames -> Contents \cup {None}]
    /\ rows \in [Names -> Reports \cup {None}]
    /\ jobs \subseteq Jobs
    /\ problem \subseteq [name : Names, content : Contents]
    /\ repository \in [Parts -> Contents \cup {None}]
    /\ metadata \in [Parts -> Contents \cup {None}]
    /\ pc \in [Processes -> Labels]
    /\ run \in [Processes -> Runs]
    /\ published \subseteq Parts \X Contents
    /\ latest \in [Names -> Contents \cup {None}]
    /\ hindered \subseteq Names
    /\ torn \subseteq Parts
    /\ contested \subseteq Parts
    /\ puts \in Nat
    /\ faultsLeft \in Nat

Init ==
    /\ area = [u \in Names |-> None]
    /\ temp = [u \in WebNames |-> None]
    /\ rows = [u \in Names |-> None]
    /\ jobs = {}
    /\ problem = {}
    /\ repository = [p \in Parts |-> None]
    /\ metadata = [p \in Parts |-> None]
    /\ pc = [w \in Processes |-> "idle"]
    /\ run = [w \in Processes |-> NoRun]
    /\ published = {}
    /\ latest = [u \in Names |-> None]
    /\ hindered = {}
    /\ torn = {}
    /\ contested = {}
    /\ puts = 0
    /\ faultsLeft = MaxFaults
-----------------------------------------------------------------------------
AtWork(u) == {w \in Processes : pc[w] # "idle" /\ u \in run[w].files}

Unpacked(w) == {p \in Parts : run[w].flat[p] # None}

\* get_dataset_institution knows the dataset.
HasOwner(u) == DatasetOf[u] \in OwnedDatasets

Fault(kind) ==
    /\ kind \in Faults /\ faultsLeft > 0
    /\ faultsLeft' = faultsLeft - 1

PutFile(u, c) ==
    /\ puts < MaxPuts
    /\ area' = [area EXCEPT ![u] = c]
    /\ latest' = [latest EXCEPT ![u] = c]
    /\ hindered' = hindered \cup (IF AtWork(u) = {} THEN {} ELSE {u})
    /\ puts' = puts + 1

\* A failure is only logged, or told to the user, who can do nothing about it.
InsertJob(u) ==
    \/ /\ jobs' = jobs \cup {[no |-> puts', name |-> u]}
       /\ UNCHANGED faultsLeft
    \/ /\ Fault("queue")
       /\ UNCHANGED jobs

\* A file without a File row is new, and goes directly into the upload area.
UploadNew(u, c) ==
    /\ rows[u] = None
    /\ PutFile(u, c)
    /\ InsertJob(u)
    /\ UNCHANGED <<temp, rows, problem, repository, metadata, pc, run, published, torn,
                   contested>>

\* Mutation: the file in the upload area is replaced before the user has agreed.
UploadAgainInPlace(u, c) ==
    /\ rows[u] # None /\ puts < MaxPuts
    /\ temp' = [temp EXCEPT ![u] = c]
    /\ area' = [area EXCEPT ![u] = c]
    /\ UNCHANGED <<rows, jobs, problem, repository, metadata, pc, run, history, bounds>>

UploadAgain(u, c) ==
    /\ rows[u] # None /\ puts < MaxPuts
    /\ temp' = [temp EXCEPT ![u] = c]
    /\ UNCHANGED <<area, rows, jobs, problem, repository, metadata, pc, run, history, bounds>>

Overwrite(u) ==
    /\ temp[u] # None
    /\ PutFile(u, temp[u])
    /\ temp' = [temp EXCEPT ![u] = None]
    /\ InsertJob(u)
    /\ UNCHANGED <<rows, problem, repository, metadata, pc, run, published, torn, contested>>

CancelUpload(u) ==
    /\ temp[u] # None
    /\ temp' = [temp EXCEPT ![u] = None]
    /\ UNCHANGED <<area, rows, jobs, problem, repository, metadata, pc, run, history, bounds>>

\* An FTP client puts a file into the area, or replaces one.
Deposit(u, c) ==
    /\ PutFile(u, c)
    /\ UNCHANGED <<temp, rows, jobs, problem, repository, metadata, pc, run, published,
                   torn, contested, faultsLeft>>
-----------------------------------------------------------------------------
\* Mutation: it is not asked whether the file is there.
MoveBlindlyToProblemdir(u) ==
    /\ area' = [area EXCEPT ![u] = None]
    /\ problem' = problem \cup {[name |-> u, content |-> area[u]]}

\* Files in the problem directory are named by day, number and upload.  Numbers
\* start at 1 in every helper, so that an earlier one of the same upload is
\* overwritten when day and number are the same.  A file that is gone is ignored.
MoveToProblemdir(u) ==
    \/ /\ area[u] = None
       /\ UNCHANGED <<area, problem>>
    \/ /\ area[u] # None
       /\ area' = [area EXCEPT ![u] = None]
       /\ \E old \in {{}} \cup {{f} : f \in {g \in problem : g.name = u}} :
             problem' = (problem \ old) \cup {[name |-> u, content |-> area[u]]}

\* Mutation: the job is taken out of the queue when it is begun.
BeginRemovingJob(w, files, job) ==
    /\ pc' = [pc EXCEPT ![w] = "unpack"]
    /\ run' = [run EXCEPT ![w] = [@ EXCEPT !.files = files, !.left = files, !.job = job]]
    /\ jobs' = {j \in jobs : j.no # job}
    /\ UNCHANGED <<area, temp, rows, problem, repository, metadata, history, puts>>

\* A helper is made for the upload, with no errors yet.
Begin(w, files, job) ==
    /\ pc' = [pc EXCEPT ![w] = "unpack"]
    /\ run' = [run EXCEPT ![w] = [@ EXCEPT !.files = files, !.left = files, !.job = job]]
    /\ UNCHANGED <<area, temp, rows, jobs, problem, repository, metadata, history, puts>>

\* A worker grabs a job that no living process has.
TakeJob(w, j) ==
    /\ pc[w] = "idle" /\ w \in Workers
    /\ \A v \in Processes : run[v].job # j.no
    /\ Begin(w, {j.name}, j.no)
    /\ UNCHANGED faultsLeft

\* The job of a worker that is slow is free again after an hour.
TakeSlowJob(w, j) ==
    /\ pc[w] = "idle" /\ w \in Workers
    /\ \E v \in Processes : run[v].job = j.no
    /\ Fault("lease")
    /\ Begin(w, {j.name}, j.no)

StartBatch(w, d) ==
    LET files == {u \in FtpNames : area[u] # None /\ DatasetOf[u] = d}
    IN  /\ pc[w] = "idle" /\ w = Monitor
        /\ files # {}
        /\ Begin(w, files, 0)
        /\ UNCHANGED faultsLeft

\* An old file in the FTP area that belongs to no dataset.
FileWithNoDataset(w, u) ==
    /\ pc[w] = "idle" /\ w = Monitor
    /\ DatasetOf[u] \notin FtpDatasets /\ area[u] # None
    /\ MoveToProblemdir(u)
    /\ UNCHANGED <<temp, rows, jobs, repository, metadata, pc, run, history, bounds>>

Apart ==
    <<temp, rows, jobs, repository, metadata, published, latest, torn, contested, bounds>>
Others == <<Apart, hindered>>

\* The dataset has no owner: the files are put away, and nobody is told.
DatasetNotInitialized(w, u) ==
    /\ pc[w] = "unpack" /\ u \in run[w].left
    /\ ~HasOwner(u)
    /\ MoveToProblemdir(u)
    /\ run' = [run EXCEPT ![w].left = @ \ {u}]
    /\ pc' = [pc EXCEPT ![w] = IF run[w].left = {u} THEN "end" ELSE @]
    /\ UNCHANGED Others

\* The copy to the working directory fails, and process_files dies.
CopyFails(w, u) ==
    /\ pc[w] = "unpack" /\ u \in run[w].left
    /\ HasOwner(u) /\ area[u] = None
    /\ pc' = [pc EXCEPT ![w] = "end"]
    /\ UNCHANGED <<area, problem, run, Others>>

\* Upload u was copied to the working directory, with these parts and errors.
Copied(w, u, parts, owners, errs) ==
    LET r    == run[w]
        last == r.left = {u}
        flat == [p \in Parts |-> IF p \in parts THEN area[u] ELSE r.flat[p]]
    IN  /\ run' = [run EXCEPT ![w] =
                      [r EXCEPT !.left = IF last THEN r.files ELSE r.left \ {u},
                                !.got = [r.got EXCEPT ![u] = area[u]],
                                !.flat = flat,
                                !.origin = [p \in Parts |-> IF p \in owners THEN u
                                                                            ELSE r.origin[p]],
                                !.todo = {p \in Parts : last /\ flat[p] # None},
                                !.errs = r.errs \/ errs]]
        /\ pc' = [pc EXCEPT ![w] = IF last THEN "check" ELSE @]

\* The uploads of the batch that have parts named as parts of u: what becomes of
\* these may be counted as the other's.
InTheWay(w, u) == {run[w].flat[p].of : p \in area[u].parts \cap Unpacked(w)}

Collides(names) == hindered' = hindered \cup names

CanCopy(w, u, form) ==
    /\ pc[w] = "unpack" /\ u \in run[w].left
    /\ HasOwner(u)
    /\ area[u] # None /\ area[u].form = form

\* gunzip or tar fails, or tar components have names they must not have.
Unreadable(w, u) ==
    /\ CanCopy(w, u, "broken")
    /\ Copied(w, u, {}, {}, TRUE)
    /\ MoveToProblemdir(u)
    /\ UNCHANGED Others

\* Mutation: the archive is not put away.
UnpackTarLeavingIt(w, u) ==
    LET taken == area[u].parts \cap Unpacked(w)
    IN  /\ CanCopy(w, u, "tar")
        /\ Copied(w, u, area[u].parts \ taken, area[u].parts, taken # {})
        /\ Collides(InTheWay(w, u))
        /\ UNCHANGED <<area, problem, Apart>>

\* Components that are there already are not taken, and the archive is put away;
\* but by then it is noted as the upload of all its components, and the others
\* are processed.
UnpackTar(w, u) ==
    LET taken == area[u].parts \cap Unpacked(w)
    IN  /\ CanCopy(w, u, "tar")
        /\ Copied(w, u, area[u].parts \ taken, area[u].parts, taken # {})
        /\ IF taken = {} THEN UNCHANGED <<area, problem>> ELSE MoveToProblemdir(u)
        /\ Collides(InTheWay(w, u))
        /\ UNCHANGED Apart

PlaceFile(w, u) ==
    LET taken == area[u].parts \subseteq Unpacked(w)
        new   == IF taken THEN {} ELSE area[u].parts
    IN  /\ CanCopy(w, u, "plain")
        /\ Copied(w, u, new, new, taken)
        /\ IF taken THEN MoveToProblemdir(u) ELSE UNCHANGED <<area, problem>>
        /\ Collides(InTheWay(w, u))
        /\ UNCHANGED Apart

\* The uncompressed file replaces one of its name, and its upload is noted under
\* the compressed name.
Gunzip(w, u) ==
    /\ CanCopy(w, u, "gzip")
    /\ Copied(w, u, area[u].parts, {}, FALSE)
    /\ Collides(IF InTheWay(w, u) = {} THEN {} ELSE InTheWay(w, u) \cup {u})
    /\ UNCHANGED <<area, problem, Apart>>

\* A part that is not netCDF is removed and its upload put away.  A part whose
\* upload is not known is not looked at.
CheckPart(w, p) ==
    LET r   == run[w]
        u   == r.origin[p]
        bad == u # None /\ p \in r.flat[p].bad
    IN  /\ pc[w] = "check" /\ p \in run[w].todo
        /\ run' = [run EXCEPT ![w] =
                      [r EXCEPT !.todo = r.todo \ {p},
                                !.flat = [r.flat EXCEPT ![p] = IF bad THEN None ELSE r.flat[p]],
                                !.errs = r.errs \/ bad]]
        /\ IF bad THEN MoveToProblemdir(u) ELSE UNCHANGED <<area, problem>>
        /\ UNCHANGED <<pc, Others>>

\* The other processes that have a part of this name to describe or to move.
Rivals(w, p) ==
    {v \in Processes \ {w} : pc[v] \in {"describe", "move"} /\ p \in Unpacked(v)}

\* Of the parts only those named after the dataset are uploaded files; the others
\* are left where they are, until the working directory is removed.  The digest of
\* all writes nc_usererrors.out, and user_errors are appended.
Digest(w) ==
    LET r        == run[w]
        uploaded == Unpacked(w) \ Misnamed
    IN  /\ pc[w] = "check" /\ r.todo = {}
        /\ run' = [run EXCEPT ![w] =
                      [r EXCEPT !.flat = [p \in Parts |-> IF p \in Misnamed THEN None
                                                                        ELSE r.flat[p]],
                                !.todo = uploaded,
                                !.out = r.errs \/ \E p \in uploaded : p \in r.flat[p].flawed]]
        /\ pc' = [pc EXCEPT ![w] = IF uploaded = {} THEN "report" ELSE "describe"]
        /\ contested' = {p \in contested : p \in uploaded => Rivals(w, p) # {}}
              \cup {p \in uploaded : \E v \in Rivals(w, p) : run[v].flat[p] # r.flat[p]}
        /\ UNCHANGED <<area, temp, rows, jobs, problem, repository, metadata, published,
                       latest, hindered, torn, bounds>>

\* Mutation: metadata that are there are kept.
DescribePartOnce(w, p) ==
    LET c == run[w].flat[p]
    IN  /\ pc[w] = "describe" /\ p \in run[w].todo
        /\ metadata' = [metadata EXCEPT ![p] = IF p \in c.bad \/ @ # None THEN @ ELSE c]
        /\ run' = [run EXCEPT ![w].out = p \in c.flawed,
                              ![w].todo = IF @ = {p} THEN Unpacked(w) ELSE @ \ {p}]
        /\ pc' = [pc EXCEPT ![w] = IF run[w].todo = {p} THEN "move" ELSE @]
        /\ UNCHANGED <<area, temp, rows, jobs, problem, repository, history, bounds>>

\* Mutation: the old metadata are read and checked again, as for a level 1 dataset.
DescribePartMerging(w, p) ==
    LET c   == run[w].flat[p]
        old == metadata[p]
    IN  /\ pc[w] = "describe" /\ p \in run[w].todo
        /\ metadata' = [metadata EXCEPT ![p] = IF p \in c.bad THEN @ ELSE c]
        /\ run' = [run EXCEPT ![w].out = p \in c.flawed \/ (old # None /\ p \in old.flawed),
                              ![w].todo = IF @ = {p} THEN Unpacked(w) ELSE @ \ {p}]
        /\ pc' = [pc EXCEPT ![w] = IF run[w].todo = {p} THEN "move" ELSE @]
        /\ UNCHANGED <<area, temp, rows, jobs, problem, repository, history, bounds>>

\* The digest of one part makes its metadata, and writes nc_usererrors.out anew.
\* What cannot be parsed gives a warning in the log.
DescribePart(w, p) ==
    LET c == run[w].flat[p]
    IN  /\ pc[w] = "describe" /\ p \in run[w].todo
        /\ metadata' = [metadata EXCEPT ![p] = IF p \in c.bad THEN @ ELSE c]
        /\ run' = [run EXCEPT ![w].out = p \in c.flawed,
                              ![w].todo = IF @ = {p} THEN Unpacked(w) ELSE @ \ {p}]
        /\ pc' = [pc EXCEPT ![w] = IF run[w].todo = {p} THEN "move" ELSE @]
        /\ UNCHANGED <<area, temp, rows, jobs, problem, repository, history, bounds>>

PartDone(w, p) ==
    /\ pc[w] = "move" /\ p \in run[w].todo
    /\ run' = [run EXCEPT ![w].todo = @ \ {p}]
    /\ pc' = [pc EXCEPT ![w] = IF run[w].todo = {p} THEN "report" ELSE @]
    /\ UNCHANGED <<area, temp, rows, jobs, problem, metadata, latest, puts>>

MovePart(w, p) ==
    LET c == run[w].flat[p]
    IN  /\ PartDone(w, p)
        /\ repository' = [repository EXCEPT ![p] = c]
        /\ published' = published \cup {<<p, c>>}
        /\ torn' = torn \ {p}
        /\ UNCHANGED <<hindered, contested, faultsLeft>>

\* The error is logged, and the part is removed with the working directory.
MoveFails(w, p) ==
    /\ PartDone(w, p)
    /\ Fault("move")
    /\ hindered' = hindered \cup {run[w].flat[p].of}
    /\ torn' = torn \cup {p}
    /\ UNCHANGED <<repository, published, contested>>

Status(w) == IF run[w].out THEN "Errors found" ELSE "File accepted"

\* notify_web_system tells the same of all files, also of those put away.
Report(w) ==
    /\ pc[w] = "report"
    /\ rows' = [u \in Names |-> IF u \in run[w].files
                                THEN [status |-> Status(w), content |-> run[w].got[u]]
                                ELSE rows[u]]
    /\ pc' = [pc EXCEPT ![w] = "unlink"]
    /\ UNCHANGED <<area, temp, jobs, problem, repository, metadata, run, history, bounds>>

\* Whatever is there under the name of the upload is unlinked.
UnlinkUpload(w, u) ==
    /\ pc[w] = "unlink" /\ u \in run[w].left
    /\ area' = [area EXCEPT ![u] = None]
    /\ run' = [run EXCEPT ![w].left = @ \ {u}]
    /\ pc' = [pc EXCEPT ![w] = IF run[w].left = {u} THEN "end" ELSE @]
    /\ UNCHANGED <<problem, Others>>

\* The job is completed, or has failed and is not tried again; the working
\* directories are removed.
EndJob(w) ==
    /\ pc[w] = "end"
    /\ jobs' = {j \in jobs : j.no # run[w].job}
    /\ pc' = [pc EXCEPT ![w] = "idle"]
    /\ run' = [run EXCEPT ![w] = NoRun]
    /\ UNCHANGED <<area, temp, rows, problem, repository, metadata, history, bounds>>

\* A process ends and is started again, in a new working directory.
Crash(w) ==
    /\ pc[w] # "idle"
    /\ Fault("crash")
    /\ torn' = torn \cup (IF pc[w] \in {"describe", "move"} THEN Unpacked(w) ELSE {})
    /\ pc' = [pc EXCEPT ![w] = "idle"]
    /\ run' = [run EXCEPT ![w] = NoRun]
    /\ UNCHANGED <<area, temp, rows, jobs, problem, repository, metadata, published,
                   latest, hindered, contested, puts>>
-----------------------------------------------------------------------------
User ==
    \/ \E c \in Contents : c.of \in WebNames /\ (UploadNew(c.of, c) \/ UploadAgain(c.of, c))
    \/ \E c \in Contents : c.of \in FtpNames /\ Deposit(c.of, c)
    \/ \E u \in WebNames : Overwrite(u) \/ CancelUpload(u)

Unpack(w) ==
    \E u \in Names :
        \/ DatasetNotInitialized(w, u) \/ CopyFails(w, u) \/ Unreadable(w, u)
        \/ UnpackTar(w, u) \/ PlaceFile(w, u) \/ Gunzip(w, u)

ProcessFiles(w) ==
    \/ Unpack(w)
    \/ \E p \in Parts : CheckPart(w, p) \/ DescribePart(w, p) \/ MovePart(w, p)
    \/ Digest(w) \/ Report(w) \/ EndJob(w)
    \/ \E u \in Names : UnlinkUpload(w, u)

FindWork(w) ==
    \/ \E j \in jobs : TakeJob(w, j)
    \/ \E d \in FtpDatasets : StartBatch(w, d)
    \/ \E u \in FtpNames : FileWithNoDataset(w, u)

Failure(w) ==
    \/ Crash(w)
    \/ \E p \in Parts : MoveFails(w, p)
    \/ \E j \in jobs : TakeSlowJob(w, j)

Next ==
    \/ User
    \/ \E w \in Processes : FindWork(w) \/ ProcessFiles(w) \/ Failure(w)

Spec == Init /\ [][Next]_vars

\* The daemons run: a process goes on, and one that is idle finds what there is.
FairSpec == Spec /\ \A w \in Processes : WF_vars(FindWork(w) \/ ProcessFiles(w))
-----------------------------------------------------------------------------
(***************************************************************************)
(* The last content a user put into an upload area does not vanish:        *)
(* process_files unlinks or drops an upload only when it is among the      *)
(* problem files or all its parts went into the repository.  This holds    *)
(* with crashes, jobs done twice and batches, unless the user put it there *)
(* while an earlier one of its name was processed, a move failed, or       *)
(* another upload of the batch had a part of the same name.  Parts of an   *)
(* archive whose names do not begin with the dataset's are lost, though    *)
(* the archive was found to have only allowed names.                       *)
(***************************************************************************)
NothingVanishes ==
    \A u \in Names :
        LET c == latest[u]
        IN  c # None /\ u \notin hindered =>
               \/ area[u] = c
               \/ [name |-> u, content |-> c] \in problem
               \/ \A p \in Taken(c) : <<p, c>> \in published

(***************************************************************************)
(* The level 2 metadata of a part describe the file that is in the         *)
(* repository, except for parts that are being processed or whose          *)
(* processing was broken off, and for files that are not netCDF, which     *)
(* only come through the compressed.  A job that is done again repairs     *)
(* what the first left, whatever was processed meanwhile.  (Of two         *)
(* processes that have a part of the same name at the same time, as when   *)
(* a user replaces an upload while it is processed, one may leave its file *)
(* and the other its metadata, until the part is uploaded again.)          *)
(***************************************************************************)
MetadataMatch ==
    \A p \in Parts :
        \/ metadata[p] = repository[p]
        \/ p \in torn \cup contested
        \/ \E w \in Processes : pc[w] \in {"describe", "move"} /\ p \in Unpacked(w)
        \/ repository[p] # None /\ p \in repository[p].bad

(***************************************************************************)
(* The owner of a sound file uploaded with the web form is not told of     *)
(* errors, whatever the worker did before and whatever was uploaded under  *)
(* that name before.  (The files of an FTP batch share their report.)      *)
(***************************************************************************)
NoFalseAlarm ==
    \A u \in WebNames :
        rows[u] # None /\ rows[u].status = "Errors found" => ~Sound(rows[u].content)

(***************************************************************************)
(* A move to the repository never brings an older content back, nor one    *)
(* the user has not confirmed: what is moved is the last content of its    *)
(* upload, unless the user replaced that while it was processed.           *)
(***************************************************************************)
OnlyLatestIsPublished ==
    [][\A p \in Parts :
          LET c == repository'[p]
          IN  c # repository[p] => c = latest[c.of] \/ c.of \in hindered]_vars

(***************************************************************************)
(* A sound file for which a job was inserted is published and reported as  *)
(* accepted in the end, though workers crash or do its job twice, unless   *)
(* the user replaces it or a move fails.  (An archive with a part whose    *)
(* name does not begin with the dataset's is never published in full.)     *)
(***************************************************************************)
SoundIsAccepted ==
    \A c \in {d \in Contents : d.of \in WebNames /\ Sound(d) /\ Taken(d) = d.parts} :
        LET pending  == area[c.of] = c /\ \E j \in jobs : j.name = c.of
            accepted == /\ rows[c.of] = [status |-> "File accepted", content |-> c]
                        /\ \A p \in c.parts : <<p, c>> \in published
        IN  (pending /\ HasOwner(c.of))
               ~> (accepted \/ latest[c.of] # c \/ c.of \in hindered)

(***************************************************************************)
(* "The file will be moved to the problem_dir_path directory [...]. In     *)
(* addition, the user will be notified with an indication of the nature of *)
(* the error" (UploadHelper): a file that is among the problem files is    *)
(* not reported as accepted.  It is, as soon as one of its parts is good.  *)
(***************************************************************************)
RejectedIsReported ==
    \A f \in problem : rows[f.name] # [status |-> "File accepted", content |-> f.content]
=============================================================================
