# TLA+ models of METAMOD

METAMOD is a web portal for metadata search and data upload. This directory holds TLA+
modules of its core, the TLC configurations that check them on small instances, and TLAPS
proofs. Paths below are relative to the repository.

## 1. The system

| Component | Code | State it keeps | Operations | Interacts with |
|---|---|---|---|---|
| OAI-PMH data provider | `common/lib/Metamod/OAI/DataProvider.pm`, `catalyst/lib/MetamodWeb/Controller/OAI.pm` | files of `WEBRUN_DIRECTORY/resumption_tokens` | ListRecords (new list, next page), ListIdentifiers, GetRecord, Identify, ListSets, ListMetadataFormats | reads the DataSet table and the metadata files; answers harvesters |
| OAI-PMH harvester | `harvest/scripts/harvester.pl` | row of HarvestStatus per source | `do_harvest` on a cron schedule | requests to sources; writes through ForeignDataset |
| Metadata files and importer | `common/lib/Metamod/ForeignDataset.pm`, `DatasetImporter.pm`, `base/scripts/import_dataset.pl` | `.xmd`/`.xml` pairs, DataSet table and its dependants | `writeToFile`, `write_to_database` | called by everything that writes metadata; activates subscriptions |
| Writers of metadata | `QuestionnaireUtils.pm` (for the editor, `MetadataEditor.pm`), `Admin/DatasetManager.pm`, `common/lib/MetNo/NcDigest.pm` | none of their own | edit, digest, change of status or owner | `writeToFile` |
| Upload processing | `common/lib/Metamod/UploadHelper.pm`, `Queue/Worker/Upload.pm`, `Queue/Job/Upload.pm`, `upload/scripts/{upload,ftp}_monitor.pl` | upload area, work directory of a process, problem files, data repository | `process_files` for a web upload (job) or an FTP batch (cron) | job queue, NcDigest, user database, mail |
| Web upload | `catalyst/.../Restricted/Upload.pm` | uploaded and temporary files | upload, confirm or cancel overwriting, test a file | inserts jobs |
| Job queue | `common/lib/Metamod/Queue.pm` (TheSchwartz) | jobs | insert, grab, complete, fail | web upload, basket, workers |
| Subscriptions | `common/lib/Metamod/Subscription.pm`, `SubscriptionHandler/*`, `Restricted/Subscription.pm` | InfoUDS rows of the user database | subscribe, cancel, delete a user; push a new file to the subscribers | called by `writeToFile` |
| Collection basket | `catalyst/.../Utils/CollectionBasket.pm`, `Search/CollectionBasket.pm` | a cookie, and rows of the user database | add, remove, empty, merge, replace; login and logout | every request of the search pages; inserts jobs for downloads |
| Download preparation | `Queue/Job/PrepareDownload.pm`, `Queue/Worker/PrepareDownload.pm` | archives of the download area | `prepare_download` | job queue, mail |
| Map viewer in the browser | `catalyst/root/static/js/TimeSlider.js`, `WMS*.js` | visible layers, their times, the slider, interval timers | `drawMap`, sections of the accordion, slider, slideshow | a map context the server sends |
| User database | `common/lib/Metamod/mmUserbase.pm` | users, datasets, files; cursors of a connection | get/put/find by cursor | upload, subscriptions, basket |
| Search, web services, login, administration, transformers, geometry, configuration, THREDDS | rest of `catalyst/lib`, `common/lib`, `base`, `thredds` | sessions, single rows | queries, presentation, conversion | database |

What is hard here: lists are delivered in pages from a table that changes meanwhile; the
harvester's memory is a single time stamp that decides what is never asked for again; files
and database are written one after the other, with no transaction around both; many processes
(web server, workers, daemons) write the same files and rows; the datestamp of a change is up
to the writer; errors are turned into returns, evals and log lines at many places; a walk over
rows and a basket in two places have no transaction around them either; a job may be
done twice; and the viewer has several callbacks on one state.

What makes the components correct:
* provider: a client that follows its tokens gets the whole list, once, and gets to its end;
  what it is told about a record is true of the record;
* harvester: what it will not ask for any more is already copied, or was passed over in one of
  the ways the code does not notice; a copy never regresses; it converges when the source
  becomes quiet;
* writers with the harvester: a change gets a datestamp that a harvester asks for;
* importer: a committed import is all of one version of a dataset, and the database
  ends up with what the files say;
* upload: a file that is taken ends in the repository or among the problem files, is
  reported once and correctly, and is never lost by a restart;
* subscriptions: every subscriber of a dataset gets each new file, and nobody else does;
* basket: what a page showed is what the next one finds, and limits are kept;
* download: a link leads to the recipient's files, what is missing was told, a file is whole, every
  job is answered;
* viewer: all visible layers show the time of the slider, which is one of theirs; a
  slideshow goes on, and can be stopped.

`PROJECT.json` lists the hazards by line, with the properties that cover them.

## 2. The modules

```
OaiCommon            clock, identifiers, responses
 |-- OaiProvider     the data provider           <- MCOaiProvider
 |-- Harvester       the harvester (no Next of its own)
 |    |-- OaiSource  Harvester + an ideal OAI-PMH repository   <- OaiSource_proofs
 |-- OaiSync         OaiProvider + Harvester + the writers of metadata  <- MCOaiSync, OaiSync_proofs
Catalogue            what an import promises
 |-- Importer        the importer, which implements it  <- MCImporter, Importer_proofs
Upload               web form, job queue, workers, FTP monitor  <- MCUpload, Upload_proofs
Subscriptions        web requests and the activation <- MCSubscriptions, Subscriptions_proofs
Basket               the collection basket of a browser  <- MCBasket, Basket_proofs
Download             requests, queue, workers, archives, mails  <- MCDownload, Download_proofs
WmsViewer            the map viewer              <- MCWmsViewer, WmsViewer_proofs
```

**OaiCommon.** The database's `now()` and Perl's clocks are one discrete clock; a day is
`DayLength` instants, since the harvester sends only the date of a time stamp.

**OaiProvider.** State: the DataSet rows that can be exported (`ds`; `ds_parent = 0`), the
token files (`tokens`), and for each client where its request is (`pc`), the request, what the
count query decided (`plan`) and the response (`reply`). A request is three steps, because
imports of other processes get between them: the request itself (`BeginWalk`, `Resume`), the
count with the creation of the next token (`CountList`, or `RejectToken`), and the query of the
rows with the response (`FetchPage`). `Import` is one committed `write_to_database`; it keeps
the ds_id (`_get_dsid`) and takes whatever datestamp the file has. `CleanToken` is the clean-up
of token files the code expects from outside. The variables `seen`, `repeated`, `stayed` and
`moved` are history: they record what a client was given and how its list changed during the
walk, and no step of the system reads them.

**Harvester.** State: HS_time, the open transaction of the shared database handle (its
beginning is what `now()` returns in `updatestatus`), the records of the page being processed,
the next token, the file pairs and the local rows. `StartHarvest` is the first request,
`Receive` the parsed response, then record by record `RejectRecord`, `SkipRecord`, or
`WriteFile` followed by `ImportFile`; at the end of a page `FollowToken` or `FinishList`.
`BadResponse`, `EmptyResponse`, the failing branches of `WriteFile`, `ImportFile` and
`FinishList`, and `Crash` are the faults; which of them may happen, and how often, is a
constant, so that a run can say under which faults a property holds.

**OaiSource** puts the harvester beside a repository that keeps to OAI-PMH (an assumption about
other people's software): a change gets the time of the change as datestamp, a list is fixed
when it is asked for. `asked` and `lost` are history. `lost` holds the records `harvester.pl`
passes over without noticing: the rest of a list it takes for complete, a record whose import
failed, and, when a harvest runs past midnight, what changed between its first request and the
day of the HS_time it notes.

**OaiSync** puts the harvester beside METAMOD's own provider, whose rows are changed
by METAMOD's writers, each with the datestamp its code gives: the editor the current time, the
digest of a new dataset the time its `Metamod::Dataset` was made, the digest of an existing one
and the dataset manager the old datestamp. A digest holds the info it has read until it writes
it back. `Writers` says which of them a dataset has. The history `astray` holds the datasets the
provider misled the harvester about: records of a later page presented as deleted (finding 1), and
those a list that moved between two pages left out.

**Catalogue** is the abstract specification of the index database: the committed DataSet rows.
A dataset is added with an unused ds_id and, on level 2, with the ds_id of a parent that is
there; later it only gets other versions.

**Importer** is `writeToFile` (job kind `write`) and `import_dataset.pl` (kind `import`) in any
number of processes. The steps of a process, by its `pc`: `open`, `lock` and `write` are
`_writeToFileHelper`; `read` is `newFromFile`; `dsid`, `delete` (`blocked`), `parent`, `insert`
and `extra` are the statements of `write_to_database`'s transaction in their order, `commit`
its end; `notify` is the activation of subscriptions. `files` and `holder` are the
file pairs and their `flock`; `index`, `sru`, `oai` and `nextId` the committed DataSet rows with
what depends on them, `sru.products`, OAIInfo and the sequence; `tx` what a transaction has
read, deleted and inserted and nobody else sees. PostgreSQL is modelled by what the code can
observe at READ COMMITTED (its default, which METAMOD does not change): a statement sees what
was committed when it began; a DELETE of a row another transaction has deleted waits, and
deletes nothing if that one commits; an INSERT waits for transactions that hold the same
unique key, and fails if the key is there in the end; a sequence is never rolled back. A version
of the files is its number, whether its status is active, and whether its ownertag is one of
SRU2JDBC_TAGS; `Torn` is a pair that was created or truncated and not written. A file pair
and a DS_name belong together, which is what all writers do. `hindered` is
history: it notes that another job, a fault or a missing parent got in the way of a dataset.

**Upload** is the way of a data file from its user to the repository. The web form puts it into the
upload area (`area`) and inserts a job (`UploadNew`), or keeps it in a file `name_` (`temp`) until
the user confirms (`UploadAgain`, `Overwrite`, `CancelUpload`); whether a name is new is decided by
the File row of the user database (`rows`), which `notify_web_system` writes at the end of a job. An
FTP client writes into the area directly (`Deposit`). Workers take jobs one by one; the FTP monitor
takes all files of a dataset as one batch. Both run `process_files`, whose sections are the labels
of `pc`: `unpack` (copy, gunzip, tar; one upload after the other), `check` (is each part netCDF;
then the digest of all of them), `describe` (the digest of one part after the other, which writes
its metadata), `move` (to the repository), `report`, `unlink`, and `end` (the job is completed, or
has failed). `run` holds the variables of `process_files` and what is in the working directory of
the process: `flat` is `work_flat`, `origin` is `%orignames`, `errs` is whether `user_errors` has
anything, `out` whether `nc_usererrors.out` has, which alone decides about the report (`Status`).
`move_to_problemdir` is part of the steps that call it. A file is a record of what decides about its
processing: its form, its parts, which of them are not netCDF (`bad`), and in which the digest finds
errors (`flawed`). `Misnamed` are part names that contain their dataset's without beginning with it:
as components of an archive they pass `validate_tar_components` (`UploadHelper.pm:1318`), but
`Digest` takes only the others (622), so that they go with the working directory (`Taken`). Which
datasets have an owner is a constant. TheSchwartz is modelled by what the workers see: a job is
one's own for an hour, stays in the queue when its worker dies, and is not tried again when it
failed. `published`, `latest`, `hindered`, `torn` and `contested` are history; `hindered` notes the
names whose user replaced a file while one of that name was processed, whose move failed, and those
of a batch that have a part named as one of another upload (`InTheWay`): the two share a place in
`work_flat` and in `%orignames`. `torn` holds parts whose move failed or whose process died on the
way, until one is moved again; `contested` those that two processes had with different contents
after their digests of all parts, and none has had for itself since.

**Subscriptions** is the InfoUDS rows of one dataset. `Post` is the search of
`update_or_create` and `Create` its insert, two statements of a web request; `Cancel`,
`DeleteUser` (with the cascade) and `InsertSMS` change the rows too. The activation for a new file
reads all ids first (`Activate`) and then row by row through the cursor of mmUserbase
(`ReadRow`, `RowGone`); `Collect` and `LeaveAll` are the body of the do-while of
`_get_subscriptions`, `Push` and `PushFails` the two handlers. `LeaveAll` is Perl's
`next` in a do-while, which leaves all subroutines up to a loop of a caller. `present`,
`cancelled`, `refused` and `raced` are history.

**Basket** is the basket of one browser: `cookie`, and `stored`, the BASKET rows of a user who is
logged in. InfoU has no key on user and type (`createuserdb.sh:99`), so there may be two. A request
finds cookie and first row together (`FoundBaskets`; `first()` has no order, so it is either row),
works on its own copy (`Handle`), and writes the copy back when its stash is destroyed, whatever it
was for; so all requests of the search pages are writers, and `View` is one of them. For a user the
write (`update_basket`) is three statements: `FindRow`, `CreateRow` if there was none, `UpdateRow`.
`Respond` is the response with the cookie, which a guest's request sets and a user's removes. What a
search matches is a choice of subsets within the limits (`Matching`), because the query has no
order. `shown`, `trusted` and `raced` are history; `raced` notes that a user without a row began a
request while another one of his was under way. Only then can there be two rows, of which every
later request finds and writes any.

**Download**: a request for the files of a basket (`RequestDownload`), jobs that a worker grabs for
an hour (`Grab`, `Release`), and `prepare_download` in steps: `CheckSpace`; the temporary directory
(`MakeTempdir`); for each location `AddFile`, `CutOff` or `FileFails`; `WriteArchive` under a name
made of recipient and second; the mail with the link; `Complete`. Locations that are URLs (`Remote`) are
fetched over HTTP when nothing is to be transformed, after another check of disk space (`TellSpace`)
and into a temporary file. All that is asked of the response is whether it is a success, which it also
is when it ends early, at `max_size` (`Large`), by a broken connection or on a full disk: `CutOff` adds
what there is of the file. So the members of an archive say whether they are whole. An exception
outside of `try` kills the job, and the worker only prints it: `TempdirDies` (for lack of space, or
because the address, which is part of the name of the directory, cannot be: `Unfit`), `TempfileDies`,
and `MailFails`, which may come with any mail. Jobs are not tried again. `writers`, `unmailed` and
`dropped` are history.

**WmsViewer** is the page with the map: `view` is the OpenLayers map and the slider, `open` and
`sticky` the accordion, `intervals` the timers the browser has and `slideshow` the one the script
knows. A callback runs to its end, so each is one action, with all the events it fires:
`SetVisibility` sends a change of layers, which collects the visible layers, computes
their common times and makes a new slider (`LayerChange`), whose first value is sent to the layers
(`ValueChange`). While the user drags the handle, jQuery UI tells nobody of other moves. The
accordion tells of a new section when its animation is over, when the user may hold the handle:
`OpenSection` destroys the slider under it, and jQuery UI (`_mouseDestroy`) lets go of the mouse.
`DrawMap` is tried once; when the first layer has no times it may die in the middle, which depends on
whether the layer has dimensions at all.

Operators preceded by `Mutation:` are wrong variants of the definition that follows them, of
the kind an edit of the code could introduce. `PROJECT.json` pairs each property with
one, and TLC finds the property violated by it.

## 3. The runs

| Run | Shows | Bounds |
|---|---|---|
| `oai_provider` | `PagingComplete`, `RepeatsOnlyAfterChange`, `WalkEnds` with every interleaving of imports, requests, token clean-up and time | 3 datasets, pages of 1, 2 instants, a query for one instant, 1 client |
| `oai_provider_resumed` | `DeletedMeansDeleted` fails: finding 1 | same |
| `oai_source` | `OnlyLostAreMissed`, `CopyNeverRegresses`, `EventuallyMirrored` with every fault and across midnight | 2 records, 3 instants in 2 days, one fault of nine kinds |
| `oai_source_bad_record` | `CheckpointSound` fails after a record that cannot be used: finding 2 | same, this fault only |
| `oai_sync` | `SyncCheckpointSound` with all four writers, sets, validation, pages and expiring tokens | 2 datasets, pages of 1, 3 instants in 2 days, no harvest across midnight, no faults |
| `importer` | `ImplementsCatalogue`, `UndisturbedImportsMirror`, `ToldOfIndexed`, `JobsEnd` | 2 processes, 3 jobs, a parent and a child, an active and a deleted version, one fault of four kinds |
| `upload` | `NothingVanishes`, `MetadataMatch`, `NoFalseAlarm`, `OnlyLatestIsPublished`, `SoundIsAccepted` | 2 workers and the FTP monitor, 9 contents of 5 names, 4 parts of which one is misnamed, 2 uploads, one fault of four kinds |
| `upload_reported` | `RejectedIsReported` fails: finding 3 | same, 1 upload, no faults |
| `subscriptions` | `OnlyHinderedMiss`, `OnlySubscribersAreServed`, `DoubledOnlyByRace` | 2 users, 2 requests, 2 rows, 2 activations; a valid and an invalid address, usable and useless transfer parameters; symmetric in users and requests |
| `basket` | `BasketIsKept`, `NeverOverfilled` | a dataset with 2 files of sizes 1 and 2 and one that is only shown on maps; 2 bytes, 2 files (1 for guests); 2 requests at a time, 4 in all; symmetric in the slots |
| `download` | `LinksLeadToOwnFiles`, `CompleteOrTold`, `EveryJobIsAnswered` | 4 requests of 3 recipients, one of them unfit, for a local and a remote file that is longer than `max_size`; 2 workers, 2 jobs, 2 seconds, one fault of any kind |
| `wms_viewer` | `LayersFollowSlider`, `LayersKeepOwnTimes`, `StopMissesOnlyOvertaken`, `ShowsAllTimes` | 3 layers, 3 times, 2 slideshows; contexts in which layers share all, some or no times, have none, or have no default |

The bounds are enough for the cases that matter: with three datasets and pages of one, a walk has a
first, a middle and a last page, and a list can grow, shrink to one page or vanish between any two
of them and between the two queries of a page. A query for a single instant lets an import move a
dataset into and out of the list in either direction (a real query has an open end; a change of
owner tag or the `until` argument is what moves datasets out of it). Clients do not interact except
through token files, which each creates for itself, so one is enough for TLC; the proofs are for any
number, and in `OaiSync_proofs` the harvester is one of them. For the harvester, three instants in
days of two give harvests on the same and on a later day than a change, and one that runs past
midnight; two records are needed for a page to have something after the record at which a harvest
breaks off. One fault per behaviour shows each of them at each point; `EventuallyMirrored` is about
what happens after the last one. In `oai_sync` the first dataset is made from data files and changed
by the manager, the second one by an editor: every writer changes a dataset while the harvester is
between two pages.

For the importer, two processes can meet in every pair of steps of one dataset or of parent and child,
and a third job follows, on what they left: it shows whether an undisturbed import
repairs it. More processes only wait for the same locks; the proofs are for any number.

For uploads, two files of one name show a replacement at every point of the processing of the first,
and two of different names an FTP batch; one fault and two workers show every job done again by
another, at the same time or afterwards. The contents have a sound, a flawed and a mixed one under
one name of the form, archives and compressed files whose parts collide with other uploads of the
batch, a part that comes by the form and by FTP, so that a worker and the monitor have it at once, a
broken archive with a part, an archive with two sound parts and a misnamed one, a file of a dataset
without an owner and one of no dataset.

Two subscriptions are the fewest of which one hinders the other, and two activations the fewest of
which the second could be given something the first has left. Two requests overlap in every way two
can, statement by statement; a third and a fourth find what they left of a basket, which takes four
to see two rows go apart: two that race, one that is alone, and one that finds the other row. The
dataset on maps fits with either file, but not with both; a file fits alone by its size, the larger
one only when the dataset is added, and the two do not fit together. Two jobs meet in one archive
when they are of one recipient and second, and are apart otherwise. Three layers give two with
common times beside a third without, three times a slider with a middle.

Deadlock is not checked where the system may stop: the importer when all jobs are done (`JobsEnd`
says they are), uploads and downloads when everything is processed and the bounds are reached
(`SoundIsAccepted`, `EveryJobIsAnswered`), users who do not come back to a basket or a subscription,
and a viewer whose map was not drawn. It is checked for provider, source and sync.

Assumptions a run makes:
* `oai_sync`: no harvest runs across midnight (`QuietMidnight`), and nothing fails; both are what
  `oai_source` is for. The harvester's default schedule is 04:30. `SyncCheckpointSound` is about
  datasets imported on the day of their datestamp: the manager and the digest of existing datasets
  import old datestamps, which no harvester asks for, and a digest may take past midnight.
* `PagingComplete` allows a dataset to be missed when one with a smaller ds_id entered or left
  the list during the walk: that is what paging by offset does.
* `UndisturbedImportsMirror` speaks of the last job of a dataset that nothing got in the way of,
  and of the product of datasets with a listed ownertag; see the remarks of section 5.
* `NothingVanishes` and `OnlyLatestIsPublished` make an exception of names that are `hindered`.
  Nothing is locked, and a user who replaces a file while it is processed can lose the new one
  (`UploadHelper.pm:876` unlinks whatever is under the name, after the report that allows the user
  to send it again). So can a failed move to the repository: the file goes with the working
  directory, and is reported as accepted all the same. And so can a batch in which two uploads have
  a part of one name. Of an archive, `NothingVanishes` is about the parts named after their dataset,
  and `SoundIsAccepted` about archives that have no others: what happens to these is said in section
  5.
* `MetadataMatch` makes an exception of parts that are `torn` or `contested`: each process describes
  its parts first and moves them afterwards, so of two with different contents of a part one may
  leave the file and the other the metadata, until the part is processed by one process alone.
* In a batch, the errors of one file are reported for all, so `NoFalseAlarm` is about files of the
  form.
* `BasketIsKept` is about requests that no other one overlapped: every request writes back what it
  found. A user with two rows (`raced`) may be shown either of them, one of which is the right one.
* `CompleteOrTold` is about archives one job wrote, and allows files that were got over HTTP to be
  cut off. `EveryJobIsAnswered` makes an exception of jobs that died for want of mail or of a
  temporary file or directory, whose recipients nobody tells. Both are in section 5.
* `OnlyHinderedMiss` names what makes subscribers miss a file, `StopMissesOnlyOvertaken` what makes a
  slideshow unstoppable. These are what the code does.
* A step of a process (the copy of a file, a digest, a move, an insertion of a job with the file it is
  for, a browser callback) is atomic. Between the steps everything may happen.
* The times of one layer of a map are distinct.

Fairness. `WalkEnds`: the web server answers a request (`WF` of `Server`) and the client under study
follows its tokens (`WF` of `Resume`, which is `do_harvest`'s loop). `EventuallyMirrored`: POE's
cron starts every harvest, the loop of `do_harvest` runs on, the source answers, and time passes
(`WF` of each). Nothing is assumed about imports, faults or token clean-up. `JobsEnd`: the processes
of the importer run on (`SF` of `Work`). It is strong because file and row locks are queues: one who
waits for a lock that is free again and again gets it. Nothing makes a job begin. `SoundIsAccepted`:
a daemon runs on, and an idle one finds the work there is (`WF` of `FindWork` or `ProcessFiles`):
workers poll the queue, and the FTP monitor looks into its area every hour. `EveryJobIsAnswered`: a
worker goes on with its job, some worker grabs a job that is due, and the hour of a dead worker's
job passes (`WF` of `Step`, `Grab` and that `Release`). `ShowsAllTimes`: the browser calls
`drawMap`, and an interval timer fires again and again (`WF` of `DrawMap` and `Tick`); it is about a
user who leaves the slider alone from some point on. Users and faults are not fair, and a crashed
daemon is one that is started again.

## 4. The proofs

Every theorem is about all values of the constants that satisfy the assumptions of its module. In
each case TLC has checked the invariant on the small instance before it was proved. None of the
properties is inductive by itself: each depends on what an actor did several steps ago, and the
invariant says what it has done.

**`OaiSync_proofs`**, the provider: `ProviderTypeCorrect` (`Spec => []TypeOK`), `WalksAreComplete`
(`Spec => []PagingComplete`), `PagesAreDisjoint` (`Spec => []RepeatsOnlyAfterChange`).
`PagingComplete` says nothing of a walk that goes on. The invariant `WalkInv` adds, for each client,
how far its walk has come: every dataset that stayed in the list, and below which nothing moved, is
either delivered or has a rank in the current list not below the offset of the next page. The
argument of a step is then about ranks. An import of a dataset leaves the ranks of smaller ones
alone (`ImportKeepsRank`), so a dataset with a stable prefix keeps its page; the page that covers
its rank delivers it (`PageRowsMatch`); and a walk without a further token covers the whole list,
because ranks have no gaps (`RankWithoutGaps`, by the well-ordering of `Ids`) and are below its size
(`RankBounds`). `RepeatsOnlyAfterChange` needs an invariant of its own, `PrefixInv`: while nothing
moved, what was delivered is exactly what has a rank below the offset of the page under way, and a
list of which a page was delivered is longer than a page, so that the next one is cut off at the
offset too.

The provider with the harvester and the writers: `SyncTypeCorrect` (`SyncSpec => []SyncTypeOK`) and
`CheckpointIsSound` (`SyncSpec => []SyncCheckpointSound`). The two components agree through one
client of the provider, so the first invariant, `BaseInv`, contains `WalkInv` for all clients and
says where that client is when the harvester is waiting, working on a page, or idle (`LinkInv`), and
that files come before rows (`CopyInv`). `HarvestInv` is the argument: while a harvest runs, each
dataset that is older than what the harvest will note in HS_time is mirrored, is on the page as it
is at the provider now (`Right`), or is still to come on a later page, which is what `WalkInv` knows
of datasets whose list did not move. `DayInv` says that HS_time and the open transaction are not of
a later day, and the latter is of today; it makes the date that is sent early enough (`Unasked`).
`UsableInv` says that the harvester never meets a record it breaks off at. The theorem names what it
rests on. `Validation`: without it a later page breaks the harvest off (finding 1). `QuietMidnight`:
otherwise HS_time passes what changed during the harvest, which `OaiSource` counts as lost.
`Noticed`: none of the faults the harvester takes for success (`badRecord`, `empty`, `importFails`);
broken connections, malformed answers, failed writes, a failed update of HS_time and crashes are
allowed, more than the run has. Datasets, clients, page size, token life, sets and
writers are arbitrary.

**`OaiSource_proofs`**: `SourceTyping`, `MissedAreLost` (`Spec => []OnlyLostAreMissed`),
`CopiesGoForward` (`Spec => CopyNeverRegresses`). `HarvestInv` is the heart: what a running harvest
will let HS_time pass, because it is older than its first request, is lost, copied, in the rest of
the list, or on the page. `DeliveryInv` says what a page holds (the state of its record when it was
delivered, newer than the copy, and once), `CopyInv` that files come before rows and rows do not run
ahead of the source, `ClockInv` in which order the time stamps were taken, `PageInv` when page and
rest are empty. The proof of a step is one of where a record goes from one of the four places to the
next.

**`Importer_proofs`**: `ImporterTypeCorrect`, `ImporterImplementsCatalogue` (`Spec =>
ImplementsCatalogue`, the refinement), `OnlyIndexedAreTold` (`Spec => []ToldOfIndexed`). That a
commit adds a row with an unused ds_id, or replaces the row with the same ds_id, depends on what its
transaction did and on what the others did meanwhile. `ImporterInv` says it: a ds_id in a
transaction belongs to its dataset or to nobody (`IdInv`, `PairInv`); a transaction that has deleted
a row has the committed one, and nobody else has deleted or inserted it (`LockInv`, `PairInv`); a
row is inserted only where none is or the old one is deleted; and a parent that was found is there
with that ds_id (`ParentInv`, `RowInv`). A step of one process leaves the others alone except that
it ends waits, so the proof of each step is about the process that makes it (`StepOf`), and only
`CommitStep` has to look at all rows. The step of the refinement is then `CommitRefines`: with no
committed row it is `Add`, otherwise `Replace`. `UndisturbedMirror` (`Spec =>
[]UndisturbedImportsMirror`) is about the datasets no job was hindered in: `UndisturbedInv` says that
only one process works on such a dataset, and for each statement it has come to, what its
transaction has read, deleted and inserted so far fits the committed rows and the version of the
files, so that the commit makes everything what the files say.

**`Upload_proofs`**: `UploadTyping`, `UploadsAreKept` (`Spec => []NothingVanishes`),
`OnlyOwnErrorsReported` (`Spec => []NoFalseAlarm`), `LatestArePublished` (`Spec =>
OnlyLatestIsPublished`). The invariant is about each process: `RunSound`, its working directory
holds what it copied, and nothing else; `Fresh`, what it copied is the latest of its name, and each
part is noted under its own upload, unless the name is hindered; `Kept`, each upload it copied is
among the problem files, or all parts that are taken of it (`Taken`) are published or on their way
to be; `Blame`, the errors noted for a file of the form are its own. So what `UnlinkUpload` removes
is somewhere else, what `CheckPart` drops has been put away, and what `MovePart` publishes is the
latest. `NothingVanishes` is itself part of the invariant: `CheckPart` relies on it when the upload
is gone from the area because another worker has put it away. A step leaves the other processes as
they are (`StepHolds`), because put-away files of the latest content stay (`MoveHolds`).
`MetadataDescribeFiles` (`Spec => []MetadataMatch`) is about what processes do to each other
instead: `MatchInv` says of each part that is not contested that all processes which have it
(`Holders`) have the same content, that one which has described or moved it finds metadata and file
as it left them, and that there is a match when nobody has it. A process enters with its digest of
all parts, which is where a conflict is noted, and leaves with the move of its last part or a crash.

**`Subscriptions_proofs`**: `Typing`, `MissesAreHindered` (`Spec => []OnlyHinderedMiss`),
`ServedAreSubscribers` (`Spec => []OnlySubscribersAreServed`), `DoublesAreRaces` (`Spec =>
[]DoubledOnlyByRace`). `WalkSound` says that the ids the walk has left, and the rows it has
collected, are of rows it found, which are there or cancelled (ids are not used twice,
`TableSound`); `Accounted` where each row found is during the walk; `PostsSound` that a request
which would insert a row that is there has raced.

**`Basket_proofs`**: `Typing`, `BasketKept` (`Spec => []BasketIsKept`). `AloneSound` says that a
request that is alone was begun by the user of now, so that it writes the place the next one reads,
and that once its row is written, the row holds its basket. `RaceSound` is why there is only one row
without a race: a request that is about to create one found none, and no other request of the user is
under way as long as there is none. `RowsSound` says that a row that was found stays, and `TrustSound`
that what was shown last is trusted only until a request begins.
`BasketLimits` (`Spec => []NeverOverfilled`) follows a request through its list: `Within` says of the
basket it began with and the one it has come to what the limits demand, and each `Added` keeps it
(`AddedWithin`). The limit in bytes is about a sum over a set of files, a recursive function that
exists because the set of items is finite (`SetRecursion`, from a minimal counterexample,
`MinimalSet`); `SizeOfUnion` and `SizeOfOne` are what the step needs of it. That `Items` is finite is
an assumption: a database holds finitely many files.

**`Download_proofs`**: `Typing`, `LinksAreOwn` (`Spec => []LinksLeadToOwnFiles`), `LinksAreComplete`
(`Spec => []CompleteOrTold`). `WorkOK` says that each file of a worker's job is to be done, in its
zip, told, or got over HTTP and cut off (`Accounted`); `ArchiveOK` that an archive holds the files
of one of the jobs that wrote it, all of the recipient in its name, and all of them that were not
told when there is one; `LinksSound` that a link was sent by a job that wrote its archive.

**`WmsViewer_proofs`**: `Typing`, `SliderIsFollowed` (`Spec => []LayersFollowSlider`), `TimesAreOwn`
(`Spec => []LayersKeepOwnTimes`), `StopReaches` (`Spec => []StopMissesOnlyOvertaken`). `Good` says
that the slider is over the common times of the layers it knows, and that these are the visible
ones, `Settled` that the layers follow the slider unless the handle is held, `Own` what they show.
The lemmas follow the calls of the code: what a move of the slider gives, what a redraw gives, what
a change of visibility gives.

Model-checked only: the liveness properties (`WalkEnds`, `EventuallyMirrored`, `JobsEnd`,
`SoundIsAccepted`, `EveryJobIsAnswered`, `ShowsAllTimes`), which are out of reach of the prover. All
other properties of the runs that pass are proved.

## 5. Findings

1. A page after the first is made without a metadata format (`DataProvider.pm:565`): with
   `PMH_VALIDATION` all its records are presented as deleted, and a harvester deletes its
   copies. Without validation they have no metadata, and METAMOD's own harvester breaks off.
2. A record the harvester cannot use ends the harvest as if it were complete
   (`harvester.pl:306` and the like).
3. An archive with a sound and a bad part is put among the problem files and reported as accepted,
   with no mail to its owner (`NcDigest.pm:658` truncates the errors `process_files` has noted).

The models show more that no run has a property for, or that is an exception of a property.

* Writers and importer. Changes by the dataset manager keep the datestamp and are not harvested
  (`DatasetManager.pm:165`). Of two imports of one new dataset at the same time, the second fails on
  the unique name, the error is dropped (`ForeignDataset.pm:255`), and the index may keep older
  contents than the files. The product of a dataset whose ownertag leaves SRU2JDBC_TAGS stays in
  `sru.products` (`DatasetImporter.pm:905`).
* Uploads. A component of an archive whose name contains the dataset's, but does not begin with it,
  is allowed (`UploadHelper.pm:1318`), then left out of all processing (622) and removed, and the
  archive is reported as accepted and unlinked, while the documentation (1903) says that accepted
  files are deleted after all of them were copied to the repository. A single compressed file is
  never checked to be netCDF (its upload is noted under the compressed name, `UploadHelper.pm:438`),
  and replaces a part of its name of the same batch; a file that collides with another one of the
  batch takes over `%orignames`, so that a bad part makes the wrong upload a problem file and the
  right one is lost. The parts of an archive that is put away are published (the purge does nothing
  while the deletion at 1186 is commented out). Files of a dataset without an owner are put away and
  nobody is told. Two users who replace the same name write the same temporary file
  (`Restricted/Upload.pm:112`).
* Subscriptions. One subscription that is no valid document, or a user who is gone, leaves the
  others without the file (`Subscription.pm:205`: `next` in a do-while leaves all subroutines).
* Basket. Every request writes the basket back, so overlapping requests of two tabs lose changes; the
  first two requests of a user, if they overlap, create two rows (`CollectionBasket.pm:511`), and from
  then on the basket is the one or the other, as the database has it. A
  `COLLECTION_BASKET_MAX_SIZE` of 0 is no limit for the files of a level 1 dataset and lets no level
  2 file in; the limit itself is allowed for the former and not for the latter.
* Downloads. A file that is longer than `max_size` (`PrepareDownload.pm:97`: "do not download files
  larger than this"), or whose download ends early for any other reason, is put into the archive as
  far as it came (336), and nobody is told. A job of a recipient whose address has a character file
  names cannot have, or of any recipient when no temporary file or directory can be made, dies
  outside of the code that reports errors (189, 330), and the email the page has announced
  (`Search/CollectionBasket.pm:297`) never comes. `prepare_download` goes on after a failed check of
  the disk space (`PrepareDownload.pm:181`); an archive without any file is linked like any other.
* Viewer. When the first layer has no dimensions `drawMap` dies of an exception (`TimeSlider.js:63`)
  and the layers have no sections. A second press of Slideshow leaves a timer that Stop cannot
  reach; `slideshow : null` (line 12) is a label and declares no variable, so that Stop before the
  first Slideshow is a ReferenceError. After `drawMap` the layers show their own defaults until the
  slider first moves.

## 6. Not modelled

Search, presentation and web services are stateless; transformers, digests of netCDF content,
geometry and Fimex are functions on documents and numbers whose state is none; login and
administration change single rows; configuration and installation are read once; the THREDDS script
writes files from a configuration. Vendored JavaScript (`OpenLayers`, `swagger-ui`,
`log4javascript`, jQuery) is other people's code: the viewer uses the first and the last, and is
modelled from how it does.

Of the modelled parts: the requests of the provider that change no state, and the making of new OAI
identifiers; the sharing of Metadata rows between datasets and `deleteDatasetFile`; test uploads,
which publish nothing; the clean-up of old upload files, whose event never reaches a handler
(`ftp_monitor.pl:201`); the other cursors of the user database, which are the same code for other
tables; the styles, legends and projections of the viewer; and the wording of mails.

What the modules leave out of the code they model:

* OaiProvider: the errors noSetHierarchy and cannotDisseminateFormat (`OAI.pm:284-290`), which end a
  request before anything is counted.
* OaiSync: the editor's datestamp is local time printed with a `Z` (`QuestionnaireUtils.pm:490-493`);
  the model has one clock, as on a server that runs in UTC. `SyncCheckpointSound` does not speak of old
  datestamps and of updates a digest overwrites: these are in the model, and no property excludes them.
* Importer: `newFromFile` tests that the files are there before it locks them
  (`DatasetTransformer.pm:102`); it is one step of the model.
* Upload: the file for the error output of gunzip and tar, which all helpers share
  (`UploadHelper.pm:1059`, 1080, 1109, 1132): when two of these commands fail at the same time, one
  may find it gone and die, or take a broken archive for an empty one; the metadata file of a part
  has the name of the part without its extension (735), so parts are taken to differ in more than
  that.
* Basket: a second browser of the same user, which reads and writes the same rows; and that no UPDATE is
  sent when a row already has the value (the model writes it again).
* Download: two locations with one basename become two members of one name of the archive; the mail
  about a failed transformation does not say which file it is about; archives are never deleted.
