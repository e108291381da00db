# Cloud Courier: verification project

Cloud Courier (`src/src/mml_cloud_courier`, command `mmlcc`) moves directory trees to and from Google
Cloud Storage. A long-lived service keeps a queue of jobs in SQLite and runs
them one at a time; terminals may run jobs directly against the same database;
a REST API, a command line and a desktop application steer it. What the user is
promised is strict: a job is COMPLETE only when every planned file is at the
destination, verified, and everything that interrupts a job (a pause, a crash,
an outage, a changed source) leaves it where it can go on.

This directory holds TLA+ modules that model that behaviour, TLC
configurations that check it on small instances, and TLAPS proofs for every
size. Paths below are relative to `src/src/mml_cloud_courier` unless they start with `src/`.

## 1. The system

### Parts, state and operations

| Part | State | Operations | Module |
|---|---|---|---|
| Queue worker (`service/worker.py`) | the job in hand, as read by `_pick` | claim, re-read, scan, run, stall and probe, apply an intent, startup recovery | JobQueue |
| Controller (`service/controller.py`) | active job, stop event, intent, service stop | `job_started`, `job_finished`, `request` | JobQueue |
| API handlers (`service/app.py`) | none of their own: rows and controller | submit, pause, cancel, resume, archive; retry and exclude groups of errors; profiles; settings | JobQueue, JobRun, Profiles, Settings |
| Service host (`service/host.py`) | instance lock, worker and server threads | start with recovery, stop with a grace period | JobQueue |
| Direct runs (`cli/transfer_command.py`, `cli/scan_command.py`) | the job in hand | transfer, resume, being killed | JobQueue |
| Run lock (`engine/joblock.py`) | one OS file lock per job | acquire or refuse, release, release by death | JobQueue |
| Store (`store/repository.py`) | tables `jobs`, `job_files`, `file_slices`, `profiles`, `events` | one statement or short transaction per call | all of them |
| Engine (`engine/runner.py`, `core/retry.py`) | pool of file workers, two passes | run, attempt, retry, quarantine, audit, verdict | JobRun, Delivery |
| Uploads (`gcs/uploader.py`, `gcs/resumable.py`) | sessions, slices, temporary objects | single request, resumable session, sliced and composed | Upload |
| Slicing, checksums (`core/slicing.py`, `core/crc32c_combine.py`) | none | choose, cut, combine | Slicing, SlicePlan, CrcCombine |
| Downloads (`gcs/downloader.py`) | part file, ranges | look, fetch, join, rename | Download |
| Profiles, credentials (`auth/`, `service/app.py`) | rows and encrypted files | probe, create, check, delete, find or create, sweep | Profiles, Preflight |
| Schema (`store/schema.py`) | version row, columns | migrate on connect | Migrations |
| Settings (`service/config.py`, `gui/settings_dialog.py`) | settings.json, the running configuration | load, edit, PUT, start | Settings |
| Progress (`service/sse.py`, `gui/watcher.py`, `cli/transfer_command.py`) | last event seen | stream, re-attach, decide that a job has settled | Watch |
| Desktop window (`gui/main_window.py`, `gui/jobs_model.py`, `gui/workers.py`) | rail, selection, tabs, the watch, requests under way | select, act, poll, filter, archive | Desktop |
| Files of a job (`gui/files_model.py`, `gui/job_tabs.py`) | pages, pending refresh | page, refresh, filter | FileTable |
| New jobs and connections (`gui/wizard.py`, `gui/connection_dialogs.py`, `gui/connection_widgets.py`) | form, preview, stepper, cards | preview, submit, sign in, create, check, remove | Wizard, ConnectionDialogs |
| Scanner, reports, process security, Windows service, command line, packaging | | I/O and presentation | none |

### How they interact

* The **worker thread** and the **request threads** share the controller
  (under its lock) and the `jobs` rows (one autocommitted statement at a time).
  A pause asks the controller first and writes the row only when the worker
  does not have the job; both sides can be between two statements.
* **Terminals** are other processes: they share the rows and the run lock and
  nothing else. The lock is an OS lock and dies with its holder.
* A **run** is one thread that awaits a pool of tasks; they share the
  `job_files` rows, one row per task, and the stop flag. A task's attempt at a
  large file has a pool of its own, over slices or ranges.
* The **bucket** is shared with others: objects are replaced, temporary objects
  swept, sessions forgotten, requests lost, answered or executed late.
* The **desktop** does everything on the Qt thread and sends every request from
  a thread of its own: an answer comes to a window that has moved on.
* A **crash** takes threads, controller and locks and leaves rows, lock files,
  sessions, part files, credentials and settings files.

### Hard behaviours, and the properties that would catch them going wrong

| Where | What | Properties |
|---|---|---|
| worker and handlers | a flip between two of the worker's statements; an intent applied to a run that finished; a stop that arrives while stalled | FlipBeforeRereadWins, WorkerKeepsOutcome, AcceptedStopNeverRepicked, StopEndsTheClaim |
| crash, restart | rows in statuses the queue never selects; an interrupted scan | BusyRowHasOwner, InterruptedJobReturns, CompleteMeansWholeManifest, HeadOfQueueIsServed |
| processes | several runs of a job; several processes that migrate | OneRunPerJob, WhatIsBegunEnds |
| pool | futures awaited in order while pause, stop and errors come from any of them, and files are started while the run is being left | RejectionIsNotJudged, RunEnds |
| retries | two passes, cumulative counts over interrupted runs, the user's resets | AllowancePerRun, ExhaustedIsQuarantined, VerdictSettlesFiles |
| audit | objects lost after delivery, a failing listing | KeepsPromise |
| uploads | edits between attempts and slices, sessions that kept less, other writers, late requests | OnlyTheFile, NoChimera, WorkIsKept, ForeignWriteStays, FileIsDelivered |
| downloads | parts and ranges of an earlier generation, bytes without rows and rows without bytes | BytesAreTheObjects, WorkIsKept, VerifiedIsObject, FileIsDelivered |
| arithmetic | slices at their limits, a checksum from checksums | SlicesFit, CombinedIsWhole |
| following | the tick before a stall, reconnects, pages of a table that changes | StreamTellsAll, TableIsTrue, NobodyWaitsForEver |
| window | answers and signals in any order, over outages | RailCatchesUp, WatchIsTheSelections, SelectionIsTheUsers |
| connections | credential and row in two steps, racing requests, dialogs that were left | NothingDangles, NothingIsHalfDone, CancelledSendsNothing, ShownIsTrue, WhatIsBegunEnds |
| settings | staged and running values, saves that overlap | SettingsAreKept |

`PROJECT.json` lists the hazards with their lines and the properties that would
catch them; what the models reach and no property speaks of is under "Divergences".

## 2. Modules

### JobQueue

One row of `jobs` per id of `Jobs` (`status`, `started`, `manifest`,
`archived`, `dest`, `profiled`, `waiting`), one program counter per runner: the
`Worker` and the terminals `Clis`. Every SQLite statement and every controller
call is a step, since the connections are in autocommit mode; between two steps
anything else may happen. The worker's places follow `run_once`: `picked`,
`check` (the re-read), `scan`, `scanning`, `ready`, `lock`, `start`, `running`,
an outcome inside the lock, `probe`, `stall`, `stalled`, `unstall`, `report`,
`finish`, `apply`, `applying`. `fresh` is the copy of `started_at IS NULL` that
`_pick` made and `_handle` uses later. A handler is `Call` (reads the row),
`Request` (asks the controller) and `Write` (the closing UPDATE); submission is
one step because its check and INSERT share a transaction. `manifest` says how
much of the source the planned rows cover: nothing, some batches, or the walk
run to its end (paths the walk could not read are recorded as events and stay
unplanned; that is the scanner's own rule and not counted as partial here).
`ack` is history: how the last acknowledged stop of a job took effect.

`StopService`, `Exit` and `Crash` are the host: a stop sets the flag the worker
polls, the process ends when its threads are joined, or before that when the
grace period runs out (then it is a `Crash` here). `Recover*` are
`startup_recovery`, one SELECT per status and one UPDATE per job, while
terminals go on. `Faults` lets statements raise where the code catches them or
drops the claim; an error inside recovery keeps the service from starting and is
a crash.

### JobRun and Delivery

JobRun is one job seen from inside: `job_files` (`state`, `attempts`,
`category`, `seen`: the source version whose size and mtime the row has), the
world (`source` versions, `held`: what the destination has), `run_job`'s thread
(`main`, `pass`, `exit`, the audit's `listed` and `unaudited`) and the pool's
tasks (`task`, `try`, `again`). `List` hands a pass's rows to the pool and keeps
the copy the code keeps (`again`: the row was `changed` when listed). The
attempt (`_transfer_once`) is `Store` then `Record`, or `Skip`, each with `Clear`
of the slices behind it, or a failure before or after the bytes arrived. `Caught`
is what follows a failure: quarantine, the end of the turn or another attempt.
`Await` takes the first future that has not simply returned, so that a later
task's pause waits for an earlier task. The run is left in steps: `RecordEvent`
writes the event, `Cancel` then takes one queued file after the other, and free
workers start files in between and compete for the queue's head; when the event
cannot be written nothing is cancelled at all. `Drained` leaves the pool. The audit and the verdict follow, then
`Return` forgets the run. Around it: `Stop`, `Crash`, `Recover`, the user's
`CheckAction` and `ApplyAction` with the window between them that the code
accepts, `Edit` of the source and `Lose` at the destination.

JobRun assumes what JobQueue shows: one run of a job at a time.

Delivery is what a run promises, with nothing of how: a ledger of files (open,
delivered, given up), the destination, the files confirmed there since the run
began, and a verdict. A verdict `complete` needs every file delivered and
confirmed; a delivered file is reopened only while no verdict stands. JobRun
implements it (`KeepsPromise`) with `ledger` read off the rows, `held` the files
the destination has, `confirmed` the audit's `listed` and `verdict` the job's
status.

Abstractions worth knowing: error categories are three (worth a retry, pausing,
neither); the heartbeat is left out and `reset_stale_transfers`
takes any of the stale-able rows; an audit compares sizes and
checksums, so that a row whose source changed since may or may not match;
the audit is always on, since no caller turns it off; an error raised by
`run_job`'s own statements outside the pool is a `Crash`; `record_event` failing
in the handler of a pause or stop is not modelled.

### Upload, Download

What is one step in JobRun, taken apart for one file. A content is a sequence of
parts (one chunk of the code is one part), and a checksum of some bytes is those
bytes, so that two are equal when the bytes are; that the checksum of a whole
may be combined from its slices' is what CrcCombine checks.

**Upload**: the look at the source (`Stat`), the attempts with the stored precondition
(`row.match`), the skip rule, then the single request (`Put`), the
session (`Query`, `Open`, `Send`, `VerifyStream`) or one session per slice in a
pool (`Plan`, the same steps per slice, `Join`, `Compose`, `Sweep`), the stamp of
the sha256 and `mark_verified`. The rows of the slices are deleted by statements of their
own, behind the row's update: a change (repository.py:380, 390), a delivery (runner.py:282)
and a failed verification (runner.py:332) each write the row first and come to
`ClearSlices` after, which may fail (`ClearFails`), or never be reached over a crash. A
session that was opened for another length than its slice has now is refused when it is
asked where it stands (resumable.py:57-98). The bucket has the destination, temporary objects
and sessions with what they keep. A request is answered, or executed without an
answer, or lost, or put into `late` and executed whenever; a server may answer
that it kept nothing of a chunk. Around it the source is edited (also to another
size, also to nothing), others write and delete, sessions expire, runs are
stopped and crash. `late`, `spent.looked` (the generation first seen) and
`row.torn` (the rows of the slices are older than the row's size and mtime) are
history of the world, not of the program.

**Download**: `Look`, `MakePart` and `SizePart` (the part file is emptied, then
sized), the ranges in their pool (`Open`, `Write`, `Receive`, `RecordRange`, with
the row behind the bytes), `Join`, `Rename`, `Record`, `Clear`, and `Audit`. The
object is replaced, by another size too where `Resizes`; the user removes the
part or the file between runs. `spent.anew` is history: a part was begun anew
while ranges of an earlier one are still recorded, which is where finding 3 begins.

### Slicing, SlicePlan, CrcCombine

Slicing has the choice of the method and the slices in closed form, which Upload
uses. SlicePlan has the loops of `plan_slices` and `plan_ranges`, one turn a
step, and shows that they cut what the closed form says (its names say `Plan` or
`cuts` where Transfers extends both it and Upload). CrcCombine is `combine`
with its matrices over GF(2), a bit vector being the set of its ones: the two buffers
`even` and `odd`, and one action for each half of the loop's body (`EvenHalf`, `OddHalf`).

### Watch, FileTable, Following

Watch has the stream (`Serve`: snapshot, then the tick into `inbox`, the end on a
terminal status), and two followers: the command's loop and the window's
`watch_job` with its thread, over the worker's writes reduced to what they can
see, with an outage that stalls the job, a crash of the service and a watch begun
again. FileTable has the pages, the filter, the deferred and throttled refresh
(`cooled` is whether two seconds have passed), and the job whose files appear and
change meanwhile. A page (`GetPage`) is what the query gives: from the n-th matching
file on in the order of the ids (`Nth`), as many as a page takes. Following extends Watch
and instantiates FileTable, and states the properties of both.

### Desktop

The window is one record `win`, since the Qt thread runs one slot at a time and
every slot is a function of the window as it was. A request is asked by a slot,
served by the service (`ServeCall`) and answered in any order (`Deliver`); the
poller's list and the watch's signals likewise. Equal requests under way at once
are one. `tabs` says which job's data each tab shows, `rail` what the last
rendered list was, `astray` (history) that a late retry put its own job's watch
in place.

### Wizard, ConnectionDialogs, Settings

The same way with requests: each is asked, served, answered late. A preview's
request knows whether it is `current` still (`cancel_event`), a stepper's the
generation it was made in (`login`), a card's whether its card lives (`live`).
Settings goes from the dialog to the file to the next start: PUT reads, merges,
writes the temporary file (truncated, then whole), renames it; `put` is one PUT
of each dialog, and the service may die in any of its steps.

### Profiles, Preflight, Migrations

Profiles has one program counter per request thread: `Save` of the credential
before the row, `Undo` behind a taken name, `Count` and `Delete` in one
submission's window, `Remove` of the credential behind the row; ids given as
SQLite gives them; crash, start and sweep. Preflight is the probe, operation by
operation, for a credential that may do any subset of what it takes. Migrations
is `apply_migrations` statement by statement for several openers over an empty
database or one of any version.

### Connecting

Extends Profiles and instantiates ConnectionDialogs, Wizard, Preflight, Settings and
Migrations, each over variables of its own: the run explores one of them at a time, and
what is proved of each is put together here. What passes between them (the answers of the service
to the dialogs and the form) is in each module as the other side may give it.

## 3. Runs

Some modules are checked by one run that explores several small instances: the MC
module sums them (`way` says which one a behaviour is), and what a behaviour is
not stays as it is.

| Run | Question | Instance | Distinct states |
|---|---|---|---|
| QueueService | Do the worker, the handlers and recovery keep each other's decisions, and does everything asked end? | one job and two callers that cancel and resume, or two jobs of which one is scheduled; stops, one crash | 45,538 |
| QueueTerminals | Does the run lock let one process at a time run a job? | the worker and two terminals over one job that is scheduled, cancelled, archived; failing statements and lock files, kills, one crash; symmetry of the terminals | 878,664 |
| QueuePartialManifest | Is COMPLETE only over a scan that ended? | one job, one terminal: **violated** (finding 1) | 98 until then |
| RunLedger | Does a verdict mean what the design promises? | one file, three runs, two edits, one loss, stops, crash, retry, exclude | 1,284,961 |
| RunPool | Does a rejected credential keep a run from its verdict, and does the run end? | two files, one or two workers, one run, every way out | 522,851 |
| Transfers | Is what is taken up again ever of another content? Do slices and checksums fit? | an edited upload, an upload into a shared bucket, a download of a replaced object, the slicing loops to size 26, CRC-32C over every cut of nine bytes | 1,138,897 |
| Delivers | Does the file arrive if its job goes on being resumed, and is what a download delivers the object? | an upload or a download, faults, one crash, a replaced object, any number of runs | 378,294 |
| UploadChimera | Is a verified object some version of the file? | an edit while slices are sent: **violated** (finding 2) | about 55,000 until then |
| DownloadZeros | Is a verified file the object? | two runs, a fault, a replaced object, a crash: **violated** (finding 3) | 344,524 until then |
| Following | Are streams gapless, last ticks complete, tables true, and do watches end? | a command or a window over an outage, a crash and a second watch; a table of two files in pages of one | 429,124 |
| Desktop | Are rail, watch and selection right under answers in any order? | two jobs, two gestures, two changes in the service, one outage | 515,746 |
| Connections | Do rows, credentials, dialogs, settings and schema fit together under failures? | dialogs, form, service, probe, settings, openers, each with two of what it has | 652,640 |

Violation runs check one property each and stand for the findings below.

**Bounds.** Queue: the worker has one job in hand, so one job reaches every
interleaving with handlers; two callers are needed for a cancel and a resume in
flight together; two jobs for order; one crash because recovery does not depend
on how often it ran (`MaxCrashes`). Cancel stands for pause where both would
multiply the states: they differ in one status and in one accepted source status.
Run: `MaxAttempts` 2 and `QuarantineAttempts` 3
(5 and 15 in the code) so that a file is quarantined in its second run, on
its first attempt there, with a third run after it; `MaxEdits` 2 because a file
is settled by its second change; one loss (`MaxLosses`) of an object already
delivered. Two files and up to two workers make a task wait for a
slot, be cancelled or still be started while the run is left, and pause behind
an earlier one.
Transfers: two parts (`MaxSize`) are two chunks of a session, two slices or two
ranges, enough for one that is kept beside one that is not; three runs of an
edited upload, so that what the first left is taken up after the edit by the
second and after a failure by the third; one fault and one crash or stop (an
edited file has one of the two, and both when a change of it was left half recorded), since
a second one only repeats the state the first leaves; the sizes to 26 pass every multiple of the minimums 1, 4 and 9 and
of the even shares of 1, 3 and 8 components; checksums over all cuts of nine
bytes into up to three pieces, some of them empty or zeros. Delivers: two faults and a crash of an
upload; one fault of a download with a crash and a replaced object, or with a file
removed; an object begins with the one of two values (they are alike);
afterwards the job is resumed for ever. Following: one
follower, since followers do not affect one another; pages of one row, two
files, and one of a retry, a failed page or a gesture. Desktop: two gestures, two
jobs, one of them of the connection the rail is filtered by; each `way` takes the gestures that
go together and the changes of the service that meet them. Connections: four
gestures in the dialogs and three in the form, with a change made elsewhere or a
failed request; two threads, two credentials, one fault and one crash in the
service; two faults of the probe, one of which may be its clean-up; two settings
dialogs, because a save can only meet the next one's; two openers, of which both
may die.

**Deadlock** is checked only in Desktop, whose poller never rests: elsewhere the
queue may have nothing to do, and the bounded runs and gestures end.

**Fairness.** JobQueue: weak fairness of the worker's own steps, of starting a
service that is down (Windows restarts it, or the operator does), of recovery
and of handlers that have begun; strong fairness of `Exit`, because a stopping
server takes no new calls and its threads are joined, but a call may still be
arriving now and then before that. That an outage ends (`ProbeAnswers`) is
assumed only in HeadOfQueueIsServed: a stalled job holds the worker until then.
StopEndsTheClaim does not need it. JobRun: weak fairness of `run_job`'s thread
and of each task. That an attempt ends rests on timeouts the code does not set
but the libraries have by default (google-auth's AuthorizedSession, the storage
client); with the emulator's plain session there is none. Nothing makes a run
begin, or a user act. Delivers: the threads of a run and of its slices or ranges,
and that the job is run again (the user or the service's recovery resumes it);
faults, crashes and changes are bounded, so they end. Following: the worker, the
restart of the service, a stream's and a watch's own thread, the Qt thread and
its clock. Desktop: of serving, delivering and the service's coming back one goes
on (`ServeCall \/ Deliver \/ ComeUp`), the poller polls and is heard
(`ServePoll \/ PollAnswered`), and posted signals are handled (`Signal`);
outages and gestures are bounded. Connections: requests are served and the Qt thread delivers
their answers; one of the processes that open the database gets on with it, and
only so many die. No user's gesture is ever assumed.

### What the properties say

* **OneRunPerJob**: never two processes inside `run_job` for one job.
* **CompleteMeansWholeManifest**: COMPLETE only over a manifest whose scan ended.
* **BusyRowHasOwner**: while the service is up, a running, scanning or stalled
  row is in the worker's hand: none is stranded.
* **WorkerKeepsOutcome**: no late intent takes a row out of COMPLETE.
* **AcceptedStopNeverRepicked**: after an acknowledged pause or cancel the worker
  does not claim the job again until the user resumes it. A stop only asked of
  the controller is lost with the process: the history variable says so.
* **FlipBeforeRereadWins**: a flip that lands before the re-read is never run over.
* **StopEndsTheClaim**, **InterruptedJobReturns**, **HeadOfQueueIsServed**: the
  liveness of stops, of recovery and of the queue.
* **KeepsPromise**: refinement of Delivery.
* **VerdictSettlesFiles**: under a verdict no file is `transferring` or `changed`.
* **AllowancePerRun**: at most `MaxAttempts` attempts per file and run.
* **ExhaustedIsQuarantined**: at a verdict no file that was attempted in the run
  stays FAILED for a transient reason with its cumulative allowance used up.
* **RejectionIsNotJudged**: a run in which a file met a rejected credential ends in
  no verdict. That no file is *started* once the pause was seen is not so, and not
  claimed: the event is recorded before the queue is cancelled (runner.py:437-439),
  and a free worker may take a file in between.
* **RunEnds**: a run ends.
* **OnlyTheFile**: a file nobody edited between look and verification is
  verified as what it was, whatever slices, sessions and temporary objects of an
  earlier content were found, except with slices left by a run that ended between the two
  statements of `mark_changed` (see the divergences); and of a file never edited nothing but its content
  ever has its name by the job's hand, not for a moment. **NoChimera**, the first
  without its premise, fails (finding 2).
* **ForeignWriteStays**: what others wrote after the first look is never replaced.
* **WorkIsKept**: a slice or range that was moved is not moved again, but after a
  failed verification or a change, or when its temporary object was looked for in vain.
* **BytesAreTheObjects**: a rename delivers one content of the object as a whole,
  it is there when it is called verified, and a recorded range has its bytes, unless
  a part was begun anew beside recorded ranges; what may follow then is finding 3,
  against **VerifiedIsObject**.
* **FileIsDelivered**: a job that goes on being resumed delivers its file.
* **SlicesFit**: the loops' slices follow one another without gap or overlap, are no
  more than one compose takes, and are what the closed form says.
  **CombinedIsWhole**: the checksum from checksums is the checksum of the whole, with
  what the loop over the bits of a length has computed at every turn.
* **StreamTellsAll**: each stream carries every event once, in order, and one that
  ends at a settled job has told everything. **NobodyWaitsForEver**: a watch of a job
  that comes to rest ends, and the table makes up for what it put off.
* **TableIsTrue**: the unfiltered table lists each file once and shows at rest what
  became of them.
* **RailCatchesUp**: the rail never contradicts the banner and ends as the service's
  list. **WatchIsTheSelections**: the selected job is followed and no other, but after
  a late retry. **SelectionIsTheUsers**: nothing but the user, or the job he submitted or
  archived, moves the selection; it is taken away where his archiving of the job is
  answered, even if the job has left the archive again by then.
* **NothingDangles**: a connection has its credential and a job its connection; a
  credential without connection is in a request's hand or is a failure's or crash's
  leftover, for the sweep (or two requests deleted one connection whose id was
  given again between them).
* **NothingIsHalfDone**: the probe leaves no object if the credential has all that an
  upload takes, or if it may delete and no request failed; who has the database open
  has the whole schema.
* **ShownIsTrue**: the stepper never says a credential passed that the service did not
  pass, a refusal for jobs names a connection that had some, a preview is of what
  the form shows. **CancelledSendsNothing**: a dialog that was left sends nothing.
* **SettingsAreKept**: a Save of a loaded, unedited dialog changes nothing the
  next start would see, and settings.json is torn only by two PUTs at once.
* **WhatIsBegunEnds**: no card stays busy, a submission is announced, and everybody
  who keeps trying gets the database open.

### Findings

1. *A resumed job can be COMPLETE over a partial manifest*
   (QueuePartialManifest). `mmlcc transfer` is killed before its scan ends; the
   next `mmlcc transfer` refuses the duplicate and names the command
   `mmlcc resume`, which runs what is planned, possibly nothing, to COMPLETE.
   The worker has a rule against just this.
2. *A mixture can be verified* (UploadChimera). An edit between two slices, chunks
   or attempts is read into the upload and verified against the bytes as they
   were read: an object with a content the file never had.
3. *Zeros can be delivered as verified* (DownloadZeros). When the part file has to
   be made anew, the recorded ranges are ignored by that attempt only; if it is cut
   short, the next one trusts them again, and their bytes are zeros.

### Divergences seen while modelling

Behaviour of the code that a comment or a document does not expect, or that a
reader may want to know; the models have it as it is, and no run is spent on it.

* A flip written after the worker's re-read is overwritten by the scan or by
  `start_job`; the comment above the re-read says "the flip must win"
  (worker.py:174).
* A stat that fails and an audit that misses add to `attempts` without comparing,
  so such a file stays FAILED through any number of runs (runner.py:299).
* An upload whose own rejected object is at the destination fails every later
  attempt as a conflict: the precondition is kept for good (runner.py:171).
* `mark_changed` writes the new size and mtime and deletes the slices in two statements,
  each committed by itself (repository.py:380, 390; db.py:17). A run that dies or fails in between
  leaves the old slices under the new look; the next run sees no change, reuses those whose
  temporary objects are there, and may verify a mixture, which the comment between the
  two says must not be (repository.py:386-389). OnlyTheFile exempts what was verified so
  (`row.torn`); without the exemption TLC finds it in Transfers.
* A file that changed its size keeps the method of its old one; a resumable one that
  became empty raises in every run (repository.py:379, uploader.py:163).
* A follower's re-check may read INCOMPLETE just before the worker writes STALLED,
  and ends while the job goes on (transfer_command.py:125).
* A retry answered after the user selected another job replaces the watch of the
  selected one (main_window.py:781); deselecting leaves the summary and the files
  of the job "the rail no longer shows" (main_window.py:454).
* Two PUT /settings at once share one temporary name: fields are lost, or a
  half-written file is renamed, over which neither the service nor the dialog
  starts, against "never a torn file" (app.py:781).
* A Save before the settings arrived stores the spin box's initial 1; an edit made
  while a save is under way is not sent by the next one; a second untouched Save
  clears a policy that somebody else stored (settings_dialog.py:226-242).
* A connect that loses the race between column check and ALTER raises
  `duplicate column name`, though migrations are "Safe to call on every connect"
  (schema.py:132).
* A create that a cancelled dialog had sent is carried out, and the list is not
  fetched again when it is (connection_dialogs.py:890).
* A last tick inside the table's two seconds is shown only when the user scrolls
  (job_tabs.py:440); filtered pages repeat or skip files whose states change
  between them (repository.py:511).
* Ids of profiles are given again (no AUTOINCREMENT): a submission, or a second
  deletion, that looked before lands on the connection that has the id by then, and the
  latter leaves a credential for the sweep (schema.py:20, app.py:721).
* A terminal's status may be overwritten with PENDING by the worker that met its lock
  (worker.py:381); two terminals may both pass the duplicate check
  (transfer_command.py:183); a job resumed between the read and the write of
  archive stays hidden while it runs (repository.py:216).
* An object that changes its size after the scan fails its download in every run, by
  the audit against the listed size or by a stored range the new layout lacks
  (runner.py:386, runner.py:250).
* Answers with a job's row and errors carry no job id and are rendered for whichever is
  selected (main_window.py:638); failed previews and late local totals are shown
  though superseded (wizard.py:560).

## 4. Proofs

Theorems hold for every value of the constants, from the named
assumptions of the modules (ids are naturals,
the worker is not a terminal, allowances are positive, and so on) and what the
table names.

| Theorem | States |
|---|---|
| JobQueueProofs!TypeCorrect, JobRunProofs!TypeCorrect | their type invariants |
| JobQueueProofs!RunsExclude | OneRunPerJob |
| JobQueueProofs!WholeManifest | CompleteMeansWholeManifest when there are no terminals (`Clis = {}`) |
| JobQueueProofs!NoRowIsLeftBusy | BusyRowHasOwner when there are no terminals and no failing statements (`Clis = {}`, `~Faults`) |
| JobQueueProofs!OutcomeIsKept | WorkerKeepsOutcome when there are no terminals |
| JobQueueProofs!FlipWins | FlipBeforeRereadWins when there are no terminals |
| JobQueueProofs!StopHolds | AcceptedStopNeverRepicked when there are no terminals and no failing statements |
| JobRunProofs!AllowanceHolds | AllowancePerRun |
| JobRunProofs!VerdictSettles | VerdictSettlesFiles |
| JobRunProofs!SpentIsQuarantined | ExhaustedIsQuarantined |
| JobRunProofs!RejectionPauses | RejectionIsNotJudged |
| JobRunProofs!RunKeepsPromise | JobRun implements Delivery (KeepsPromise) |
| UploadProofs!SlicesFitAlways | SlicesFit |
| UploadProofs!OnlyTheFileAppears | OnlyTheFile |
| UploadProofs!ForeignWritesStay | ForeignWriteStays |
| UploadProofs!UploadedSlicesAreKept | UploadedSliceIsKept, the upload's half of WorkIsKept |
| UploadProofs!UploadStaysTyped | Upload's type invariant (in WellTyped) |
| DownloadProofs!BytesAreRight | BytesAreTheObjects |
| DownloadProofs!FinishedStays | FinishedIsKept, the download's half of WorkIsKept |
| DownloadProofs!TypeCorrect | its type invariant |
| ProfilesProofs!NothingIsLost | NothingDangles, for numbered names (`DOMAIN Found \subseteq Nat`) |
| FollowingProofs!StreamsTellAll | StreamTellsAll |
| FollowingProofs!TableTellsTheTruth | TableIsTrue |
| FollowingProofs!FollowedIsWellTyped | the type invariants of Watch and FileTable (WellTyped) |
| ConnectingProofs!NothingStaysHalfDone | NothingIsHalfDone |
| ConnectingProofs!WhatIsShownIsTrue | ShownIsTrue |
| ConnectingProofs!CancelledDialogsSendNothing | CancelledSendsNothing |
| ConnectingProofs!SettingsKept | SettingsAreKept |
| ConnectingProofs!ConnectingStaysTyped | the type invariants of the six modules of Connecting (WellTyped) |
| DesktopProofs!TypeCorrect | the type invariant |
| DesktopProofs!SelectionIsFollowed | WatchIsTheSelections |
| DesktopProofs!SelectionMovesByTheUser | SelectionIsTheUsers |
| DesktopProofs!RailAgrees | the safety half of RailCatchesUp |

* **RunsExclude.** Inductive: `LockInv`, a runner is inside the lock exactly
  when it holds the lock of the job in its hand, and a runner past its claim has a
  job. OneRunPerJob alone is not inductive, because taking a free lock says
  nothing of who else is inside unless being inside implies holding it.
* **WholeManifest.** Inductive: `ManifestInv`, a job that was started or is complete
  has a whole manifest; the worker with a job in hand either knows it to be fresh or the
  job was started; past the scan the manifest is whole. The `fresh` copy is
  taken before the scan, so the invariant has to survive its going stale. The
  assumption is needed: finding 1 is the counterexample without it.
* **NoRowIsLeftBusy.** Inductive: `OwnerInv`. While the service is up a busy row is in the
  worker's hand at a place its mark fits (`Held`), or stalled because the service is
  stopping (`LeftByStop`); while it recovers, the row is among those recovery has read or
  has still to read (`Ahead`: it reads one status after the other, and a row it
  has passed must not become busy again). A stop during a run leads somewhere only
  because it never comes without an intent (`StopHasIntent`). A terminal that is killed
  leaves its row running until the service starts again, and a failing statement may
  drop the claim of a busy row: hence the assumptions.
* **OutcomeIsKept.** Inductive: `OutcomeInv`, the row in the worker's hand is
  complete only from the end of its run to the end of the claim (`Over`), so that a
  step which marks the row either comes before the outcome or is `apply`, which
  looks. A terminal may complete the row the worker has claimed, which the worker
  then marks: hence `Clis = {}`.
* **FlipWins.** Inductive: `FlipInv`, a row flipped before the re-read stays paused
  or cancelled, and if the worker has it in hand it is at a place from which it
  turns back (`Turning`). It rests on what recovery may do (`ServiceInv`: no row it has
  still to write is paused, cancelled or absent, and without a service nobody is on the
  way) and on calls and claims being of submitted jobs (`RowInv`). A terminal's
  scan or run overwrites a flip, so `Clis = {}` here too.
* **StopHolds.** Inductive: `AskInv`, with those. The history of an asked stop is tied to
  where the stop is: the controller's intent of the active job, the worker's hand at
  `apply`, or a row that is not pending any more because the run had ended. A failing
  statement in `_apply_intent` drops the claim with the row still pending, and the stop
  is lost: hence `~Faults`. The code logs and goes on there.
* **AllowanceHolds.** Inductive: `Allowance` with `Quiet` and `PassOne`. The
  second pass may list a file again, and only a row that is `changed` goes
  through it, which has made no attempt in this run.
* **VerdictSettles.** Inductive: `Settling`, under `RunInv`. What the first pass leaves
  changed is listed by the second (`BetweenPasses`), a row is in between only while
  its task is out (`InPass`, `CaughtIsOut`), so that the audit begins over settled
  rows (`AtAudit`). A run that leaves early has no verdict and may leave anything.
* **SpentIsQuarantined, RejectionPauses.** Inductive: `LeaveInv` under `RunInv`. A file whose
  allowance is used up is in its task's hand between the failure and its
  quarantine (`OverdueIsCaught`): when the verdict falls no task is out, so none is left.
  A file that met a rejected credential has had its last attempt of the run, and its task
  stays `paused` (`RejectedIsHeld`): no pass is done while one is, and every way out but
  the audit's leaves no verdict.
* **RunKeepsPromise.** Step simulation under `RunInv`. `Quiet` gives that rows
  move by tasks only while no verdict stands; `Audited` that a delivered row is
  looked at or found when the verdict is computed; `CaughtNotDelivered` that
  quarantine never takes a delivered file out of the ledger.
* **SlicesFitAlways.** Inductive: the slice cut in turn i begins at `(i - 1) * Full` and
  is `Full` long, or what is left (`InPlace`); the cursor is behind the last (`Reached`). The number
  of slices follows from facts on rounding up (`CeilCounts`). No size is
  excluded, nor a policy whose minimum is zero or negative.
* **OnlyTheFileAppears, ForeignWritesStay.** Inductive: `Inv`, in two halves. What the
  server has and may still execute (`BucketInv`): each session and each late request
  carries the generation of the first look as its precondition, which with the server's
  check of it is ForeignWriteStays; and while the file was never edited (`Once`), each that is
  for its name continues or is the file. What the program holds
  (`ProgramInv`): while the row's look is the file's last content (`Seen`) and no slices of an
  earlier one were left beside it (both: `Steady`), the
  row's slices and each stream's hash are pieces of that, whatever of an earlier content is
  left in the bucket. A change of the file sets `torn` when it finds slices, whose deletion is
  a later step, and only that deletion resets it; of a file never edited it is never set. What
  holds of torn slices, too, is that a stream sends into a session opened for its length
  (`Fits`), which is what a session's checks rest on. Temporary
  objects are anybody's, so nothing is said of them: the checksum combined of
  the slices has to meet that of the composed object, and the composition
  names the generations it takes. That slices tile a file (`SlicesTile`) is proved from the
  closed form, and that what is put together in their order is the file (`FlattenSeq`,
  a recursive function) from the well-foundedness of the naturals. The proof found an
  ambiguous CASE in `Join`, for a sliced upload whose first slice was found, of which
  TLC takes the first arm; it is an IF now.
* **UploadedSlicesAreKept, UploadStaysTyped.** Inductive: `TypedInv` and `LookedInv` over that `Inv`.
  A session has no more than it was opened for, and a chunk still on its way continues it
  within that (`ServerTyped`), so that contents stay contents; hence no checksum a row is given is none.
  A stream that may open a session looked its slice up to be something else than its row
  says (`LookedInv`). The proof found the earlier wording, which compared the row with the
  temporary object as it is when the session is opened, to hold only within the bounds of
  the run: a late chunk or another writer may put the object back between the attempt's look
  and that. The code goes by its look, so the property and the model's stream remember it.
* **BytesAreRight, FinishedStays.** Inductive: `Inv`. The checksums an attempt goes by are
  those of the rows (`Looked`), a call is under way only for a range that is not among them,
  and its bytes are written before its row (`Calls`), so that a part whose recorded
  checksums are the object's is the object (`PartIsWhole`). The proof found the earlier
  wording, "until a part was renamed once", told by the destination being a content of
  the object, too loose: a part of zeros that is renamed is no content, and the premise
  holds again. It is now that no part was begun anew beside recorded ranges, which covers
  renamed and removed parts and objects of another size alike, and ends when the rows go.
* **NothingIsLost.** Inductive: `KeptInv` with `Down`. Each credential is in one row or
  in the hand of the one request that saved it (`RowsApart`, `MakersApart`); a
  request that deletes a connection knows no other by the credential it will
  remove (`UnmakersApart`), although ids are given again, because credentials are
  not; a service that is down has no requests (`Down`), so that the sweep meets no
  credential on its way into a row. The highest id and the first free name are
  had from the well-foundedness of the naturals. That no credential is left behind
  needs `TidyInv` besides: while no id was given again, the ids that requests
  know are no higher than the last one given (`Counted`), the request about to delete a row
  knows that row's own credential (`Fresh`), and each credential is in a row or
  a hand (`Tidy`); a failure, a crash or a second use of an id excuses the rest.
* **StreamsTellAll.** Inductive: `FollowInv` under `JobInv`. The ticks of a stream join from what its
  follower has to what it has looked at (`Joined`), and each upper end lies between
  those two (`Rising`). The last tick is complete because a tick looks at
  the events after the row: it has all there are, and `sealed` is never ahead of those (`JobInv`). That the number of
  events is bounded, which WellTyped says, needs a count of what is still due at
  each place of the worker (`Due`) against the outages and crashes there were (`Allowed`).
* **TableTellsTheTruth.** Inductive: `TableInv`. Without a filter the rows are the files
  from the first on, as they were or are (`Good`), since files are only added behind. A
  refresh may be skipped only when nothing new was heard, and what is compared are counts:
  so what was heard is never ahead of the files (`HeardIsBehind`), verified files
  stay so, and when the counts have caught up the table has (`UpToDate`). The tick of a job at rest is
  the last (`LastIsTold`). The n-th matching file is had from an induction
  over the naturals that is done by well-foundedness.
* **NothingStaysHalfDone.** Inductive: `ProbeInv` and `OpenInv`. Each object of the probe is one
  still to be deleted, one whose deletion failed, or one whose answer never came
  (`Accounted`). An opener past a step has what that step makes (`Seen`), tables and columns only
  come, and a version is written only with its column there, by whichever opener added it (`Schema`);
  a database without a version has each column that its tables were made with.
* **WhatIsShownIsTrue, CancelledDialogsSendNothing.** Inductive: `DialogInv` and `FormInv`. A page that waits
  has the one request of its generation under way and no other page has it (`Awaited`), so that
  an answer either finds the page that asked or counts for nothing: the fifth
  probe passes with the service's answer alone. A refusal names a connection that is
  `used`, which stays. A preview that still counts was asked for what the form shows, or a
  new one is about to be (`PreviewFits`).
* **SettingsKept.** Inductive: `SettingsInv`. Unless saves overlapped, at most one is handled
  and the temporary file is its own (`OneAtATime`); of a dialog that nobody else's save has
  made stale, what it loaded, what it sends and what is merged from that say of the next
  start what the file says (`Faithful`).
* **ConnectingStaysTyped.** From those invariants, and for Profiles `WithinInv`: the ids
  given are no higher than the number of credentials saved that no request still has in hand, and one
  more for the connection that a submission to a bucket made without a credential
  (`Given`), because every id is given for one of them.
* **SelectionIsFollowed, SelectionMovesByTheUser, RailAgrees, TypeCorrect** of the desktop. Inductive:
  `Inv`, of which the window's part is a property of the record `win` alone, so that each
  slot, an operator from windows to windows, is shown once to keep it (`Shaped`, `Railed`)
  and every step that runs the slot cites that lemma. The watch is the selection's
  because at most one signal of the current watch is under way and is of its job
  (`Followed`). The proof found the earlier wording of SelectionIsTheUsers to hold only
  for two gestures: archive, take out again, and the late answer of the first takes
  the selection of a job that is in the list. The property now says when
  that may be.

Liveness (and all use of fairness) is model-checked only: the prover has no
support for ENABLED: FileIsDelivered, RunEnds, StopEndsTheClaim, InterruptedJobReturns,
HeadOfQueueIsServed, NobodyWaitsForEver, WhatIsBegunEnds and the liveness half of RailCatchesUp stay with TLC.
With terminals the three of stops and outcomes do not hold, and no run checks them.
CombinedIsWhole is about a computation over data and
stays with TLC, as does CrcCombine's type invariant (in WellTyped of Transfers): both need an
induction over folds, the first over the bits of the length besides.

## 5. Not modelled

The scanner's walk and the mapping of paths to object names, reports, the
process's security descriptors, OAuth and DPAPI, the Windows service wrapper,
argument parsing, and what the desktop paints: I/O or presentation, with no state
the properties above depend on. Of the modelled parts: times (heartbeats, delays
between retries, throttles only as elapsed or not), the classification of exceptions
by type and status, texts, a power loss (a crash is the death of a process), and
two files of one job that share a path on disk.
