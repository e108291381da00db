---------------------------- MODULE JobQueue ----------------------------
(***************************************************************************)
(* The job queue of the transfer service: the rows of the jobs table, the  *)
(* one queue worker thread that claims, scans and runs them, the API       *)
(* handlers that pause, cancel, resume and archive them from other         *)
(* threads, the controller the two share, the direct command-line runs     *)
(* (other processes on the same database), the per-job run lock, and the   *)
(* crash, stop and startup recovery of the service.                        *)
(*                                                                         *)
(* SQLite runs in autocommit mode, so every statement is a step of its own *)
(* and a handler is as many steps as it has statements and controller      *)
(* calls. What a run does to the files of its job is module JobRun; here a *)
(* run ends in any of the outcomes run_job has.                            *)
(***************************************************************************)
EXTENDS Naturals, Sequences

CONSTANTS
  Jobs,        \* job ids: the jobs table's autoincrement key
  Dests,       \* destinations: (source, bucket, prefix) as find_active_duplicate compares them
  Worker,      \* the service's queue worker thread
  Apis,        \* the service's request threads
  Clis,        \* terminals that run `mmlcc transfer` and `mmlcc resume` without the service
  Calls,       \* the calls users make, of Ops
  Scheduling,  \* BOOLEAN: submissions may carry a scheduled start
  AutoResume,  \* config.auto_resume_on_startup
  Faults,      \* BOOLEAN: SQLite statements and the opening of a lock file may fail
  MaxCrashes   \* bound on the crashes and stops of the service

NoOne == "no one"
NoJob == 0
NoDest == "no destination"

ASSUME JobsAssumption == Jobs \subseteq Nat \ {0}
ASSUME RunnersAssumption == Worker \notin Clis /\ NoOne \notin Clis \cup {Worker}
ASSUME FlagsAssumption == {Scheduling, AutoResume, Faults} \subseteq BOOLEAN /\ MaxCrashes \in Nat
ASSUME CallsAssumption == Calls \subseteq {"pause", "cancel", "resume", "archive", "unarchive"}
ASSUME DestsAssumption == NoDest \notin Dests

VARIABLES
  \* rows of the jobs table
  status,      \* JobStatus, or "absent" before the INSERT
  started,     \* started_at IS NOT NULL
  manifest,    \* how much of the source the job_files rows cover
  archived,    \* archived_at IS NOT NULL
  dest,        \* the destination
  profiled,    \* profile_id IS NOT NULL
  waiting,     \* scheduled_start_at lies in the future
  \* the runners: the worker and the terminals
  pc,          \* where each stands
  claim,       \* the job each has in hand
  target,      \* the destination a terminal was given
  fresh,       \* the worker's job["started_at"] is None, as _pick read it
  taken,       \* the intent job_finished returned to the worker
  lock,        \* who holds each job's run lock (an OS lock: it dies with its holder)
  \* JobController
  active, intent, stopEvent, serviceStop,
  \* the service process
  svc,         \* "down", "recovering" or "up"
  left, todo,  \* startup_recovery: statuses still to sweep, jobs read for this one
  crashes,     \* how often the service went down (bound)
  \* the request threads
  api,
  \* history: how the last stop acknowledged for a job, and not revoked since,
  \* took: "asked" of the controller, "applied" by the worker, "flipped" in the
  \* row by the handler, or flipped too "late" for the worker to read it
  ack

rows == <<status, started, manifest, archived, dest, profiled, waiting>>
ctl == <<active, intent, stopEvent, serviceStop>>
locals == <<target, fresh, taken>>
boot == <<svc, left, todo, crashes>>
vars == <<rows, pc, claim, locals, lock, ctl, boot, api, ack>>

Runners == Clis \cup {Worker}
Statuses == {"pending", "scanning", "running", "stalled", "paused",
             "incomplete", "complete", "cancelled"}
Outcomes == {"complete", "incomplete", "paused", "stopped", "raised"}
\* The places inside `with job_run_lock`.
Locked == {"start", "running"} \cup Outcomes
Pcs == Locked \cup {"idle", "no profile", "picked", "check", "scan", "scanning", "ready",
                    "lock", "contended", "fail", "probe", "stall", "stalled", "unstall",
                    "report", "finish", "apply", "applying", "create"}
Intents == {"none", "pause", "cancel"}
Ops == {"pause", "cancel", "resume", "archive"}   \* those of more than one step

RowsOK ==
  /\ status \in [Jobs -> Statuses \cup {"absent"}]
  /\ started \in [Jobs -> BOOLEAN]
  /\ manifest \in [Jobs -> {"none", "partial", "full"}]
  /\ archived \in [Jobs -> BOOLEAN]
  /\ dest \in [Jobs -> Dests \cup {NoDest}]
  /\ profiled \in [Jobs -> BOOLEAN]
  /\ waiting \in [Jobs -> BOOLEAN]
RunnersOK ==
  /\ pc \in [Runners -> Pcs]
  /\ claim \in [Runners -> Jobs \cup {NoJob}]
  /\ target \in [Clis -> Dests \cup {NoDest}]
  /\ fresh \in BOOLEAN
  /\ taken \in Intents
  /\ lock \in [Jobs -> Runners \cup {NoOne}]
ControllerOK ==
  /\ active \in Jobs \cup {NoJob}
  /\ intent \in Intents
  /\ stopEvent \in BOOLEAN
  /\ serviceStop \in BOOLEAN
ServiceOK ==
  /\ svc \in {"down", "recovering", "up"}
  /\ left \in 0..3
  /\ todo \in SUBSET Jobs
  /\ crashes \in 0..MaxCrashes
CallsOK ==
  /\ api \in [Apis -> [at: {"idle", "request", "write"}, op: Ops,
                       job: Jobs \cup {NoJob}, busy: BOOLEAN]]
  /\ \A a \in Apis :
       /\ api[a].at # "idle" => api[a].job \in Jobs
       /\ api[a].at = "request" => api[a].op \in {"pause", "cancel"}
  /\ ack \in [Jobs -> {"none", "asked", "applied", "flipped", "late"}]
TypeOK == RowsOK /\ RunnersOK /\ ControllerOK /\ ServiceOK /\ CallsOK

NoCall == [at |-> "idle", op |-> "pause", job |-> NoJob, busy |-> FALSE]

Init ==
  /\ status = [j \in Jobs |-> "absent"]
  /\ started = [j \in Jobs |-> FALSE]
  /\ manifest = [j \in Jobs |-> "none"]
  /\ archived = [j \in Jobs |-> FALSE]
  /\ dest = [j \in Jobs |-> NoDest]
  /\ profiled = [j \in Jobs |-> FALSE]
  /\ waiting = [j \in Jobs |-> FALSE]
  /\ pc = [p \in Runners |-> "idle"]
  /\ claim = [p \in Runners |-> NoJob]
  /\ target = [c \in Clis |-> NoDest]
  /\ fresh = FALSE
  /\ taken = "none"
  /\ lock = [j \in Jobs |-> NoOne]
  /\ active = NoJob /\ intent = "none" /\ stopEvent = FALSE /\ serviceStop = FALSE
  /\ svc = "down" /\ left = 0 /\ todo = {} /\ crashes = 0
  /\ api = [a \in Apis |-> NoCall]
  /\ ack = [j \in Jobs |-> "none"]

---------------------------------------------------------------------------
(* Helpers *)

\* A thread's step from one place to the next.
Goto(p, from, to) == pc[p] = from /\ pc' = [pc EXCEPT ![p] = to]

\* JobRepository.set_job_status: one unconditional UPDATE.
SetStatus(j, s) == status' = [status EXCEPT ![j] = s]
OnlyStatus == UNCHANGED <<started, manifest, archived, dest, profiled, waiting>>

\* JobRepository.create_job, with the id AUTOINCREMENT gives.
CreateJob(j, d, withProfile, later) ==
  /\ status[j] = "absent" /\ \A k \in Jobs : k < j => status[k] # "absent"
  /\ SetStatus(j, "pending")
  /\ dest' = [dest EXCEPT ![j] = d]
  /\ profiled' = [profiled EXCEPT ![j] = withProfile]
  /\ waiting' = [waiting EXCEPT ![j] = later]
  /\ UNCHANGED <<started, manifest, archived>>

\* JobRepository.find_active_duplicate, read as one SELECT.
ActiveStatuses == {"pending", "scanning", "running", "paused", "stalled", "incomplete"}
Duplicate(d) == \E j \in Jobs : status[j] \in ActiveStatuses /\ dest[j] = d

\* JobRepository.next_eligible_job: the lowest pending id whose time has come.
NeverStarted(j) == status[j] = "pending" /\ ~waiting[j] /\ ~started[j]
Eligible(j) == status[j] = "pending" /\ ~waiting[j]
NextEligible(j) == Eligible(j) /\ \A k \in Jobs : k < j => ~Eligible(k)

\* What options.should_stop and the worker's own checks look at.
StopSeen == stopEvent \/ serviceStop

---------------------------------------------------------------------------
(* The worker: QueueWorker.run_once *)

\* _pick: the job's row is copied here and used until the claim ends.
Pick(j) ==
  /\ svc = "up" /\ ~serviceStop
  /\ NextEligible(j)
  /\ Goto(Worker, "idle", IF profiled[j] THEN "picked" ELSE "no profile")
  /\ claim' = [claim EXCEPT ![Worker] = j]
  /\ fresh' = ~started[j]
  /\ UNCHANGED <<rows, target, taken, lock, ctl, boot, api, ack>>

PauseUnprofiled ==
  /\ Goto(Worker, "no profile", "picked")
  /\ SetStatus(claim[Worker], "paused") /\ OnlyStatus
  /\ UNCHANGED <<claim, locals, lock, ctl, boot, api, ack>>

\* JobController.job_started
JobStarted ==
  /\ Goto(Worker, "picked", "check")
  /\ active' = claim[Worker] /\ intent' = "none" /\ stopEvent' = FALSE
  /\ UNCHANGED <<rows, claim, locals, lock, serviceStop, boot, api, ack>>

\* The top of _handle: the re-read of the row, the early returns, the context
\* (which a lost credential makes raise), and whether to scan.
NoReread == TRUE
RereadSaysGo == status[claim[Worker]] = "pending"
RescanOnlyWhenEmpty == fresh /\ manifest[claim[Worker]] = "none"
RescanNeeded == fresh
MayHandle == RereadSaysGo /\ ~StopSeen /\ profiled[claim[Worker]]
Check ==
  /\ \/ Goto(Worker, "check", "finish") /\ ~MayHandle
     \/ pc[Worker] = "check" /\ MayHandle
          /\ Goto(Worker, "check", IF RescanNeeded THEN "scan" ELSE "ready")
     \/ Goto(Worker, "check", "fail") /\ MayHandle
  /\ UNCHANGED <<rows, claim, locals, lock, ctl, boot, api, ack>>

\* The stop check between the scan and the run.
Ready ==
  /\ Goto(Worker, "ready", IF StopSeen THEN "finish" ELSE "lock")
  /\ UNCHANGED <<rows, claim, locals, lock, ctl, boot, api, ack>>

\* _record_lock_contention
Contended ==
  /\ Goto(Worker, "contended", "finish")
  /\ SetStatus(claim[Worker], "pending") /\ OnlyStatus
  /\ UNCHANGED <<claim, locals, lock, ctl, boot, api, ack>>

\* _record_failure
RecordFailure ==
  /\ Goto(Worker, "fail", "finish")
  /\ SetStatus(claim[Worker], "paused") /\ OnlyStatus
  /\ UNCHANGED <<claim, locals, lock, ctl, boot, api, ack>>

\* After an INCOMPLETE run: _network_failed and not _probe, or neither.
ProbeNetwork ==
  /\ \E to \in {"stall", "report"} : Goto(Worker, "probe", to)
  /\ UNCHANGED <<rows, claim, locals, lock, ctl, boot, api, ack>>

Report ==
  /\ Goto(Worker, "report", "finish")
  /\ UNCHANGED <<rows, claim, locals, lock, ctl, boot, api, ack>>

\* _stall: the row is written, then the loop waits, looks and probes.
Stall ==
  /\ Goto(Worker, "stall", "stalled")
  /\ SetStatus(claim[Worker], "stalled") /\ OnlyStatus
  /\ UNCHANGED <<claim, locals, lock, ctl, boot, api, ack>>

StallIgnoresStop == status[claim[Worker]] # "stalled"
StallOver == StopSeen \/ status[claim[Worker]] # "stalled"
StallExit ==
  /\ Goto(Worker, "stalled", "finish") /\ StallOver
  /\ UNCHANGED <<rows, claim, locals, lock, ctl, boot, api, ack>>

ProbeAnswers ==
  /\ Goto(Worker, "stalled", "unstall") /\ ~StallOver
  /\ UNCHANGED <<rows, claim, locals, lock, ctl, boot, api, ack>>

Unstall ==
  /\ Goto(Worker, "unstall", "finish")
  /\ SetStatus(claim[Worker], "pending") /\ OnlyStatus
  /\ UNCHANGED <<claim, locals, lock, ctl, boot, api, ack>>

\* The worker drops its claim and goes back to its loop; the locals are gone.
LetGo(from) ==
  /\ Goto(Worker, from, "idle") /\ claim' = [claim EXCEPT ![Worker] = NoJob]
  /\ fresh' = FALSE /\ taken' = "none"

\* JobController.job_finished
JobFinished ==
  /\ IF intent = "none"
     THEN LetGo("finish")
     ELSE Goto(Worker, "finish", "apply") /\ taken' = intent /\ UNCHANGED <<claim, fresh>>
  /\ active' = NoJob /\ intent' = "none"
  /\ UNCHANGED <<rows, target, lock, stopEvent, serviceStop, boot, api, ack>>

\* _apply_intent: the status is read, then written.
AlwaysApplies(j) == TRUE
AppliesToStalledOnly(j) == status[j] = "stalled"
IntentApplies(j) == status[j] \in {"pending", "stalled"}
ReadForIntent ==
  /\ pc[Worker] = "apply"
  /\ IF IntentApplies(claim[Worker])
     THEN Goto(Worker, "apply", "applying") /\ UNCHANGED <<claim, fresh, taken>>
     ELSE LetGo("apply")
  /\ UNCHANGED <<rows, target, lock, ctl, boot, api, ack>>

IntentAsStatus(op) == op
StopStatus(op) == IF op = "pause" THEN "paused" ELSE "cancelled"
ApplyIntent ==
  /\ LetGo("applying")
  /\ SetStatus(claim[Worker], StopStatus(taken)) /\ OnlyStatus
  /\ ack' = [ack EXCEPT ![claim[Worker]] = IF @ = "asked" THEN "applied" ELSE @]
  /\ UNCHANGED <<target, lock, ctl, boot, api>>

\* A statement of the worker's raises: run_once's finally still runs, and
\* run_forever goes on with the next iteration.
DbError ==
  /\ Faults
  /\ \/ /\ \/ \E from \in {"check", "contended", "fail", "probe", "stall", "stalled", "unstall"} :
                Goto(Worker, from, "finish")
           \/ Goto(Worker, "scan", "fail")
           \/ Goto(Worker, "start", "raised")
        /\ UNCHANGED <<claim, fresh, taken>>
     \/ \E from \in {"no profile", "apply", "applying"} : LetGo(from)
  /\ UNCHANGED <<rows, target, lock, ctl, boot, api, ack>>

---------------------------------------------------------------------------
(* Scanning and running, by the worker or by a terminal *)

\* A terminal's command ends; the worker goes on to `next`.
Leave(p, from, next) ==
  /\ Goto(p, from, IF p = Worker THEN next ELSE "idle")
  /\ claim' = IF p = Worker THEN claim ELSE [claim EXCEPT ![p] = NoJob]

\* run_scan and scan_remote: SCANNING, the batches, then PENDING. They hold no lock.
ScanStart(p) ==
  /\ Goto(p, "scan", "scanning")
  /\ SetStatus(claim[p], "scanning") /\ OnlyStatus
  /\ UNCHANGED <<claim, locals, lock, ctl, boot, api, ack>>

ScanBatch(p) ==
  /\ pc[p] = "scanning" /\ manifest[claim[p]] = "none"
  /\ manifest' = [manifest EXCEPT ![claim[p]] = "partial"]
  /\ UNCHANGED <<status, started, archived, dest, profiled, waiting>>
  /\ UNCHANGED <<pc, claim, locals, lock, ctl, boot, api, ack>>

ScanFinish(p) ==
  /\ Goto(p, "scanning", IF p = Worker THEN "ready" ELSE "lock")
  /\ SetStatus(claim[p], "pending")
  /\ manifest' = [manifest EXCEPT ![claim[p]] = "full"]
  /\ UNCHANGED <<started, archived, dest, profiled, waiting>>
  /\ UNCHANGED <<claim, locals, lock, ctl, boot, api, ack>>

ScanFail(p) ==
  /\ Leave(p, "scanning", "fail")
  /\ UNCHANGED <<rows, locals, lock, ctl, boot, api, ack>>

\* job_run_lock: one non-blocking attempt.
NeverRefused(j) == TRUE
LockFree(j) == lock[j] = NoOne
TakeLock(p) ==
  /\ Goto(p, "lock", "start")
  /\ LockFree(claim[p])
  /\ lock' = [lock EXCEPT ![claim[p]] = p]
  /\ UNCHANGED <<rows, claim, locals, ctl, boot, api, ack>>

LockRefused(p) ==
  /\ Leave(p, "lock", "contended")
  /\ ~LockFree(claim[p]) \/ Faults
  /\ UNCHANGED <<rows, locals, lock, ctl, boot, api, ack>>

\* run_job: start_job, the transfer, the closing status write, the unlock.
StartRun(p) ==
  /\ Goto(p, "start", "running")
  /\ SetStatus(claim[p], "running")
  /\ started' = [started EXCEPT ![claim[p]] = TRUE]
  /\ ack' = IF p = Worker THEN ack ELSE [ack EXCEPT ![claim[p]] = "none"]
  /\ UNCHANGED <<manifest, archived, dest, profiled, waiting>>
  /\ UNCHANGED <<claim, locals, lock, ctl, boot, api>>

EndRun(p, o) ==
  /\ Goto(p, "running", o)
  /\ CASE o = "stopped" -> p = Worker /\ StopSeen /\ SetStatus(claim[p], "pending")
       [] o = "raised" -> UNCHANGED status
       [] OTHER -> SetStatus(claim[p], o)
  /\ OnlyStatus
  /\ UNCHANGED <<claim, locals, lock, ctl, boot, api, ack>>

AfterRun == [o \in Outcomes |-> CASE o = "raised" -> "fail"
                                  [] o = "incomplete" -> "probe"
                                  [] o = "stopped" -> "finish"
                                  [] OTHER -> "report"]
ReleaseLock(p) ==
  /\ \E o \in Outcomes : Leave(p, o, AfterRun[o])
  /\ lock' = [lock EXCEPT ![claim[p]] = NoOne]
  /\ UNCHANGED <<rows, locals, ctl, boot, api, ack>>

---------------------------------------------------------------------------
(* Direct commands: run_transfer and run_resume without --service-url *)

\* A terminal needs its destination no more.
Forgets(c) == target' = [target EXCEPT ![c] = NoDest] /\ UNCHANGED <<fresh, taken>>

CliTransfer(c, d) ==
  /\ ~Duplicate(d)
  /\ Goto(c, "idle", "create")
  /\ target' = [target EXCEPT ![c] = d]
  /\ UNCHANGED <<rows, claim, fresh, taken, lock, ctl, boot, api, ack>>

CliCreate(c, j) ==
  /\ Goto(c, "create", "scan")
  /\ CreateJob(j, target[c], FALSE, FALSE)
  /\ claim' = [claim EXCEPT ![c] = j]
  /\ Forgets(c)
  /\ UNCHANGED <<lock, ctl, boot, api, ack>>

CliResume(c, j) ==
  /\ status[j] # "absent"
  /\ Goto(c, "idle", "lock")
  /\ claim' = [claim EXCEPT ![c] = j]
  /\ UNCHANGED <<rows, locals, lock, ctl, boot, api, ack>>

\* The terminal is closed or its process killed: the OS drops its lock.
CliKill(c) ==
  /\ pc[c] # "idle"
  /\ pc' = [pc EXCEPT ![c] = "idle"]
  /\ claim' = [claim EXCEPT ![c] = NoJob]
  /\ lock' = [j \in Jobs |-> IF lock[j] = c THEN NoOne ELSE lock[j]]
  /\ Forgets(c)
  /\ UNCHANGED <<rows, ctl, boot, api, ack>>

---------------------------------------------------------------------------
(* The API handlers *)

\* submit_job: the duplicate check and the INSERT share one BEGIN IMMEDIATE.
Submit(d, j) ==
  /\ svc = "up"
  /\ ~Duplicate(d)
  /\ \E later \in BOOLEAN : (later => Scheduling) /\ CreateJob(j, d, TRUE, later)
  /\ UNCHANGED <<pc, claim, locals, lock, ctl, boot, api, ack>>

TimePasses(j) ==
  /\ waiting[j]
  /\ waiting' = [waiting EXCEPT ![j] = FALSE]
  /\ UNCHANGED <<status, started, manifest, archived, dest, profiled>>
  /\ UNCHANGED <<pc, claim, locals, lock, ctl, boot, api, ack>>

\* The statuses in which each call goes past its first check.
Accepts == [pause   |-> {"running", "scanning", "stalled", "pending"},
            cancel  |-> {"running", "scanning", "stalled", "pending", "paused"},
            resume  |-> {"paused", "stalled", "incomplete", "cancelled"},
            archive |-> {"complete", "cancelled"}]

\* pause_job, cancel_job, resume_job and archive_job read the row first; a
\* refused call answers 409 and changes nothing.
Call(a, op, j) ==
  /\ svc = "up" /\ api[a].at = "idle"
  /\ status[j] \in Accepts[op]
  /\ op = "resume" => ~archived[j]
  /\ api' = [api EXCEPT ![a] = [at |-> IF op \in {"pause", "cancel"} THEN "request" ELSE "write",
                                op |-> op, job |-> j, busy |-> status[j] \in {"running", "scanning"}]]
  /\ UNCHANGED <<rows, pc, claim, locals, lock, ctl, boot, ack>>

\* JobController.request, and what pause_job and cancel_job do with its answer.
IsActive(j) == active = j
Request(a) ==
  LET j == api[a].job
  IN /\ api[a].at = "request"
     /\ IF IsActive(j)
        THEN /\ intent' = api[a].op /\ stopEvent' = TRUE
             /\ ack' = [ack EXCEPT ![j] = "asked"]
        ELSE UNCHANGED <<intent, stopEvent, ack>>
     /\ api' = [api EXCEPT ![a] = IF IsActive(j) \/ @.busy THEN NoCall   \* accepted, or 409
                                  ELSE [@ EXCEPT !.at = "write"]]
     /\ UNCHANGED <<rows, pc, claim, locals, lock, active, serviceStop, boot>>

\* The worker has the job in hand and will not look at its row again (history only).
PastReread(j) == claim[Worker] = j /\ pc[Worker] \notin {"no profile", "picked", "check"}

\* The UPDATE at the end of the handler.
Write(a) ==
  LET j == api[a].job
      op == api[a].op
  IN /\ api[a].at = "write"
     /\ IF op = "archive"
        THEN archived' = [archived EXCEPT ![j] = TRUE] /\ UNCHANGED <<status, ack>>
        ELSE /\ SetStatus(j, IF op = "resume" THEN "pending" ELSE StopStatus(op))
             /\ ack' = [ack EXCEPT ![j] = IF op = "resume" THEN "none"
                                          ELSE IF PastReread(j) THEN "late" ELSE "flipped"]
             /\ UNCHANGED archived
     /\ api' = [api EXCEPT ![a] = NoCall]
     /\ UNCHANGED <<started, manifest, dest, profiled, waiting>>
     /\ UNCHANGED <<pc, claim, locals, lock, ctl, boot>>

Unarchive(j) ==
  /\ svc = "up" /\ "unarchive" \in Calls /\ archived[j]
  /\ archived' = [archived EXCEPT ![j] = FALSE]
  /\ UNCHANGED <<status, started, manifest, dest, profiled, waiting>>
  /\ UNCHANGED <<pc, claim, locals, lock, ctl, boot, api, ack>>

---------------------------------------------------------------------------
(* The service process: ServiceHost and startup_recovery *)

\* The statuses startup_recovery sweeps, in its order.
ScanNotSwept == <<"running", "stalled">>
Swept == <<"running", "stalled", "scanning">>

Start ==
  /\ svc = "down"
  /\ svc' = "recovering" /\ left' = 1
  /\ UNCHANGED <<rows, pc, claim, locals, lock, ctl, todo, crashes, api, ack>>

\* jobs_with_status: one SELECT per status.
RecoverRead ==
  /\ svc = "recovering" /\ todo = {} /\ left > 0
  /\ todo' = {j \in Jobs : status[j] = Swept[left]}
  /\ left' = IF left < Len(Swept) THEN left + 1 ELSE 0
  /\ UNCHANGED <<rows, pc, claim, locals, lock, ctl, svc, crashes, api, ack>>

RecoverJob(j) ==
  /\ j \in todo
  /\ SetStatus(j, IF AutoResume THEN "pending" ELSE "paused") /\ OnlyStatus
  /\ todo' = todo \ {j}
  /\ UNCHANGED <<pc, claim, locals, lock, ctl, svc, left, crashes, api, ack>>

RecoverDone ==
  /\ svc = "recovering" /\ todo = {} /\ left = 0
  /\ svc' = "up"
  /\ UNCHANGED <<rows, pc, claim, locals, lock, ctl, left, todo, crashes, api, ack>>

\* ServiceHost.stop sets the flag every should_stop looks at.
StopService ==
  /\ svc = "up" /\ ~serviceStop /\ crashes < MaxCrashes
  /\ serviceStop' = TRUE
  /\ UNCHANGED <<rows, pc, claim, locals, lock, active, intent, stopEvent, boot, api, ack>>

\* The process ends: threads, controller and locks are gone, the rows stay.
GoDown ==
  /\ crashes < MaxCrashes /\ crashes' = crashes + 1
  /\ svc' = "down" /\ left' = 0 /\ todo' = {}
  /\ pc' = [pc EXCEPT ![Worker] = "idle"]
  /\ claim' = [claim EXCEPT ![Worker] = NoJob]
  /\ lock' = [j \in Jobs |-> IF lock[j] = Worker THEN NoOne ELSE lock[j]]
  /\ active' = NoJob /\ intent' = "none" /\ stopEvent' = FALSE /\ serviceStop' = FALSE
  /\ fresh' = FALSE /\ taken' = "none"
  /\ api' = [a \in Apis |-> NoCall]
  /\ ack' = [j \in Jobs |-> IF ack[j] = "asked" THEN "none" ELSE ack[j]]
  /\ UNCHANGED <<rows, target>>

\* stop() joined the worker and the API threads.
Exit ==
  /\ svc = "up" /\ serviceStop /\ pc[Worker] = "idle"
  /\ \A a \in Apis : api[a].at = "idle"
  /\ GoDown

\* A crash, or a stop() whose join timed out before the process ended.
Crash == svc # "down" /\ GoDown

---------------------------------------------------------------------------
Run(p) ==
  \/ ScanStart(p) \/ ScanBatch(p) \/ ScanFinish(p) \/ ScanFail(p)
  \/ TakeLock(p) \/ LockRefused(p) \/ StartRun(p) \/ ReleaseLock(p)
  \/ \E o \in Outcomes : EndRun(p, o)

\* What the worker thread does of itself, the network's return apart.
WorkerStep ==
  \/ \E j \in Jobs : Pick(j)
  \/ PauseUnprofiled \/ JobStarted \/ Check \/ Ready \/ Run(Worker)
  \/ Contended \/ RecordFailure \/ ProbeNetwork \/ Report
  \/ Stall \/ StallExit \/ Unstall
  \/ JobFinished \/ ReadForIntent \/ ApplyIntent

Terminal(c) ==
  \/ \E d \in Dests : CliTransfer(c, d)
  \/ \E j \in Jobs : CliCreate(c, j) \/ CliResume(c, j)
  \/ Run(c) \/ CliKill(c)

Handler(a) ==
  \/ \E op \in Ops \cap Calls, j \in Jobs : Call(a, op, j)
  \/ Request(a) \/ Write(a)

Recovery == RecoverRead \/ (\E j \in Jobs : RecoverJob(j)) \/ RecoverDone

Next ==
  \/ WorkerStep \/ ProbeAnswers \/ DbError
  \/ \E c \in Clis : Terminal(c)
  \/ \E a \in Apis : Handler(a)
  \/ \E d \in Dests, j \in Jobs : Submit(d, j)
  \/ \E j \in Jobs : TimePasses(j) \/ Unarchive(j)
  \/ Start \/ Recovery \/ StopService \/ Exit \/ Crash

Spec == Init /\ [][Next]_vars

\* The worker is a thread that nothing blocks for good; a service that is down
\* is started again (sc failure ... restart, or the operator) and finishes its
\* recovery; handlers run to their end; a stopping server stops taking calls, so
\* that its threads are joined at last. That an outage ends is not assumed here.
Fairness ==
  /\ WF_vars(WorkerStep) /\ WF_vars(Start) /\ WF_vars(Recovery) /\ SF_vars(Exit)
  /\ \A a \in Apis : WF_vars(Request(a)) /\ WF_vars(Write(a))

---------------------------------------------------------------------------
(* Properties *)

\* At most one process is inside run_job for a job: the worker and the
\* terminals exclude one another through the run lock (joblock.py), and no
\* crash or kill leaves the lock behind or takes it from its holder.
OneRunPerJob ==
  /\ \A p, q \in Runners :
       p # q /\ pc[p] \in Locked /\ pc[q] \in Locked => claim[p] # claim[q]
  /\ \A j \in Jobs : lock[j] # NoOne => pc[lock[j]] \in Locked /\ claim[lock[j]] = j

\* A job is COMPLETE only over a manifest whose scan ran to its end, whatever
\* crashes, stops and failed scans came before (worker.py, the rescan rule).
CompleteMeansWholeManifest ==
  \A j \in Jobs : status[j] = "complete" => manifest[j] = "full"

\* While the service is up, a row marked running, scanning or stalled is the
\* one the worker has in hand: none is left for the queue never to pick again
\* (next_eligible_job sees PENDING rows only). A stall that ended because the
\* service is stopping waits for the next start.
BusyRowHasOwner ==
  svc = "up" => \A j \in Jobs :
    status[j] \in {"running", "scanning", "stalled"} =>
      \/ claim[Worker] = j
      \/ status[j] = "stalled" /\ serviceStop

\* No step of the worker takes a row out of COMPLETE: a late pause or cancel
\* intent leaves the real outcome (worker.py, _apply_intent).
WorkerKeepsOutcome ==
  [][\A j \in Jobs : status[j] = "complete" /\ status'[j] # "complete"
                        => pc'[Worker] = pc[Worker]]_vars

\* Once a pause or cancel was accepted, by JobController.request or in the row
\* before the worker's re-read, the worker does not pick the job up again until
\* the user resumes it or the service dies before the stop reached the row.
AcceptedStopNeverRepicked ==
  [][\A j \in Jobs : ack[j] \in {"asked", "applied", "flipped"} /\ claim[Worker] # j
                        => claim'[Worker] # j]_vars

\* A row flipped between _pick and the worker's re-read is never run (worker.py,
\* the comment at the top of _handle): its job goes into no scan and no run. A flip
\* after the re-read is overwritten.
FlipBeforeRereadWins ==
  [][\A j \in Jobs : ack[j] = "flipped" /\ status'[j] # status[j]
                        => status'[j] \notin {"scanning", "running"}]_vars

\* An accepted stop ends the claim, wherever it finds the worker: in a scan,
\* in a run, or in the stall loop with the network still down.
StopEndsTheClaim ==
  \A j \in Jobs : active = j /\ stopEvent ~> active # j

\* A job a crash left running, stalled or scanning gets back to a status the
\* queue or the user can act on.
InterruptedJobReturns ==
  \A j \in Jobs : (svc = "down" /\ status[j] \in {"running", "scanning", "stalled"})
                     ~> status[j] \in {"pending", "paused", "cancelled"}

\* The oldest job that waits for nothing but the worker, interrupted before or
\* not, is served: it stops being pending, or an older one comes due, if
\* outages end.
Due(j) == status[j] = "pending" /\ ~waiting[j]
HeadOfQueueIsServed ==
  WF_vars(ProbeAnswers) =>
    \A j \in Jobs : Due(j) ~> status[j] # "pending" \/ \E k \in Jobs : k < j /\ Due(k)
=============================================================================
