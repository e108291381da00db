----------------------------- MODULE JobRun -----------------------------
(***************************************************************************)
(* What a run does to the files of one job: run_job with its two passes,   *)
(* its pool of file workers and the audit, the retry and quarantine rules, *)
(* and around it the source that changes, the destination that loses       *)
(* objects, crashes, the repeated runs of a resumed job and the user's     *)
(* retry and exclude actions. Which runs there are is module JobQueue's    *)
(* concern; the run lock it has (OneRunPerJob) lets this one have a single *)
(* run at a time. How one attempt moves the bytes is left out here.        *)
(***************************************************************************)
EXTENDS Naturals, FiniteSets

CONSTANTS
  Files,              \* job_files ids of the job
  Nothing,            \* no object at the destination
  WorkerCounts,       \* the values EngineOptions.file_workers may have
  MaxAttempts,        \* RetrySchedule.max_attempts
  QuarantineAttempts, \* QUARANTINE_ATTEMPTS
  UserActions,        \* BOOLEAN: the user retries or excludes groups of errors
  Faults,             \* BOOLEAN: SQLite statements may fail
  MaxRuns,            \* bound on the runs of the job
  MaxEdits,           \* bound on the changes of one source file
  MaxLosses           \* bound on the objects lost at the destination

ASSUME FilesAssumption == Files \subseteq Nat /\ IsFiniteSet(Files) /\ Nothing \notin Nat
ASSUME AttemptsAssumption ==
  /\ MaxAttempts \in Nat \ {0} /\ QuarantineAttempts \in Nat \ {0}
  /\ WorkerCounts \subseteq Nat \ {0}
ASSUME BoundsAssumption ==
  /\ {UserActions, Faults} \subseteq BOOLEAN
  /\ {MaxRuns, MaxEdits, MaxLosses} \subseteq Nat

VARIABLES
  status,    \* the job's status, as far as a run reads or writes it
  upload,    \* the job's direction
  \* rows of job_files
  state,     \* FileState
  attempts,  \* the cumulative count
  category,  \* error_category, by how the engine treats it
  seen,      \* the source version whose size and mtime the row has
  \* the world
  source,    \* version of each source file
  held,      \* version the destination has, or Nothing
  \* run_job's own thread
  main,      \* where it stands
  pass,      \* 1 or 2
  workers,   \* the pool's size
  exit,      \* how the pool is being left
  listed,    \* files the audit found
  unaudited, \* files it has still to look at
  stop,      \* options.should_stop()
  \* the pool's tasks, one per listed file
  task,      \* where each stands
  try,       \* attempts made in this run
  again,     \* its row was `changed` when the pass listed it
  \* an error-group action of the user between its check and its UPDATE
  action,
  runs, losses   \* bounds

rows == <<state, attempts, category, seen>>
world == <<source, held>>
run == <<main, pass, workers, exit, listed, unaudited>>
pool == <<task, try, again>>
bounds == <<runs, losses>>
vars == <<status, upload, rows, world, run, stop, pool, action, bounds>>

FileStates == {"pending", "transferring", "verified", "skipped", "changed", "failed", "quarantined"}
Delivered == {"verified", "skipped"}
NotRetried == Delivered \cup {"quarantined"}
\* The error categories: worth a retry, pausing the job, or neither.
Categories == {"transient", "pausing", "permanent"}
Ended == {"done", "paused", "stopped", "raised", "cancelled"}
Working == {"stat", "loop", "transfer", "stored", "marked", "caught transient", "caught permanent"}
NoAction == [kind |-> "none", category |-> "none"]

RowsOK ==
  /\ state \in [Files -> FileStates]
  /\ attempts \in [Files -> Nat]
  /\ category \in [Files -> Categories \cup {"none"}]
  /\ seen \in [Files -> Nat]
WorldOK ==
  /\ source \in [Files -> Nat]
  /\ held \in [Files -> Nat \cup {Nothing}]
RunOK ==
  /\ status \in {"pending", "running", "paused", "incomplete", "complete"}
  /\ main \in {"idle", "list", "wait", "event", "cancel", "drain", "audit", "auditing"}
  /\ pass \in {1, 2} /\ workers \in WorkerCounts
  /\ exit \in {"none", "paused", "stopped", "raised"}
  /\ listed \subseteq Files /\ unaudited \subseteq Files
  /\ {upload, stop} \subseteq BOOLEAN
PoolOK ==
  /\ task \in [Files -> {"none", "queued"} \cup Working \cup Ended]
  /\ try \in [Files -> Nat]
  /\ again \in [Files -> BOOLEAN]
OthersOK ==
  /\ action \in [kind: {"none", "retry", "exclude"}, category: Categories \cup {"none"}]
  /\ runs \in 0..MaxRuns /\ losses \in 0..MaxLosses
TypeOK == RowsOK /\ WorldOK /\ RunOK /\ PoolOK /\ OthersOK

Init ==
  /\ status = "pending"
  /\ upload \in BOOLEAN
  /\ state = [f \in Files |-> "pending"]
  /\ attempts = [f \in Files |-> 0]
  /\ category = [f \in Files |-> "none"]
  /\ seen = [f \in Files |-> 0] /\ source = [f \in Files |-> 0]
  /\ held \in [Files -> {0, Nothing}]
  /\ main = "idle" /\ pass = 1 /\ workers \in WorkerCounts /\ exit = "none"
  /\ listed = {} /\ unaudited = {} /\ stop = FALSE
  /\ task = [f \in Files |-> "none"]
  /\ try = [f \in Files |-> 0]
  /\ again = [f \in Files |-> FALSE]
  /\ action = NoAction
  /\ runs = 0 /\ losses = 0

---------------------------------------------------------------------------
(* Helpers *)

First(f, F) == f \in F /\ \A g \in F : f <= g
InTask(S) == {f \in Files : task[f] \in S}
Goto(f, from, to) == task[f] = from /\ task' = [task EXCEPT ![f] = to]
\* The task's last statement, the event it records, may fail.
Finish(f, from) == \E to \in {"done"} \cup IF Faults THEN {"raised"} ELSE {} : Goto(f, from, to)
SetState(f, s) == state' = [state EXCEPT ![f] = s]

\* JobRepository.mark_failed
MarkFailed(f, c) ==
  /\ SetState(f, "failed")
  /\ attempts' = [attempts EXCEPT ![f] = @ + 1]
  /\ category' = [category EXCEPT ![f] = c]
  /\ UNCHANGED seen

\* JobRepository.mark_verified, mark_skipped
MarkDelivered(f, s) ==
  /\ SetState(f, s)
  /\ category' = [category EXCEPT ![f] = "none"]
  /\ UNCHANGED <<attempts, seen>>

\* JobRepository.reset_stale_transfers, for the rows whose heartbeat is old enough.
ResetStale(F) ==
  /\ state' = [f \in Files |-> IF f \in F /\ state[f] = "transferring" THEN "pending" ELSE state[f]]
  /\ UNCHANGED <<attempts, category, seen>>

---------------------------------------------------------------------------
(* run_job's thread *)

\* job_run_lock, start_job and reset_stale_transfers; a resumed job may have any status.
Begin ==
  /\ main = "idle" /\ runs < MaxRuns
  /\ runs' = runs + 1
  /\ status' = "running"
  /\ \E F \in SUBSET Files : ResetStale(F)
  /\ main' = "list" /\ listed' = {}
  /\ workers' \in WorkerCounts
  /\ UNCHANGED <<upload, world, stop, pool, action, losses, pass, exit, unaudited>>

\* iter_pending_files, the second pass's filter, and the tasks handed to the pool.
EveryPass(f) == state[f] \notin NotRetried
ForPass(f) == state[f] \notin NotRetried /\ (pass = 2 => state[f] = "changed")
List ==
  /\ main = "list"
  /\ LET pending == {f \in Files : ForPass(f)}
     IN /\ task' = [f \in Files |-> IF f \in pending THEN "queued" ELSE "none"]
        /\ again' = [f \in Files |-> f \in pending /\ state[f] = "changed"]
        /\ main' = IF pending = {} THEN "audit" ELSE "wait"
  /\ UNCHANGED <<status, upload, rows, world, stop, try, action, bounds>>
  /\ UNCHANGED <<pass, workers, exit, listed, unaudited>>

\* The futures are awaited in order: the first that has not simply returned
\* decides. The workers of the pool go on meanwhile.
Unrejected == {f \in Files : task[f] \notin {"none", "done", "paused"}}
Unreturned == {f \in Files : task[f] \notin {"none", "done"}}
Await ==
  /\ main = "wait"
  /\ \E f \in Files :
       /\ First(f, Unreturned) /\ task[f] \in {"paused", "stopped", "raised"}
       /\ exit' = task[f]
       /\ main' = IF task[f] = "raised" THEN "drain" ELSE "event"
  /\ UNCHANGED <<status, upload, rows, world, stop, pool, action, bounds>>
  /\ UNCHANGED <<pass, workers, listed, unaudited>>

Leaving == UNCHANGED <<status, upload, rows, world, stop, try, again, action, bounds, pass, workers,
                       listed, unaudited>>

\* run_paused or run_stopped is recorded first; when that fails, nothing is cancelled.
RecordEvent ==
  /\ main = "event" /\ UNCHANGED task
  /\ \/ main' = "cancel" /\ UNCHANGED exit
     \/ Faults /\ main' = "drain" /\ exit' = "raised"
  /\ Leaving

\* shutdown(cancel_futures=True) empties the queue from its head, as the workers do.
Cancel ==
  /\ main = "cancel" /\ UNCHANGED exit
  /\ \/ \E f \in Files :
          /\ First(f, InTask({"queued"}))
          /\ Goto(f, "queued", "cancelled") /\ UNCHANGED main
     \/ InTask({"queued"}) = {} /\ main' = "drain" /\ UNCHANGED task
  /\ Leaving

PassDone ==
  /\ main = "wait" /\ Unreturned = {}
  /\ main' = IF pass = 1 THEN "list" ELSE "audit"
  /\ pass' = 2
  /\ UNCHANGED <<status, upload, rows, world, stop, pool, action, bounds>>
  /\ UNCHANGED <<workers, exit, listed, unaudited>>

\* run_job returns or raises: the job's status is what it left in the row, and
\* what it kept in memory is gone.
Return(s) ==
  /\ main' = "idle" /\ status' = s
  /\ stop' = FALSE /\ pass' = 1 /\ exit' = "none" /\ unaudited' = {}
  /\ task' = [f \in Files |-> "none"]
  /\ try' = [f \in Files |-> 0]
  /\ again' = [f \in Files |-> FALSE]
  /\ UNCHANGED <<upload, world, workers, listed, action, bounds>>

IntentAsStatus == IF exit = "raised" THEN status ELSE exit
StatusLeft == CASE exit = "paused" -> "paused" [] exit = "stopped" -> "pending" [] OTHER -> status

\* The `with` block of the pool waits for the tasks that run, and after an
\* error for all that are queued too.
Drained ==
  /\ main = "drain" /\ InTask(Working \cup {"queued"}) = {}
  /\ Return(StatusLeft)
  /\ UNCHANGED rows

\* _audit: the rows that count as delivered are held against the destination;
\* an upload's prefix is listed once, a download's files are looked at in turn.
AuditStart ==
  /\ main = "audit"
  /\ main' = "auditing"
  /\ unaudited' = {f \in Files : state[f] \in Delivered}
  /\ listed' = IF upload THEN {f \in Files : held[f] # Nothing} ELSE {}
  /\ UNCHANGED <<status, upload, rows, world, stop, pool, action, bounds>>
  /\ UNCHANGED <<pass, workers, exit>>

\* Missing, or another size or checksum than the row has: a row whose source
\* changed after it was looked at may or may not have the size of what was sent.
NeverMissing(f) == TRUE
Found(f) == IF upload THEN f \in listed ELSE held[f] # Nothing
AuditRow ==
  /\ main = "auditing"
  /\ \E f \in Files :
       /\ First(f, unaudited)
       /\ unaudited' = unaudited \ {f}
       /\ \/ Found(f) /\ listed' = listed \cup {f} /\ UNCHANGED rows
          \/ /\ ~Found(f) \/ held[f] # seen[f]
             /\ MarkFailed(f, "permanent") /\ UNCHANGED listed
  /\ UNCHANGED <<status, upload, world, stop, pool, action, bounds>>
  /\ UNCHANGED <<main, pass, workers, exit>>

\* The listing or a statement of the audit raises: never COMPLETE.
AuditError ==
  /\ main \in {"audit", "auditing"}
  /\ Return("incomplete")
  /\ UNCHANGED rows

\* job_verdict and finish_job
CountsDelivered(f) == state[f] \in Delivered
Verdict ==
  /\ main = "auditing" /\ unaudited = {}
  /\ Return(IF \A f \in Files : CountsDelivered(f) THEN "complete" ELSE "incomplete")
  /\ UNCHANGED rows

---------------------------------------------------------------------------
(* _process_file, in the pool *)

PoolStep == UNCHANGED <<status, upload, run, stop, action, bounds>>

\* A free worker of the pool takes the oldest queued task.
OneFewer == Cardinality(InTask(Working)) + 1 < workers
WorkerFree == Cardinality(InTask(Working)) < workers
Take(f) ==
  /\ WorkerFree
  /\ First(f, InTask({"queued"}))
  /\ Goto(f, "queued", IF upload THEN "stat" ELSE "loop")
  /\ UNCHANGED <<rows, world, try, again>> /\ PoolStep

\* The source is gone, locked or cannot be reached: the failure is counted, and
\* that is all.
StatFails(f) ==
  /\ Goto(f, "stat", "done")
  /\ \E c \in {"transient", "permanent"} : MarkFailed(f, c)
  /\ UNCHANGED <<world, try, again>> /\ PoolStep

NeverAgain(f) == FALSE
ChangedAgain(f) == again[f]
Stat(f) ==
  /\ IF source[f] = seen[f]
     THEN Goto(f, "stat", "loop") /\ UNCHANGED rows
     ELSE IF ChangedAgain(f)
     THEN Goto(f, "stat", "done") /\ MarkFailed(f, "permanent")
     ELSE /\ Finish(f, "stat")
          /\ SetState(f, "changed")           \* mark_changed
          /\ seen' = [seen EXCEPT ![f] = source[f]]
          /\ UNCHANGED <<attempts, category>>
  /\ UNCHANGED <<world, try, again>> /\ PoolStep

\* The head of the attempts loop: should_stop, then mark_transferring.
Loop(f) ==
  /\ IF stop
     THEN Goto(f, "loop", "stopped") /\ UNCHANGED <<rows, try>>
     ELSE /\ Goto(f, "loop", "transfer")
          /\ SetState(f, "transferring") /\ UNCHANGED <<attempts, category, seen>>
          /\ try' = [try EXCEPT ![f] = @ + 1]
  /\ UNCHANGED <<world, again>> /\ PoolStep

\* _transfer_once: the bytes reach the destination and are verified there; the
\* row is marked afterwards.
Store(f) ==
  /\ Goto(f, "transfer", "stored")
  /\ held' = [held EXCEPT ![f] = source[f]]
  /\ UNCHANGED <<rows, source, try, again>> /\ PoolStep

\* Or the destination has them already.
Skip(f) ==
  /\ Goto(f, "transfer", "marked")
  /\ held[f] = source[f]
  /\ MarkDelivered(f, "skipped")
  /\ UNCHANGED <<world, try, again>> /\ PoolStep

Record(f) ==
  /\ Goto(f, "stored", "marked")
  /\ MarkDelivered(f, "verified")
  /\ UNCHANGED <<world, try, again>> /\ PoolStep

\* clear_slices, behind either mark.
Clear(f) ==
  /\ Goto(f, "marked", "done")
  /\ UNCHANGED <<rows, world, try, again>> /\ PoolStep

\* TransferStopped out of the transfer: the row stays `transferring`.
Stopped(f) ==
  /\ stop /\ Goto(f, "transfer", "stopped")
  /\ UNCHANGED <<rows, world, try, again>> /\ PoolStep

\* Any other exception of the attempt; the bytes may have arrived all the same,
\* and a delivered row fails when its slices cannot be cleared.
Attempted(c) == {"transfer", "stored"} \cup IF Faults /\ c = "permanent" THEN {"marked"} ELSE {}
Fail(f, c) ==
  /\ \E from \in Attempted(c) :
       Goto(f, from, CASE c = "pausing" -> "paused"
                       [] c = "transient" -> "caught transient"
                       [] c = "permanent" -> "caught permanent")
  /\ MarkFailed(f, c)
  /\ UNCHANGED <<world, try, again>> /\ PoolStep

\* What follows a failure: quarantine, the end of the file's turn, or a retry.
OneMore(f) == attempts[f] > QuarantineAttempts
Exhausted(f) == attempts[f] >= QuarantineAttempts
LastTry(f) == try[f] = MaxAttempts
Caught(f) ==
  /\ \E from \in {"caught transient", "caught permanent"} :
       IF Exhausted(f)
       THEN Finish(f, from) /\ SetState(f, "quarantined")
       ELSE /\ Goto(f, from, IF from = "caught permanent" \/ LastTry(f) THEN "done" ELSE "loop")
            /\ UNCHANGED state
  /\ UNCHANGED <<attempts, category, seen, world, try, again>> /\ PoolStep

\* A statement of _process_file's own raises.
Raise(f) ==
  /\ Faults
  /\ \E from \in Working : Goto(f, from, "raised")
  /\ UNCHANGED <<rows, world, try, again>> /\ PoolStep

---------------------------------------------------------------------------
(* Around the run *)

\* The user or the service asks the run to wind down.
Stop ==
  /\ main # "idle" /\ ~stop
  /\ stop' = TRUE
  /\ UNCHANGED <<status, upload, rows, world, run, pool, action, bounds>>

\* The process dies, or run_job's own statements fail outside the pool.
Crash ==
  /\ main # "idle"
  /\ Return(status)
  /\ UNCHANGED rows

\* startup_recovery, for this job
Recover ==
  /\ main = "idle" /\ status = "running"
  /\ ResetStale(Files)
  /\ status' \in {"pending", "paused"}
  /\ UNCHANGED <<upload, world, run, stop, pool, action, bounds>>

\* _error_action: the job's status and the controller are looked at, then the
\* rows of one category are updated; the job may be picked up in between.
CheckAction(kind, c) ==
  /\ UserActions /\ action = NoAction
  /\ main = "idle" /\ status # "running"
  /\ action' = [kind |-> kind, category |-> c]
  /\ UNCHANGED <<status, upload, rows, world, run, stop, pool, bounds>>

\* retry_files and exclude_files
Group(S) == {f \in Files : state[f] \in S /\ category[f] = action.category}
ApplyAction ==
  /\ action # NoAction /\ action' = NoAction
  /\ IF action.kind = "retry"
     THEN LET F == Group({"failed", "quarantined"})
          IN /\ state' = [f \in Files |-> IF f \in F THEN "pending" ELSE state[f]]
             /\ attempts' = [f \in Files |-> IF f \in F THEN 0 ELSE attempts[f]]
             /\ category' = [f \in Files |-> IF f \in F THEN "none" ELSE category[f]]
     ELSE /\ state' = [f \in Files |-> IF f \in Group({"failed"}) THEN "quarantined" ELSE state[f]]
          /\ UNCHANGED <<attempts, category>>
  /\ UNCHANGED <<status, upload, seen, world, run, stop, pool, bounds>>

Edit(f) ==
  /\ source[f] < MaxEdits
  /\ source' = [source EXCEPT ![f] = @ + 1]
  /\ UNCHANGED <<status, upload, rows, held, run, stop, pool, action, bounds>>

Lose(f) ==
  /\ losses < MaxLosses /\ held[f] # Nothing
  /\ losses' = losses + 1
  /\ held' = [held EXCEPT ![f] = Nothing]
  /\ UNCHANGED <<status, upload, rows, source, run, stop, pool, action, runs>>

---------------------------------------------------------------------------
Task(f) ==
  \/ Take(f) \/ StatFails(f) \/ Stat(f) \/ Loop(f)
  \/ Store(f) \/ Skip(f) \/ Record(f) \/ Clear(f) \/ Stopped(f) \/ Caught(f) \/ Raise(f)
  \/ \E c \in Categories : Fail(f, c)

MainStep ==
  \/ List \/ Await \/ RecordEvent \/ Cancel \/ PassDone \/ Drained
  \/ AuditStart \/ AuditRow \/ AuditError \/ Verdict

Next ==
  \/ Begin \/ MainStep \/ Stop \/ Crash \/ Recover \/ ApplyAction
  \/ \E kind \in {"retry", "exclude"}, c \in Categories : CheckAction(kind, c)
  \/ \E f \in Files : Task(f) \/ Edit(f) \/ Lose(f)

Spec == Init /\ [][Next]_vars

\* run_job's thread and the pool's threads run, and an attempt ends: the calls to
\* the bucket have the client library's timeouts. Nothing makes a run begin.
FairSpec == Spec /\ WF_vars(MainStep) /\ \A f \in Files : WF_vars(Task(f))

---------------------------------------------------------------------------
(* Properties *)

\* A row in Delivery's ledger.
Standing(s) == IF s \in Delivered THEN "delivered"
               ELSE IF s = "quarantined" THEN "given up" ELSE "open"

\* The run delivers as Delivery promises: COMPLETE only when every file of the
\* manifest is verified or skipped and this run's audit found it at the
\* destination, whatever was lost, edited, retried or excluded meanwhile; what
\* is delivered stays so until an audit of a later run misses it.
Promise ==
  INSTANCE Delivery WITH
    ledger <- [f \in Files |-> Standing(state[f])],
    held <- {f \in Files : held[f] # Nothing},
    confirmed <- listed,
    verdict <- IF status \in {"complete", "incomplete"} THEN status ELSE "none"
KeepsPromise == Promise!DeliverySpec

\* Once a run has a verdict no file is left in limbo: none is still
\* transferring, and none is `changed`, which the second pass settles.
VerdictSettlesFiles ==
  status \in {"complete", "incomplete"} =>
    \A f \in Files : state[f] \notin {"transferring", "changed"}

\* A file gets MaxAttempts attempts in one run, both passes and the user's
\* retries meanwhile included (the design's "five attempts per file within a
\* single job run").
AllowancePerRun == \A f \in Files : try[f] <= MaxAttempts

\* A file that was attempted in this run, and whose transient failures used up
\* the cumulative allowance, over runs that were stopped, paused, crashed or
\* ended, is quarantined when the verdict falls, so that the worker's stall loop
\* does not re-run the job for it forever (retry.py, QUARANTINE_ATTEMPTS;
\* worker.py, _network_failed).
AllowanceUsed(f) == attempts[f] >= QuarantineAttempts
ExhaustedIsQuarantined ==
  [][status = "running" /\ status' \in {"complete", "incomplete"} =>
       \A f \in Files : try[f] > 0 /\ state[f] = "failed" /\ category[f] = "transient"
                          => ~AllowanceUsed(f)]_vars

\* A run in which a file met a rejected credential never ends in a verdict: it
\* leaves the job paused, or interrupted by what another file met earlier in the
\* order, whatever the workers still start, finish or fail meanwhile and whichever
\* pass it is (runner.py:333-334, 437-440; the plan of the transfer engine: "a
\* credential error (401/403) pauses the whole job").
RejectionIsNotJudged ==
  [][status = "running" /\ status' \in {"complete", "incomplete"} =>
       \A f \in Files : try[f] > 0 /\ state[f] = "failed" => category[f] # "pausing"]_vars

\* A run ends, however its files fail: neither the retries nor the order in
\* which the futures are awaited keep it forever.
RunEnds == main # "idle" ~> main = "idle"
=============================================================================
