-------------------------- MODULE JobRunProofs --------------------------
(***************************************************************************)
(* Theorems about JobRun, for every set of files and every allowance of    *)
(* attempts: its types, the allowance of a run and the one over all runs,  *)
(* that a verdict leaves no file in limbo, that none falls in a run that   *)
(* met a rejected credential, and that it implements Delivery.             *)
(***************************************************************************)
EXTENDS JobRun, TLAPS

---------------------------------------------------------------------------
(* Type correctness, one group of variables at a time *)

\* The tasks' places, spelled out once.
LEMMA PlacesAre ==
  /\ Ended = {"done", "paused", "stopped", "raised", "cancelled"}
  /\ Working = {"stat", "loop", "transfer", "stored", "marked", "caught transient", "caught permanent"}
  BY DEF Ended, Working

\* The three ways a step writes the row of one file.
LEMMA FailTyped == ASSUME RowsOK, NEW f \in Files, NEW c \in Categories, MarkFailed(f, c)
                   PROVE  RowsOK'
  BY DEF RowsOK, MarkFailed, SetState, FileStates

LEMMA DeliveredTyped == ASSUME RowsOK, NEW f \in Files, NEW s \in Delivered, MarkDelivered(f, s)
                        PROVE  RowsOK'
  BY DEF RowsOK, MarkDelivered, SetState, FileStates, Delivered

LEMMA StateTyped == ASSUME RowsOK, NEW f \in Files, NEW s \in FileStates, SetState(f, s),
                           UNCHANGED <<attempts, category, seen>>
                    PROVE  RowsOK'
  BY DEF RowsOK, SetState

LEMMA StaleTyped == ASSUME RowsOK, NEW F, ResetStale(F) PROVE RowsOK'
  BY DEF RowsOK, ResetStale, FileStates

LEMMA TaskRowsTyped == ASSUME TypeOK, NEW f \in Files, Task(f) PROVE RowsOK'
<1> USE DEF TypeOK
<1>1. CASE Take(f) \/ Store(f) \/ Clear(f) \/ Stopped(f) \/ Raise(f)
  BY <1>1 DEF Take, Store, Clear, Stopped, Raise, rows, RowsOK
<1>2. CASE StatFails(f)
  BY <1>2, FailTyped DEF StatFails, Categories
<1>3. CASE Stat(f)
  <2>1. CASE UNCHANGED rows
    BY <2>1 DEF rows, RowsOK
  <2>2. CASE MarkFailed(f, "permanent")
    BY <2>2, FailTyped DEF Categories
  <2>3. CASE /\ SetState(f, "changed") /\ seen' = [seen EXCEPT ![f] = source[f]]
             /\ UNCHANGED <<attempts, category>>
    BY <2>3 DEF RowsOK, WorldOK, SetState, FileStates
  <2> QED
    BY <1>3, <2>1, <2>2, <2>3 DEF Stat
<1>4. CASE Loop(f)
  <2>1. CASE UNCHANGED rows
    BY <2>1 DEF rows, RowsOK
  <2> QED
    BY <1>4, <2>1, StateTyped DEF Loop, FileStates
<1>5. CASE Skip(f) \/ Record(f)
  BY <1>5, DeliveredTyped DEF Skip, Record, Delivered
<1>6. CASE \E c \in Categories : Fail(f, c)
  BY <1>6, FailTyped DEF Fail
<1>7. CASE Caught(f)
  <2>1. CASE UNCHANGED rows
    BY <2>1 DEF rows, RowsOK
  <2> QED
    BY <1>7, <2>1, StateTyped DEF Caught, Finish, FileStates, rows
<1> QED
  BY <1>1, <1>2, <1>3, <1>4, <1>5, <1>6, <1>7 DEF Task

LEMMA RowsStep == ASSUME TypeOK, [Next]_vars PROVE RowsOK'
<1> USE DEF TypeOK
<1>1. CASE UNCHANGED rows
  BY <1>1 DEF rows, RowsOK
<1>2. CASE vars' = vars
  BY <1>1, <1>2 DEF vars
<1>3. CASE Begin \/ Recover
  BY <1>3, StaleTyped DEF Begin, Recover
<1>4. CASE MainStep
  <2>1. CASE AuditRow
    BY <1>1, <2>1, FailTyped DEF AuditRow, Categories
  <2> QED
    BY <1>1, <1>4, <2>1 DEF MainStep, List, Await, RecordEvent, Cancel, Leaving, PassDone, Drained,
         AuditStart, AuditError, Verdict
<1>5. CASE Stop \/ Crash
  BY <1>1, <1>5 DEF Stop, Crash
<1>6. CASE ApplyAction
  BY <1>6 DEF ApplyAction, RowsOK, FileStates
<1>7. CASE \E kind \in {"retry", "exclude"}, c \in Categories : CheckAction(kind, c)
  BY <1>1, <1>7 DEF CheckAction
<1>8. CASE \E f \in Files : Task(f)
  BY <1>8, TaskRowsTyped
<1>9. CASE \E f \in Files : Edit(f) \/ Lose(f)
  BY <1>1, <1>9 DEF Edit, Lose
<1> QED
  BY <1>2, <1>3, <1>4, <1>5, <1>6, <1>7, <1>8, <1>9 DEF Next

LEMMA WorldStep == ASSUME TypeOK, [Next]_vars PROVE WorldOK'
<1> USE DEF TypeOK
<1>1. CASE UNCHANGED world
  BY <1>1 DEF world, WorldOK
<1>2. CASE vars' = vars
  BY <1>1, <1>2 DEF vars
<1>3. CASE Begin \/ Stop \/ Crash \/ Recover \/ ApplyAction
  BY <1>1, <1>3 DEF Begin, Stop, Crash, Return, Recover, ApplyAction
<1>4. CASE MainStep
  BY <1>1, <1>4 DEF MainStep, List, Await, RecordEvent, Cancel, Leaving, PassDone, Drained,
       AuditStart, AuditRow, AuditError,
       Verdict, Return
<1>5. CASE \E kind \in {"retry", "exclude"}, c \in Categories : CheckAction(kind, c)
  BY <1>1, <1>5 DEF CheckAction
<1>6. CASE \E f \in Files : Task(f)
  <2> PICK f \in Files : Task(f)
    BY <1>6
  <2>1. CASE Store(f)
    BY <2>1 DEF Store, WorldOK
  <2> QED
    BY <1>1, <2>1 DEF Task, Take, StatFails, Stat, Loop, Skip, Record, Clear, Stopped, Caught,
         Finish, Raise, Fail, Attempted
<1>7. CASE \E f \in Files : Edit(f) \/ Lose(f)
  BY <1>7 DEF Edit, Lose, WorldOK
<1> QED
  BY <1>2, <1>3, <1>4, <1>5, <1>6, <1>7 DEF Next

LEMMA RunStep == ASSUME TypeOK, [Next]_vars PROVE RunOK'
<1> USE DEF TypeOK
<1>1. CASE UNCHANGED <<status, upload, run, stop>>
  BY <1>1 DEF run, RunOK
<1>2. CASE vars' = vars
  BY <1>1, <1>2 DEF vars
<1>3. CASE Begin
  BY <1>3 DEF Begin, RunOK
<1>4. ASSUME NEW s \in {"pending", "running", "paused", "incomplete", "complete"}, Return(s)
      PROVE  RunOK'
  BY <1>4 DEF Return, RunOK
<1>5. CASE MainStep
  <2>1. CASE List \/ PassDone
    BY <2>1 DEF List, PassDone, RunOK
  <2>2. CASE Await
    BY <2>2 DEF Await, RunOK
  <2>7. CASE RecordEvent \/ Cancel
    BY <2>7 DEF RecordEvent, Cancel, Leaving, RunOK
  <2>3. CASE Drained
    <3>1. StatusLeft \in {"pending", "running", "paused", "incomplete", "complete"}
      BY DEF StatusLeft, RunOK
    <3> QED
      BY <1>4, <2>3, <3>1 DEF Drained
  <2>4. CASE AuditStart
    BY <2>4 DEF AuditStart, RunOK
  <2>5. CASE AuditRow
    BY <2>5 DEF AuditRow, RunOK
  <2>6. CASE AuditError \/ Verdict
    BY <1>4, <2>6 DEF AuditError, Verdict
  <2> QED
    BY <1>5, <2>1, <2>2, <2>3, <2>4, <2>5, <2>6, <2>7 DEF MainStep
<1>6. CASE Crash
  BY <1>4, <1>6 DEF Crash, RunOK
<1>7. CASE Stop \/ Recover
  BY <1>7 DEF Stop, Recover, RunOK, run
<1>8. CASE ApplyAction \/ \E kind \in {"retry", "exclude"}, c \in Categories : CheckAction(kind, c)
  BY <1>1, <1>8 DEF CheckAction, ApplyAction
<1>9. CASE \E f \in Files : Task(f)
  BY <1>1, <1>9 DEF Task, Take, StatFails, Stat, Loop, Store, Skip, Record, Clear, Stopped, Caught,
       Finish, Raise,
       Fail, PoolStep
<1>10. CASE \E f \in Files : Edit(f) \/ Lose(f)
  BY <1>1, <1>10 DEF Edit, Lose
<1> QED
  BY <1>2, <1>3, <1>5, <1>6, <1>7, <1>8, <1>9, <1>10 DEF Next

LEMMA PoolTyped == ASSUME TypeOK, [Next]_vars PROVE PoolOK'
<1> USE DEF TypeOK
<1>1. CASE UNCHANGED pool
  BY <1>1 DEF pool, PoolOK
<1>2. CASE vars' = vars
  BY <1>1, <1>2 DEF vars
<1>3. CASE Begin \/ Stop \/ Recover \/ ApplyAction
  BY <1>1, <1>3 DEF Begin, Stop, Recover, ApplyAction
<1>4. ASSUME NEW s, Return(s) PROVE PoolOK'
  BY <1>4 DEF Return, PoolOK
<1>5. CASE MainStep
  <2>1. CASE List
    BY <2>1 DEF List, PoolOK
  <2>2. CASE RecordEvent \/ Cancel
    BY <2>2, PlacesAre DEF RecordEvent, Cancel, Leaving, Goto, PoolOK
  <2>3. CASE Await \/ PassDone \/ AuditStart \/ AuditRow
    BY <1>1, <2>3 DEF Await, PassDone, AuditStart, AuditRow
  <2>4. CASE Drained \/ AuditError \/ Verdict
    BY <1>4, <2>4 DEF Drained, AuditError, Verdict
  <2> QED
    BY <1>5, <2>1, <2>2, <2>3, <2>4 DEF MainStep
<1>6. CASE Crash
  BY <1>4, <1>6 DEF Crash
<1>7. CASE \E kind \in {"retry", "exclude"}, c \in Categories : CheckAction(kind, c)
  BY <1>1, <1>7 DEF CheckAction
<1>8. CASE \E f \in Files : Task(f)
  <2> PICK f \in Files : Task(f)
    BY <1>8
  <2>1. ASSUME NEW from, NEW to \in Working \cup Ended, Goto(f, from, to),
               UNCHANGED <<try, again>>
        PROVE  PoolOK'
    BY <2>1 DEF Goto, PoolOK
  <2>2. CASE Take(f) \/ StatFails(f) \/ Stat(f)
    BY <2>1, <2>2, PlacesAre DEF Take, StatFails, Stat, Finish
  <2>3. CASE Store(f) \/ Skip(f) \/ Record(f) \/ Clear(f) \/ Stopped(f) \/ Raise(f)
    BY <2>1, <2>3, PlacesAre DEF Store, Skip, Record, Clear, Stopped, Raise
  <2>4. CASE Loop(f)
    <3>1. CASE Goto(f, "loop", "stopped") /\ UNCHANGED <<try, again>>
      BY <2>1, <3>1, PlacesAre
    <3>2. CASE /\ Goto(f, "loop", "transfer") /\ UNCHANGED again
               /\ try' = [try EXCEPT ![f] = @ + 1]
      <4>1. task' \in [Files -> {"none", "queued"} \cup Working \cup Ended]
        BY <3>2, PlacesAre DEF Goto, PoolOK
      <4>2. try' \in [Files -> Nat] /\ again' \in [Files -> BOOLEAN]
        BY <3>2 DEF PoolOK
      <4> QED
        BY <4>1, <4>2 DEF PoolOK
    <3> QED
      BY <2>4, <3>1, <3>2 DEF Loop
  <2>5. CASE \E c \in Categories : Fail(f, c)
    BY <2>1, <2>5, PlacesAre DEF Fail, Attempted, Categories
  <2>6. CASE Caught(f)
    BY <2>1, <2>6, PlacesAre DEF Caught, Finish
  <2> QED
    BY <2>2, <2>3, <2>4, <2>5, <2>6 DEF Task
<1>9. CASE \E f \in Files : Edit(f) \/ Lose(f)
  BY <1>1, <1>9 DEF Edit, Lose
<1> QED
  BY <1>2, <1>3, <1>5, <1>6, <1>7, <1>8, <1>9 DEF Next

LEMMA OthersStep == ASSUME TypeOK, [Next]_vars PROVE OthersOK'
<1> USE DEF TypeOK
<1>1. CASE UNCHANGED <<action, bounds>>
  BY <1>1 DEF bounds, OthersOK
<1>2. CASE vars' = vars
  BY <1>1, <1>2 DEF vars
<1>3. CASE Begin
  BY <1>3, BoundsAssumption DEF Begin, OthersOK
<1>4. CASE Stop \/ Crash \/ Recover
  BY <1>1, <1>4 DEF Stop, Crash, Recover, Return
<1>5. CASE ApplyAction
  BY <1>5 DEF ApplyAction, OthersOK, NoAction, bounds
<1>6. CASE MainStep
  BY <1>1, <1>6 DEF MainStep, List, Await, RecordEvent, Cancel, Leaving, PassDone, Drained,
       AuditStart, AuditRow, AuditError,
       Verdict, Return
<1>7. CASE \E kind \in {"retry", "exclude"}, c \in Categories : CheckAction(kind, c)
  BY <1>7 DEF CheckAction, OthersOK, bounds
<1>8. CASE \E f \in Files : Task(f)
  BY <1>1, <1>8 DEF Task, Take, StatFails, Stat, Loop, Store, Skip, Record, Clear, Stopped, Caught,
       Finish, Raise,
       Fail, PoolStep
<1>9. CASE \E f \in Files : Edit(f)
  BY <1>1, <1>9 DEF Edit
<1>10. CASE \E f \in Files : Lose(f)
  BY <1>10, BoundsAssumption DEF Lose, OthersOK
<1> QED
  BY <1>2, <1>3, <1>4, <1>5, <1>6, <1>7, <1>8, <1>9, <1>10 DEF Next

LEMMA InitTyped == Init => TypeOK
<1> SUFFICES ASSUME Init PROVE TypeOK
  OBVIOUS
<1>1. RowsOK /\ WorldOK
  BY DEF Init, RowsOK, WorldOK, FileStates
<1>2. RunOK
  BY DEF Init, RunOK
<1>3. PoolOK
  BY DEF Init, PoolOK
<1>4. OthersOK
  BY BoundsAssumption DEF Init, OthersOK, NoAction
<1> QED
  BY <1>1, <1>2, <1>3, <1>4 DEF TypeOK

\* Every variable keeps its type in every run of a job.
THEOREM TypeCorrect == Spec => []TypeOK
<1>1. TypeOK /\ [Next]_vars => TypeOK'
  BY RowsStep, WorldStep, RunStep, PoolTyped, OthersStep DEF TypeOK
<1> QED
  BY <1>1, InitTyped, PTL DEF Spec

---------------------------------------------------------------------------
(* The inductive invariant *)

\* A run holds the status; the pool works only while run_job waits for it.
Quiet ==
  /\ main # "idle" => status = "running"
  /\ main \notin {"wait", "event", "cancel", "drain"} => \A f \in Files : task[f] \notin Working \cup {"queued"}

\* The audit: empty-handed before, and of the delivered rows each is either
\* still to be looked at or found.
Audited ==
  /\ main \in {"list", "wait", "event", "cancel", "drain", "audit"} => listed = {}
  /\ main = "auditing" =>
       \A f \in Files : state[f] \in Delivered => f \in unaudited \cup listed

\* A file whose attempt has failed does not count as delivered.
CaughtNotDelivered ==
  \A f \in Files : task[f] \in {"caught transient", "caught permanent"} => state[f] \notin Delivered

\* A file that has its turn ahead, and one the second pass may list, has made no attempt.
Allowance ==
  \A f \in Files :
    /\ try[f] <= MaxAttempts
    /\ task[f] = "loop" => try[f] < MaxAttempts
    /\ state[f] = "changed" => try[f] = 0
    /\ task[f] \in {"queued", "stat"} => try[f] = 0
    /\ main = "idle" => try[f] = 0
    /\ main = "list" /\ pass = 1 => try[f] = 0
PassOne == main = "idle" => pass = 1

RunInv == Quiet /\ Audited /\ CaughtNotDelivered /\ Allowance /\ PassOne

\* The places a step of a task can move it between.
LEMMA TaskMoves ==
  ASSUME TypeOK, NEW f \in Files, Task(f)
  PROVE  /\ UNCHANGED <<status, upload, main, pass, workers, exit, listed, unaudited, stop>>
         /\ task[f] \in Working \cup {"queued"}
         /\ \A g \in Files : g # f => task'[g] = task[g] /\ state'[g] = state[g] /\ try'[g] = try[g]
<1>1. ASSUME NEW from, NEW to, Goto(f, from, to)
      PROVE  task[f] = from /\ \A g \in Files : g # f => task'[g] = task[g]
  BY <1>1 DEF Goto, TypeOK, PoolOK
<1>2. ASSUME NEW s, SetState(f, s) PROVE \A g \in Files : g # f => state'[g] = state[g]
  BY <1>2 DEF SetState, TypeOK, RowsOK
<1> USE PlacesAre DEF PoolStep, run
<1>3. CASE Take(f) \/ Store(f) \/ Clear(f) \/ Stopped(f) \/ Raise(f)
  BY <1>1, <1>3 DEF Take, Store, Clear, Stopped, Raise, rows
<1>4. CASE StatFails(f) \/ Stat(f)
  BY <1>1, <1>2, <1>4 DEF StatFails, Stat, Finish, MarkFailed, rows
<1>5. CASE Skip(f) \/ Record(f)
  BY <1>1, <1>2, <1>5 DEF Skip, Record, MarkDelivered
<1>6. CASE \E c \in Categories : Fail(f, c)
  BY <1>1, <1>2, <1>6 DEF Fail, Attempted, MarkFailed
<1>7. CASE Caught(f)
  BY <1>1, <1>2, <1>7 DEF Caught, Finish
<1>8. CASE Loop(f)
  <2>1. \A g \in Files : g # f => try'[g] = try[g]
    BY <1>8 DEF Loop, TypeOK, PoolOK
  <2> QED
    BY <1>1, <1>2, <1>8, <2>1 DEF Loop, rows
<1> QED
  BY <1>3, <1>4, <1>5, <1>6, <1>7, <1>8 DEF Task

\* On the way out only queued tasks are touched, and they are cancelled.
LEMMA WayOut ==
  ASSUME TypeOK, RecordEvent \/ Cancel
  PROVE  /\ main \in {"event", "cancel"} /\ main' \in {"event", "cancel", "drain"}
         /\ UNCHANGED <<status, rows, world, try, again, pass, listed, unaudited>>
         /\ \A f \in Files : task'[f] = task[f] \/ (task[f] = "queued" /\ task'[f] = "cancelled")
<1>1. \A f \in Files : task'[f] = task[f] \/ (task[f] = "queued" /\ task'[f] = "cancelled")
  <2>1. CASE UNCHANGED task
    BY <2>1
  <2>2. CASE \E f \in Files : Goto(f, "queued", "cancelled")
    BY <2>2 DEF Goto, TypeOK, PoolOK
  <2> QED
    BY <2>1, <2>2 DEF RecordEvent, Cancel
<1> QED
  BY <1>1 DEF RecordEvent, Cancel, Leaving

LEMMA QuietStep == ASSUME TypeOK, Quiet, [Next]_vars PROVE Quiet'
<1> USE DEF Quiet
<1>1. CASE UNCHANGED <<status, main, task>>
  BY <1>1
<1>2. CASE vars' = vars
  BY <1>1, <1>2 DEF vars, run, pool
<1>3. ASSUME NEW s, Return(s) PROVE Quiet'
  BY <1>3, PlacesAre DEF Return
<1>4. CASE Begin \/ Recover
  BY <1>4 DEF Begin, Recover, pool, run
<1>5. CASE MainStep
  <2>1. CASE List
    BY <2>1, PlacesAre DEF List
  <2>2. CASE PassDone
    BY <2>2, PlacesAre DEF PassDone, Unreturned, pool
  <2>3. CASE Await \/ AuditStart \/ AuditRow
    BY <2>3 DEF Await, AuditStart, AuditRow, pool
  <2>5. CASE RecordEvent \/ Cancel
    BY <2>5, WayOut
  <2>4. CASE Drained \/ AuditError \/ Verdict
    BY <1>3, <2>4 DEF Drained, AuditError, Verdict
  <2> QED
    BY <1>5, <2>1, <2>2, <2>3, <2>4, <2>5 DEF MainStep
<1>6. CASE Crash
  BY <1>3, <1>6 DEF Crash
<1>7. CASE Stop \/ ApplyAction \/ \E kind \in {"retry", "exclude"}, c \in Categories : CheckAction(kind, c)
  BY <1>1, <1>7 DEF Stop, ApplyAction, CheckAction, run, pool
<1>8. CASE \E f \in Files : Task(f)
  BY <1>8, TaskMoves
<1>9. CASE \E f \in Files : Edit(f) \/ Lose(f)
  BY <1>1, <1>9 DEF Edit, Lose, run, pool
<1> QED
  BY <1>2, <1>4, <1>5, <1>6, <1>7, <1>8, <1>9 DEF Next

LEMMA AuditedStep == ASSUME TypeOK, Quiet, Audited, [Next]_vars PROVE Audited'
<1> USE DEF Audited
<1>1. CASE UNCHANGED <<main, state, listed, unaudited>>
  BY <1>1
<1>2. CASE vars' = vars
  BY <1>1, <1>2 DEF vars, run, rows
<1>3. ASSUME NEW s, Return(s) PROVE Audited'
  BY <1>3 DEF Return
<1>4. CASE Begin \/ Recover
  BY <1>4 DEF Begin, Recover, run, ResetStale, Delivered, Quiet
<1>5. CASE MainStep
  <2>1. CASE List
    BY <2>1 DEF List
  <2>2. CASE PassDone \/ Await
    BY <2>2 DEF PassDone, Await
  <2>6. CASE RecordEvent \/ Cancel
    BY <2>6, WayOut
  <2>3. CASE AuditStart
    BY <2>3 DEF AuditStart, rows
  <2>4. CASE AuditRow
    <3> PICK f \in Files :
          /\ unaudited' = unaudited \ {f}
          /\ \/ listed' = listed \cup {f} /\ UNCHANGED rows
             \/ MarkFailed(f, "permanent") /\ UNCHANGED listed
      BY <2>4 DEF AuditRow
    <3>1. CASE listed' = listed \cup {f} /\ UNCHANGED rows
      BY <2>4, <3>1 DEF AuditRow, rows
    <3>2. CASE MarkFailed(f, "permanent") /\ UNCHANGED listed
      BY <2>4, <3>2 DEF AuditRow, MarkFailed, SetState, Delivered, TypeOK, RowsOK
    <3> QED
      BY <3>1, <3>2
  <2>5. CASE Drained \/ AuditError \/ Verdict
    BY <1>3, <2>5 DEF Drained, AuditError, Verdict
  <2> QED
    BY <1>5, <2>1, <2>2, <2>3, <2>4, <2>5, <2>6 DEF MainStep
<1>6. CASE Crash
  BY <1>3, <1>6 DEF Crash
<1>7. CASE Stop \/ \E kind \in {"retry", "exclude"}, c \in Categories : CheckAction(kind, c)
  BY <1>1, <1>7 DEF Stop, CheckAction, run, rows
<1>8. CASE ApplyAction
  BY <1>8 DEF ApplyAction, run, Group, Delivered, TypeOK, RowsOK
<1>9. CASE \E f \in Files : Task(f)
  BY <1>9, TaskMoves DEF Quiet
<1>10. CASE \E f \in Files : Edit(f) \/ Lose(f)
  BY <1>1, <1>10 DEF Edit, Lose, run, rows
<1> QED
  BY <1>2, <1>4, <1>5, <1>6, <1>7, <1>8, <1>9, <1>10 DEF Next

LEMMA CaughtStep == ASSUME TypeOK, CaughtNotDelivered, [Next]_vars PROVE CaughtNotDelivered'
<1> USE DEF CaughtNotDelivered
<1>1. CASE UNCHANGED <<state, task>>
  BY <1>1
<1>2. CASE vars' = vars
  BY <1>1, <1>2 DEF vars, rows, pool
<1>3. ASSUME NEW s, Return(s) PROVE CaughtNotDelivered'
  BY <1>3 DEF Return
<1>4. CASE Begin \/ Recover
  BY <1>4 DEF Begin, Recover, pool, ResetStale, Delivered
<1>5. CASE MainStep
  <2>1. CASE List
    BY <2>1 DEF List
  <2>2. CASE Await
    BY <2>2 DEF Await, rows, pool
  <2>6. CASE RecordEvent \/ Cancel
    BY <2>6, WayOut DEF rows
  <2>3. CASE PassDone \/ AuditStart
    BY <2>3 DEF PassDone, AuditStart, rows, pool
  <2>4. CASE AuditRow
    <3>1. UNCHANGED task /\ \A f \in Files : state'[f] = state[f] \/ state'[f] \notin Delivered
      BY <2>4 DEF AuditRow, MarkFailed, SetState, Delivered, rows, pool, TypeOK, RowsOK
    <3> QED
      BY <3>1
  <2>5. CASE Drained \/ AuditError \/ Verdict
    BY <1>3, <2>5 DEF Drained, AuditError, Verdict
  <2> QED
    BY <1>5, <2>1, <2>2, <2>3, <2>4, <2>5, <2>6 DEF MainStep
<1>6. CASE Crash
  BY <1>3, <1>6 DEF Crash
<1>7. CASE Stop \/ \E kind \in {"retry", "exclude"}, c \in Categories : CheckAction(kind, c)
  BY <1>1, <1>7 DEF Stop, CheckAction, rows, pool
<1>8. CASE ApplyAction
  BY <1>8 DEF ApplyAction, pool, Delivered, TypeOK, RowsOK
<1>9. CASE \E f \in Files : Task(f)
  <2> PICK f \in Files : Task(f)
    BY <1>9
  <2>1. \A g \in Files : g # f => task'[g] = task[g] /\ state'[g] = state[g]
    BY TaskMoves
  <2>2. task'[f] \in {"caught transient", "caught permanent"} => state'[f] \notin Delivered
    <3>1. ASSUME NEW from, NEW to, Goto(f, from, to) PROVE task'[f] = to
      BY <3>1 DEF Goto, TypeOK, PoolOK
    <3>2. CASE \E c \in Categories : Fail(f, c)
      BY <3>2 DEF Fail, Attempted, MarkFailed, SetState, Delivered, TypeOK, RowsOK
    <3> QED
      BY <3>1, <3>2 DEF Task, Take, StatFails, Stat, Loop, Store, Skip, Record, Clear, Stopped,
           Caught, Finish, Raise
  <2> QED
    BY <2>1, <2>2
<1>10. CASE \E f \in Files : Edit(f) \/ Lose(f)
  BY <1>1, <1>10 DEF Edit, Lose, rows, pool
<1> QED
  BY <1>2, <1>4, <1>5, <1>6, <1>7, <1>8, <1>9, <1>10 DEF Next

LEMMA PassOneStep == ASSUME PassOne, [Next]_vars PROVE PassOne'
  BY DEF PassOne, Next, vars, Begin, MainStep, List, Await, RecordEvent, Cancel, Leaving, PassDone,
       Drained, AuditStart, AuditRow,
       AuditError, Verdict, Stop, Crash, Recover, CheckAction, ApplyAction, Edit, Lose, Return, run,
       Task, Take, StatFails, Stat, Loop, Store, Skip, Record, Clear, Stopped, Caught, Finish,
       Raise, Fail, Attempted, PoolStep

LEMMA AllowanceStep ==
  ASSUME TypeOK, Quiet, PassOne, Allowance, [Next]_vars
  PROVE  Allowance'
<1> USE DEF Allowance
<1>1. CASE UNCHANGED <<main, pass, state, task, try>>
  BY <1>1
<1>2. CASE vars' = vars
  BY <1>1, <1>2 DEF vars, rows, run, pool
<1>3. ASSUME NEW s, Return(s) PROVE Allowance'
  BY <1>3, AttemptsAssumption DEF Return
<1>4. CASE Begin \/ Recover
  <2>1. \A f \in Files : state'[f] = "changed" => state[f] = "changed"
    BY <1>4 DEF Begin, Recover, ResetStale
  <2> QED
    BY <1>4, <2>1 DEF Begin, Recover, run, pool, PassOne
<1>5. CASE MainStep
  <2>1. CASE List
    <3>1. \A f \in Files : task'[f] = "queued" => state[f] = "changed" \/ pass = 1
      BY <2>1 DEF List, ForPass, TypeOK, RunOK
    <3>2. UNCHANGED <<state, try, pass>> /\ main = "list" /\ main' \in {"wait", "audit"}
      BY <2>1 DEF List, rows
    <3>3. \A f \in Files : task'[f] \in {"queued", "none"}
      BY <2>1 DEF List
    <3> QED
      BY <3>1, <3>2, <3>3
  <2>2. CASE Await
    BY <2>2 DEF Await, rows, pool
  <2>7. CASE RecordEvent \/ Cancel
    BY <2>7, WayOut DEF rows
  <2>3. CASE PassDone
    BY <2>3 DEF PassDone, rows, pool
  <2>4. CASE AuditStart
    BY <2>4 DEF AuditStart, rows, pool
  <2>5. CASE AuditRow
    <3>1. /\ UNCHANGED <<main, pass, task, try>>
          /\ \A f \in Files : state'[f] = state[f] \/ state'[f] = "failed"
      BY <2>5 DEF AuditRow, MarkFailed, SetState, rows, pool, TypeOK, RowsOK
    <3> QED
      BY <3>1
  <2>6. CASE Drained \/ AuditError \/ Verdict
    BY <1>3, <2>6 DEF Drained, AuditError, Verdict
  <2> QED
    BY <1>5, <2>1, <2>2, <2>3, <2>4, <2>5, <2>6, <2>7 DEF MainStep
<1>6. CASE Crash
  BY <1>3, <1>6 DEF Crash
<1>7. CASE Stop \/ \E kind \in {"retry", "exclude"}, c \in Categories : CheckAction(kind, c)
  BY <1>1, <1>7 DEF Stop, CheckAction, rows, run, pool
<1>8. CASE ApplyAction
  <2>1. \A f \in Files : state'[f] = state[f] \/ state'[f] \in {"pending", "quarantined"}
    BY <1>8 DEF ApplyAction
  <2> QED
    BY <1>8, <2>1 DEF ApplyAction, run, pool
<1>9. CASE \E f \in Files : Task(f)
  <2> PICK f \in Files : Task(f)
    BY <1>9
  <2>1. /\ UNCHANGED <<main, pass>> /\ main \in {"wait", "event", "cancel", "drain"}
        /\ \A g \in Files : g # f => task'[g] = task[g] /\ state'[g] = state[g] /\ try'[g] = try[g]
    BY TaskMoves DEF Quiet, TypeOK, RunOK
  <2>2. /\ try'[f] <= MaxAttempts
        /\ task'[f] = "loop" => try'[f] < MaxAttempts
        /\ state'[f] = "changed" \/ task'[f] \in {"queued", "stat"} => try'[f] = 0
    <3>1. ASSUME NEW from, NEW to, Goto(f, from, to) PROVE task[f] = from /\ task'[f] = to
      BY <3>1 DEF Goto, TypeOK, PoolOK
    <3>2. ASSUME NEW s, SetState(f, s) PROVE state'[f] = s
      BY <3>2 DEF SetState, TypeOK, RowsOK
    <3>3. try[f] \in Nat /\ 0 < MaxAttempts /\ MaxAttempts \in Nat
      BY AttemptsAssumption DEF TypeOK, PoolOK
    <3>4. CASE Take(f) \/ Store(f) \/ Clear(f) \/ Stopped(f) \/ Raise(f)
      <4>1. UNCHANGED <<try, state>>
        BY <3>4 DEF Take, Store, Clear, Stopped, Raise, rows
      <4>2. \/ task[f] = "queued" /\ task'[f] \in {"stat", "loop"}
            \/ task'[f] \in {"stored", "done", "stopped", "raised"}
        BY <3>1, <3>4 DEF Take, Store, Clear, Stopped, Raise
      <4> QED
        BY <3>3, <4>1, <4>2
    <3>5. CASE StatFails(f) \/ Stat(f)
      BY <3>1, <3>2, <3>3, <3>5 DEF StatFails, Stat, Finish, MarkFailed, rows
    <3>6. CASE Loop(f)
      <4>1. CASE stop
        BY <3>1, <3>6, <4>1 DEF Loop, rows
      <4>2. CASE ~stop
        <5>1. try'[f] = try[f] + 1 /\ task[f] = "loop" /\ task'[f] = "transfer" /\ state'[f] = "transferring"
          BY <3>1, <3>2, <3>6, <4>2 DEF Loop, TypeOK, PoolOK
        <5> QED
          BY <3>3, <5>1
      <4> QED
        BY <4>1, <4>2
    <3>7. CASE Skip(f) \/ Record(f)
      BY <3>1, <3>2, <3>7 DEF Skip, Record, MarkDelivered
    <3>8. CASE \E c \in Categories : Fail(f, c)
      BY <3>1, <3>2, <3>8 DEF Fail, Attempted, MarkFailed, Categories
    <3>9. CASE Caught(f)
      <4>1. task'[f] \in {"done", "raised"} \/ (task'[f] = "loop" /\ try[f] # MaxAttempts)
        BY <3>1, <3>9 DEF Caught, Finish, LastTry
      <4>2. (state'[f] = state[f] \/ state'[f] = "quarantined") /\ UNCHANGED try
        BY <3>2, <3>9 DEF Caught, Finish
      <4> QED
        BY <3>3, <4>1, <4>2
    <3> QED
      BY <3>4, <3>5, <3>6, <3>7, <3>8, <3>9 DEF Task
  <2> QED
    BY <2>1, <2>2
<1>10. CASE \E f \in Files : Edit(f) \/ Lose(f)
  BY <1>1, <1>10 DEF Edit, Lose, rows, run, pool
<1> QED
  BY <1>2, <1>4, <1>5, <1>6, <1>7, <1>8, <1>9, <1>10 DEF Next

LEMMA RunInvariant == Spec => [](TypeOK /\ RunInv)
<1>1. Init => RunInv
  BY AttemptsAssumption DEF Init, RunInv, Quiet, Audited, CaughtNotDelivered, Allowance, PassOne,
       Working
<1>2. TypeOK /\ RunInv /\ [Next]_vars => RunInv'
  BY QuietStep, AuditedStep, CaughtStep, AllowanceStep, PassOneStep DEF RunInv
<1> QED
  BY <1>1, <1>2, TypeCorrect, PTL DEF Spec

\* No file has more than its allowance of attempts in a run, whatever the
\* passes, the failures and the user's retries (design, Error Handling).
THEOREM AllowanceHolds == Spec => []AllowancePerRun
<1>1. RunInv => AllowancePerRun
  BY DEF RunInv, Allowance, AllowancePerRun
<1> QED
  BY <1>1, RunInvariant, PTL

---------------------------------------------------------------------------
(* A verdict leaves no file in limbo *)

\* Between the passes and at the audit no row is in limbo, because a task that
\* has returned took its file out of it; the second pass lists what the first
\* left `changed`, and does not let it stay so.
Limbo == {"transferring", "changed"}
Returned(f) == task[f] \in {"none", "done"}
AtAudit == main \in {"audit", "auditing"} \/ status \in {"complete", "incomplete"} =>
             \A f \in Files : state[f] \notin Limbo
BetweenPasses == main = "list" /\ pass # 1 => \A f \in Files : state[f] # "transferring"
InPass ==
  main = "wait" => \A f \in Files :
    /\ Returned(f) => state[f] # "transferring"
    /\ pass # 1 => /\ Returned(f) => state[f] # "changed"
                   /\ task[f] # "none" => again[f]
CaughtIsOut ==
  \A f \in Files : task[f] \in {"marked", "caught transient", "caught permanent"} => state[f] \notin Limbo
Settling == AtAudit /\ BetweenPasses /\ InPass /\ CaughtIsOut

LEMMA PassIs == ASSUME TypeOK PROVE pass # 1 <=> pass = 2
  BY DEF TypeOK, RunOK

LEMMA MainSettles == ASSUME TypeOK, Quiet, Settling, MainStep PROVE Settling'
<1> USE DEF Settling, AtAudit, BetweenPasses, InPass, CaughtIsOut, Limbo, Returned
<1>0. status = "running" /\ (pass # 1 <=> pass = 2)
  <2>1. main # "idle"
    BY DEF MainStep, List, Await, RecordEvent, Cancel, Leaving, PassDone, Drained, AuditStart,
         AuditRow, AuditError, Verdict
  <2> QED
    BY <2>1, PassIs DEF Quiet
<1>1. CASE List
  <2>1. UNCHANGED <<status, state, pass>> /\ main = "list"
    BY <1>1 DEF List, rows
  <2>2. \A f \in Files : /\ task'[f] \in {"none", "queued"}
                         /\ ForPass(f) => task'[f] = "queued"
                         /\ task'[f] = "queued" => ForPass(f)
                         /\ ForPass(f) /\ state[f] = "changed" => again'[f]
    BY <1>1 DEF List
  <2>3. \A f \in Files : /\ state[f] = "changed" => ForPass(f)
                         /\ pass # 2 /\ state[f] = "transferring" => ForPass(f)
                         /\ pass = 2 /\ ForPass(f) => state[f] = "changed"
    BY DEF ForPass, NotRetried, Delivered
  <2>4. /\ main' \in {"audit", "wait"}
        /\ main' = "audit" => \A f \in Files : task'[f] = "none"
    BY <1>1 DEF List
  <2> QED
    BY <1>0, <2>1, <2>2, <2>3, <2>4
<1>2. CASE Await
  BY <1>0, <1>2 DEF Await, rows, pool
<1>8. CASE RecordEvent \/ Cancel
  BY <1>0, <1>8, WayOut DEF rows
<1>3. CASE PassDone
  <2>1. \A f \in Files : Returned(f)
    BY <1>3 DEF PassDone, Unreturned
  <2> QED
    BY <1>0, <1>3, <2>1 DEF PassDone, rows, pool
<1>4. CASE Drained
  <2>1. StatusLeft \notin {"complete", "incomplete"}
    BY <1>0 DEF StatusLeft
  <2> QED
    BY <1>4, <2>1 DEF Drained, Return
<1>5. CASE AuditStart
  BY <1>5 DEF AuditStart, rows, pool
<1>6. CASE AuditRow
  <2>1. /\ UNCHANGED <<main, status, task>> /\ main = "auditing"
        /\ \A f \in Files : state'[f] = state[f] \/ state'[f] = "failed"
    BY <1>6 DEF AuditRow, MarkFailed, SetState, rows, pool, TypeOK, RowsOK
  <2> QED
    BY <2>1
<1>7. CASE AuditError \/ Verdict
  BY <1>7 DEF AuditError, Verdict, Return, rows
<1> QED
  BY <1>1, <1>2, <1>3, <1>4, <1>5, <1>6, <1>7, <1>8 DEF MainStep

\* A task that returns, and one whose attempt failed, has taken its file's row
\* out of limbo.
LEMMA TaskLeavesLimbo ==
  ASSUME TypeOK, NEW f \in Files, Task(f),
         task[f] \in {"marked", "caught transient", "caught permanent"} => state[f] \notin Limbo
  PROVE  /\ task'[f] = "done" => state'[f] # "transferring"
         /\ task'[f] = "done" /\ again[f] => state'[f] # "changed"
         /\ task'[f] # "none"
         /\ task'[f] \in {"marked", "caught transient", "caught permanent"} => state'[f] \notin Limbo
<1> USE DEF Limbo
<1>1. ASSUME NEW from, NEW to, Goto(f, from, to) PROVE task[f] = from /\ task'[f] = to
  BY <1>1 DEF Goto, TypeOK, PoolOK
<1>2. ASSUME NEW s, SetState(f, s) PROVE state'[f] = s
  BY <1>2 DEF SetState, TypeOK, RowsOK
<1>3. CASE Take(f) \/ Loop(f) \/ Store(f) \/ Stopped(f) \/ Raise(f)
  <2>1. task'[f] \in {"stat", "loop", "transfer", "stored", "stopped", "raised"}
    <3>1. CASE Take(f)
      BY <1>1, <3>1 DEF Take
    <3>2. CASE Loop(f)
      BY <1>1, <3>2 DEF Loop
    <3> QED
      BY <1>1, <1>3, <3>1, <3>2 DEF Store, Stopped, Raise
  <2> QED
    BY <2>1
<1>4. CASE StatFails(f)
  BY <1>1, <1>2, <1>4 DEF StatFails, MarkFailed
<1>5. CASE Stat(f)
  <2>1. CASE source[f] = seen[f]
    <3>1. task'[f] = "loop"
      BY <1>1, <1>5, <2>1 DEF Stat
    <3> QED
      BY <3>1
  <2>2. CASE source[f] # seen[f]
    <3>1. task'[f] \in {"done", "raised"} /\ state'[f] = IF again[f] THEN "failed" ELSE "changed"
      BY <1>1, <1>2, <1>5, <2>2 DEF Stat, Finish, ChangedAgain, MarkFailed
    <3> QED
      BY <3>1
  <2> QED
    BY <2>1, <2>2
<1>9. CASE Clear(f)
  <2>1. task[f] = "marked" /\ task'[f] = "done" /\ UNCHANGED state
    BY <1>1, <1>9 DEF Clear, rows
  <2> QED
    BY <2>1
<1>6. CASE Skip(f) \/ Record(f)
  BY <1>1, <1>2, <1>6 DEF Skip, Record, MarkDelivered
<1>7. CASE \E c \in Categories : Fail(f, c)
  BY <1>1, <1>2, <1>7 DEF Fail, Attempted, MarkFailed, Categories
<1>8. CASE Caught(f)
  <2>1. task[f] \in {"caught transient", "caught permanent"} /\ task'[f] \in {"done", "raised", "loop"}
    BY <1>1, <1>8 DEF Caught, Finish
  <2>2. state'[f] = state[f] \/ state'[f] = "quarantined"
    BY <1>2, <1>8 DEF Caught, Finish
  <2> QED
    BY <2>1, <2>2
<1> QED
  BY <1>3, <1>4, <1>5, <1>6, <1>7, <1>8, <1>9 DEF Task

LEMMA TaskSettles == ASSUME TypeOK, Quiet, Settling, NEW f \in Files, Task(f) PROVE Settling'
<1> USE DEF Settling, AtAudit, BetweenPasses, InPass, CaughtIsOut, Limbo, Returned
<1>1. /\ UNCHANGED <<main, pass, status>> /\ main \in {"wait", "event", "cancel", "drain"} /\ status = "running"
      /\ \A g \in Files : g # f => task'[g] = task[g] /\ state'[g] = state[g]
      /\ task[f] \in Working \cup {"queued"}
  BY TaskMoves DEF Quiet, TypeOK, RunOK
<1>2. UNCHANGED again
  BY DEF Task, Take, StatFails, Stat, Loop, Store, Skip, Record, Clear, Stopped, Caught, Finish,
       Raise, Fail, Attempted
<1>3. /\ task'[f] = "done" => state'[f] # "transferring"
      /\ task'[f] = "done" /\ again[f] => state'[f] # "changed"
      /\ task'[f] # "none"
      /\ task'[f] \in {"marked", "caught transient", "caught permanent"} => state'[f] \notin Limbo
  BY TaskLeavesLimbo
<1>4. task[f] # "none"
  BY <1>1, PlacesAre
<1> QED
  BY <1>1, <1>2, <1>3, <1>4

LEMMA SettlingStep == ASSUME TypeOK, Quiet, PassOne, Settling, [Next]_vars PROVE Settling'
<1> USE DEF Settling, AtAudit, BetweenPasses, InPass, CaughtIsOut, Limbo, Returned
<1>1. CASE UNCHANGED <<status, main, pass, state, task, again>>
  BY <1>1
<1>2. CASE vars' = vars
  BY <1>1, <1>2 DEF vars, rows, run, pool
<1>3. CASE Begin \/ Recover
  <2>1. \A f \in Files : state'[f] \in Limbo => state'[f] = state[f]
    BY <1>3 DEF Begin, Recover, ResetStale
  <2>2. CASE Begin
    <3>1. UNCHANGED task /\ pass' = 1 /\ main' = "list" /\ status' = "running"
      BY <2>2 DEF Begin, pool, PassOne
    <3> QED
      BY <2>1, <3>1
  <2>3. CASE Recover
    BY <2>1, <2>3 DEF Recover, run, pool
  <2> QED
    BY <1>3, <2>2, <2>3
<1>4. CASE Crash
  BY <1>4 DEF Crash, Return, Quiet, rows
<1>5. CASE Stop \/ \E kind \in {"retry", "exclude"}, c \in Categories : CheckAction(kind, c)
  BY <1>1, <1>5 DEF Stop, CheckAction, rows, run, pool
<1>6. CASE ApplyAction
  <2>1. \A f \in Files : state'[f] = state[f] \/ state'[f] \in {"pending", "quarantined"}
    BY <1>6 DEF ApplyAction
  <2> QED
    BY <1>6, <2>1 DEF ApplyAction, run, pool
<1>7. CASE \E f \in Files : Edit(f) \/ Lose(f)
  BY <1>1, <1>7 DEF Edit, Lose, rows, run, pool
<1> QED
  BY <1>2, <1>3, <1>4, <1>5, <1>6, <1>7, MainSettles, TaskSettles DEF Next

\* Whenever a run has left a verdict, no file is still transferring and none is
\* `changed` (runner.py, the second pass; repository.py, job_verdict).
THEOREM VerdictSettles == Spec => []VerdictSettlesFiles
<1>1. Init => Settling
  BY DEF Init, Settling, AtAudit, BetweenPasses, InPass, CaughtIsOut
<1>2. TypeOK /\ RunInv /\ Settling /\ [Next]_vars => Settling'
  BY SettlingStep DEF RunInv
<1>3. Settling => VerdictSettlesFiles
  BY DEF Settling, AtAudit, VerdictSettlesFiles, Limbo
<1> QED
  BY <1>1, <1>2, <1>3, RunInvariant, PTL DEF Spec

---------------------------------------------------------------------------
(* No spent allowance is left open, and no rejected credential is judged *)

\* A file that was attempted in this run and failed with its cumulative
\* allowance used up: only while its task is on the way to quarantine it, or
\* was kept from it by an error the run ends with.
Overdue(f) == try[f] > 0 /\ state[f] = "failed" /\ category[f] = "transient" /\ AllowanceUsed(f)
OverdueIsCaught ==
  main \in {"list", "wait", "audit", "auditing"} =>
    \A f \in Files : Overdue(f) => main = "wait" /\ task[f] \in {"caught transient", "raised"}

\* A file that met a rejected credential in this run: its task has said so, and
\* the run is in the pass that will hear of it, or on its way out.
Rejected(f) == try[f] > 0 /\ state[f] = "failed" /\ category[f] = "pausing"
RejectedIsHeld ==
  \A f \in Files : Rejected(f) =>
    task[f] = "paused" /\ main \in {"wait", "event", "cancel", "drain"}

LeaveInv == OverdueIsCaught /\ RejectedIsHeld

LEMMA NoAttempt == \A n : n = 0 => ~(n > 0)
  OBVIOUS

\* The step of a task leaves the other files' failures alone.
LEMMA TaskKeepsFailures ==
  ASSUME TypeOK, NEW f \in Files, Task(f), NEW g \in Files, g # f
  PROVE  attempts'[g] = attempts[g] /\ category'[g] = category[g]
<1>1. CASE Take(f) \/ Loop(f) \/ Store(f) \/ Clear(f) \/ Stopped(f) \/ Raise(f) \/ Caught(f)
  BY <1>1 DEF Take, Loop, Store, Clear, Stopped, Raise, Caught, rows
<1>2. ASSUME NEW c, MarkFailed(f, c)
      PROVE  attempts'[g] = attempts[g] /\ category'[g] = category[g]
  BY <1>2 DEF MarkFailed, TypeOK, RowsOK
<1>3. CASE StatFails(f) \/ Stat(f)
  BY <1>2, <1>3 DEF StatFails, Stat, Finish, rows
<1>4. CASE Skip(f) \/ Record(f)
  BY <1>4 DEF Skip, Record, MarkDelivered, TypeOK, RowsOK
<1>5. CASE \E c \in Categories : Fail(f, c)
  BY <1>2, <1>5 DEF Fail
<1> QED
  BY <1>1, <1>3, <1>4, <1>5 DEF Task

\* A task whose step leaves its file overdue stands before the quarantine, or raised.
LEMMA TaskQuarantines ==
  ASSUME TypeOK, Allowance, NEW f \in Files, Task(f),
         Overdue(f) => task[f] \in {"caught transient", "raised"}
  PROVE  Overdue(f)' => task'[f] \in {"caught transient", "raised"}
<1>1. ASSUME NEW from, NEW to, Goto(f, from, to) PROVE task[f] = from /\ task'[f] = to
  BY <1>1 DEF Goto, TypeOK, PoolOK
<1>2. ASSUME NEW s, SetState(f, s) PROVE state'[f] = s
  BY <1>2 DEF SetState, TypeOK, RowsOK
<1>3. ASSUME NEW c, MarkFailed(f, c) PROVE category'[f] = c
  BY <1>3 DEF MarkFailed, TypeOK, RowsOK
<1>4. ASSUME UNCHANGED <<state, attempts, category, try>> PROVE Overdue(f)' <=> Overdue(f)
  BY <1>4 DEF Overdue, AllowanceUsed
<1>5. CASE Take(f) \/ Store(f) \/ Clear(f) \/ Stopped(f) \/ Raise(f)
  <2>1. UNCHANGED <<state, attempts, category, try>>
    BY <1>5 DEF Take, Store, Clear, Stopped, Raise, rows
  <2>2. task[f] \in {"queued", "transfer", "marked"} \/ task'[f] = "raised"
    BY <1>1, <1>5 DEF Take, Store, Clear, Stopped, Raise
  <2> QED
    BY <1>4, <2>1, <2>2
<1>6. CASE StatFails(f)
  <2>1. try'[f] = 0
    BY <1>1, <1>6 DEF StatFails, Allowance
  <2>2. ~(try'[f] > 0)
    BY <2>1, NoAttempt
  <2> QED
    BY <2>2 DEF Overdue
<1>7. CASE Stat(f)
  <2>1. task[f] = "stat"
    BY <1>1, <1>7 DEF Stat, Finish
  <2>2. CASE UNCHANGED rows
    <3>1. UNCHANGED <<state, attempts, category, try>>
      BY <1>7, <2>2 DEF Stat, Finish, rows
    <3> QED
      BY <1>4, <2>1, <3>1
  <2>3. CASE MarkFailed(f, "permanent")
    BY <1>3, <2>3 DEF Overdue
  <2>4. CASE SetState(f, "changed")
    BY <1>2, <2>4 DEF Overdue
  <2> QED
    BY <1>7, <2>2, <2>3, <2>4 DEF Stat
<1>8. CASE Loop(f)
  <2>1. CASE stop
    <3>1. UNCHANGED <<state, attempts, category, try>> /\ task[f] = "loop"
      BY <1>1, <1>8, <2>1 DEF Loop, rows
    <3> QED
      BY <1>4, <3>1
  <2>2. CASE ~stop
    BY <1>2, <1>8, <2>2 DEF Loop, Overdue
  <2> QED
    BY <2>1, <2>2
<1>9. CASE Skip(f) \/ Record(f)
  BY <1>2, <1>9 DEF Skip, Record, MarkDelivered, Overdue
<1>10. CASE \E c \in Categories : Fail(f, c)
  <2> PICK c \in Categories : Fail(f, c)
    BY <1>10
  <2>1. category'[f] = c
    BY <1>3 DEF Fail
  <2>2. c = "transient" => task'[f] = "caught transient"
    BY <1>1 DEF Fail
  <2> QED
    BY <2>1, <2>2 DEF Overdue
<1>11. CASE Caught(f)
  <2>1. CASE Exhausted(f)
    BY <1>2, <1>11, <2>1 DEF Caught, Finish, Overdue
  <2>2. CASE ~Exhausted(f)
    BY <1>11, <2>2 DEF Caught, Finish, Exhausted, Overdue, AllowanceUsed
  <2> QED
    BY <2>1, <2>2
<1> QED
  BY <1>5, <1>6, <1>7, <1>8, <1>9, <1>10, <1>11 DEF Task

LEMMA OverdueStep ==
  ASSUME TypeOK, Quiet, Allowance, OverdueIsCaught, [Next]_vars
  PROVE  OverdueIsCaught'
<1> USE DEF OverdueIsCaught
<1>1. CASE UNCHANGED <<main, task, rows, try>>
  BY <1>1 DEF Overdue, AllowanceUsed, rows
<1>2. CASE vars' = vars
  BY <1>1, <1>2 DEF vars, run, pool
<1>3. ASSUME NEW s, Return(s) PROVE OverdueIsCaught'
  BY <1>3 DEF Return
<1>4. CASE Begin \/ Recover
  <2>1. \A f \in Files : ~Overdue(f)'
    <3>1. \A f \in Files : try'[f] = 0
      BY <1>4 DEF Begin, Recover, Allowance, pool
    <3>2. \A f \in Files : ~(try'[f] > 0)
      BY <3>1, NoAttempt
    <3> QED
      BY <3>2 DEF Overdue
  <2> QED
    BY <2>1
<1>5. CASE MainStep
  <2>1. CASE List \/ PassDone
    <3>1. \A f \in Files : ~Overdue(f)
      <4>1. CASE List
        BY <4>1 DEF List
      <4>2. CASE PassDone
        BY <4>2 DEF PassDone, Unreturned
      <4> QED
        BY <2>1, <4>1, <4>2
    <3>2. UNCHANGED <<rows, try>>
      BY <2>1 DEF List, PassDone, pool
    <3> QED
      BY <3>1, <3>2 DEF Overdue, AllowanceUsed, rows
  <2>2. CASE Await
    BY <2>2 DEF Await
  <2>6. CASE RecordEvent \/ Cancel
    BY <2>6, WayOut
  <2>3. CASE AuditStart
    BY <2>3 DEF AuditStart, pool, rows, Overdue, AllowanceUsed
  <2>4. CASE AuditRow
    <3> PICK f \in Files : UNCHANGED rows \/ MarkFailed(f, "permanent")
      BY <2>4 DEF AuditRow
    <3>1. UNCHANGED <<main, task, try>> /\ main = "auditing"
      BY <2>4 DEF AuditRow, pool
    <3>2. CASE UNCHANGED rows
      BY <1>1, <3>1, <3>2
    <3>3. CASE MarkFailed(f, "permanent")
      <4>1. \A g \in Files : g # f => /\ state'[g] = state[g] /\ attempts'[g] = attempts[g]
                                      /\ category'[g] = category[g]
        BY <3>3 DEF MarkFailed, SetState, TypeOK, RowsOK
      <4>2. category'[f] = "permanent"
        BY <3>3 DEF MarkFailed, TypeOK, RowsOK
      <4>3. ASSUME NEW g \in Files PROVE ~Overdue(g)'
        BY <3>1, <4>1, <4>2 DEF Overdue, AllowanceUsed
      <4> QED
        BY <4>3
    <3> QED
      BY <3>2, <3>3
  <2>5. CASE Drained \/ AuditError \/ Verdict
    BY <1>3, <2>5 DEF Drained, AuditError, Verdict
  <2> QED
    BY <1>5, <2>1, <2>2, <2>3, <2>4, <2>5, <2>6 DEF MainStep
<1>6. CASE Crash
  BY <1>3, <1>6 DEF Crash
<1>7. CASE Stop \/ \E kind \in {"retry", "exclude"}, c \in Categories : CheckAction(kind, c)
  BY <1>1, <1>7 DEF Stop, CheckAction, run, pool
<1>8. CASE ApplyAction
  <2>1. ASSUME NEW f \in Files, Overdue(f)' PROVE Overdue(f)
    BY <1>8, <2>1 DEF ApplyAction, pool, Overdue, AllowanceUsed
  <2> QED
    BY <1>8, <2>1 DEF ApplyAction, run, pool
<1>9. CASE \E f \in Files : Task(f)
  <2> PICK f \in Files : Task(f)
    BY <1>9
  <2>1. /\ UNCHANGED main /\ main \in {"wait", "event", "cancel", "drain"}
        /\ \A g \in Files : g # f => task'[g] = task[g] /\ state'[g] = state[g] /\ try'[g] = try[g]
    BY TaskMoves DEF Quiet, TypeOK, RunOK
  <2>2. ASSUME NEW g \in Files, g # f PROVE Overdue(g)' <=> Overdue(g)
    BY <2>1, <2>2, TaskKeepsFailures DEF Overdue, AllowanceUsed
  <2>3. CASE main = "wait"
    <3>1. Overdue(f)' => task'[f] \in {"caught transient", "raised"}
      BY <2>3, TaskQuarantines
    <3> QED
      BY <2>1, <2>2, <2>3, <3>1
  <2> QED
    BY <2>1, <2>3
<1>10. CASE \E f \in Files : Edit(f) \/ Lose(f)
  BY <1>1, <1>10 DEF Edit, Lose, run, pool
<1> QED
  BY <1>2, <1>4, <1>5, <1>6, <1>7, <1>8, <1>9, <1>10 DEF Next

\* The attempt that meets a rejected credential is its task's last.
LEMMA TaskRejects ==
  ASSUME TypeOK, Allowance, RejectedIsHeld, NEW f \in Files, Task(f)
  PROVE  Rejected(f)' => task'[f] = "paused"
<1>1. ASSUME NEW from, NEW to, Goto(f, from, to) PROVE task[f] = from /\ task'[f] = to
  BY <1>1 DEF Goto, TypeOK, PoolOK
<1>2. ASSUME NEW s, SetState(f, s) PROVE state'[f] = s
  BY <1>2 DEF SetState, TypeOK, RowsOK
<1>3. ASSUME NEW c, MarkFailed(f, c) PROVE category'[f] = c
  BY <1>3 DEF MarkFailed, TypeOK, RowsOK
<1>4. task[f] # "paused"
  BY TaskMoves, PlacesAre
<1>5. ASSUME UNCHANGED <<state, category, try>> PROVE ~Rejected(f)'
  <2>1. ~Rejected(f)
    BY <1>4 DEF RejectedIsHeld
  <2> QED
    BY <1>5, <2>1 DEF Rejected
<1>6. CASE Take(f) \/ Store(f) \/ Clear(f) \/ Stopped(f) \/ Raise(f)
  BY <1>5, <1>6 DEF Take, Store, Clear, Stopped, Raise, rows
<1>7. CASE StatFails(f)
  BY <1>3, <1>7 DEF StatFails, Rejected
<1>8. CASE Stat(f)
  <2>1. CASE UNCHANGED rows
    BY <1>5, <1>8, <2>1 DEF Stat, rows
  <2>2. CASE MarkFailed(f, "permanent")
    BY <1>3, <2>2 DEF Rejected
  <2>3. CASE SetState(f, "changed")
    BY <1>2, <2>3 DEF Rejected
  <2> QED
    BY <1>8, <2>1, <2>2, <2>3 DEF Stat
<1>9. CASE Loop(f)
  <2>1. CASE stop
    BY <1>5, <1>9, <2>1 DEF Loop, rows
  <2>2. CASE ~stop
    BY <1>2, <1>9, <2>2 DEF Loop, Rejected
  <2> QED
    BY <2>1, <2>2
<1>10. CASE Skip(f) \/ Record(f)
  BY <1>2, <1>10 DEF Skip, Record, MarkDelivered, Rejected
<1>11. CASE \E c \in Categories : Fail(f, c)
  <2> PICK c \in Categories : Fail(f, c)
    BY <1>11
  <2>1. category'[f] = c
    BY <1>3 DEF Fail
  <2>2. c = "pausing" => task'[f] = "paused"
    BY <1>1 DEF Fail
  <2> QED
    BY <2>1, <2>2 DEF Rejected
<1>12. CASE Caught(f)
  <2>1. CASE Exhausted(f)
    BY <1>2, <1>12, <2>1 DEF Caught, Rejected
  <2>2. CASE ~Exhausted(f)
    BY <1>5, <1>12, <2>2 DEF Caught
  <2> QED
    BY <2>1, <2>2
<1> QED
  BY <1>6, <1>7, <1>8, <1>9, <1>10, <1>11, <1>12 DEF Task

LEMMA RejectedStep ==
  ASSUME TypeOK, Quiet, Allowance, RejectedIsHeld, [Next]_vars
  PROVE  RejectedIsHeld'
<1> USE DEF RejectedIsHeld
<1>1. CASE UNCHANGED <<main, task, rows, try>>
  BY <1>1 DEF Rejected, rows
<1>2. CASE vars' = vars
  BY <1>1, <1>2 DEF vars, run, pool
<1>3. ASSUME \A f \in Files : try'[f] = 0 PROVE RejectedIsHeld'
  <2>1. \A f \in Files : ~(try'[f] > 0)
    BY <1>3, NoAttempt
  <2> QED
    BY <2>1 DEF Rejected
<1>4. ASSUME NEW s, Return(s) PROVE RejectedIsHeld'
  BY <1>3, <1>4 DEF Return
<1>5. CASE Begin \/ Recover
  BY <1>3, <1>5 DEF Begin, Recover, Allowance, pool
<1>6. CASE MainStep
  <2>1. CASE List \/ PassDone
    <3>1. \A f \in Files : ~Rejected(f)
      BY <2>1 DEF List, PassDone, Unreturned
    <3>2. UNCHANGED <<rows, try>>
      BY <2>1 DEF List, PassDone, pool
    <3> QED
      BY <3>1, <3>2 DEF Rejected, rows
  <2>2. CASE Await
    BY <2>2 DEF Await, pool, rows, Rejected
  <2>3. CASE RecordEvent \/ Cancel
    <3>1. \A f \in Files : Rejected(f)' <=> Rejected(f)
      BY <2>3, WayOut DEF Rejected, rows
    <3> QED
      BY <2>3, <3>1, WayOut
  <2>4. CASE AuditStart
    BY <2>4 DEF AuditStart, pool, rows, Rejected
  <2>5. CASE AuditRow
    <3> PICK f \in Files : UNCHANGED rows \/ MarkFailed(f, "permanent")
      BY <2>5 DEF AuditRow
    <3>1. UNCHANGED <<main, task, try>>
      BY <2>5 DEF AuditRow, pool
    <3>2. CASE UNCHANGED rows
      BY <1>1, <3>1, <3>2
    <3>3. CASE MarkFailed(f, "permanent")
      <4>1. \A g \in Files : g # f => state'[g] = state[g] /\ category'[g] = category[g]
        BY <3>3 DEF MarkFailed, SetState, TypeOK, RowsOK
      <4>2. category'[f] = "permanent"
        BY <3>3 DEF MarkFailed, TypeOK, RowsOK
      <4>3. ASSUME NEW g \in Files, Rejected(g)' PROVE Rejected(g)
        BY <3>1, <4>1, <4>2, <4>3 DEF Rejected
      <4> QED
        BY <3>1, <4>3
    <3> QED
      BY <3>2, <3>3
  <2>6. CASE Drained \/ AuditError \/ Verdict
    BY <1>4, <2>6 DEF Drained, AuditError, Verdict
  <2> QED
    BY <1>6, <2>1, <2>2, <2>3, <2>4, <2>5, <2>6 DEF MainStep
<1>7. CASE Crash
  BY <1>4, <1>7 DEF Crash
<1>8. CASE Stop \/ \E kind \in {"retry", "exclude"}, c \in Categories : CheckAction(kind, c)
  BY <1>1, <1>8 DEF Stop, CheckAction, run, pool
<1>9. CASE ApplyAction
  <2>1. ASSUME NEW f \in Files, Rejected(f)' PROVE Rejected(f)
    BY <1>9, <2>1 DEF ApplyAction, pool, Rejected
  <2> QED
    BY <1>9, <2>1 DEF ApplyAction, run, pool
<1>10. CASE \E f \in Files : Task(f)
  <2> PICK f \in Files : Task(f)
    BY <1>10
  <2>1. /\ UNCHANGED main /\ main \in {"wait", "event", "cancel", "drain"}
        /\ \A g \in Files : g # f => task'[g] = task[g] /\ state'[g] = state[g] /\ try'[g] = try[g]
    BY TaskMoves DEF Quiet, TypeOK, RunOK
  <2>2. ASSUME NEW g \in Files, g # f PROVE Rejected(g)' <=> Rejected(g)
    BY <2>1, <2>2, TaskKeepsFailures DEF Rejected
  <2>3. Rejected(f)' => task'[f] = "paused"
    BY TaskRejects
  <2> QED
    BY <2>1, <2>2, <2>3
<1>11. CASE \E f \in Files : Edit(f) \/ Lose(f)
  BY <1>1, <1>11 DEF Edit, Lose, run, pool
<1> QED
  BY <1>2, <1>5, <1>6, <1>7, <1>8, <1>9, <1>10, <1>11 DEF Next

LEMMA LeaveInvariant == Spec => []LeaveInv
<1>1. Init => LeaveInv
  BY NoAttempt DEF Init, LeaveInv, OverdueIsCaught, RejectedIsHeld, Rejected
<1>2. TypeOK /\ RunInv /\ LeaveInv /\ [Next]_vars => LeaveInv'
  BY OverdueStep, RejectedStep DEF RunInv, LeaveInv
<1> QED
  BY <1>1, <1>2, RunInvariant, PTL DEF Spec

\* The steps that give a job a verdict.
LEMMA VerdictSteps ==
  ASSUME RunInv, [Next]_vars, status = "running", status' \in {"complete", "incomplete"}
  PROVE  AuditError \/ Verdict
<1>1. CASE UNCHANGED status
  BY <1>1
<1>2. CASE vars' = vars
  BY <1>1, <1>2 DEF vars
<1>3. ~Begin /\ ~Recover
  BY DEF Begin, Recover
<1>4. CASE Stop \/ Crash \/ ApplyAction \/ \E kind \in {"retry", "exclude"}, c \in Categories : CheckAction(kind, c)
  BY <1>1, <1>4 DEF Stop, Crash, Return, ApplyAction, CheckAction
<1>5. CASE \E f \in Files : Task(f)
  BY <1>1, <1>5 DEF Task, Take, StatFails, Stat, Loop, Store, Skip, Record, Clear, Stopped, Caught,
       Finish, Raise,
       Fail, PoolStep
<1>6. CASE \E f \in Files : Edit(f) \/ Lose(f)
  BY <1>1, <1>6 DEF Edit, Lose
<1>7. CASE MainStep
  <2>1. ~Drained
    BY DEF Drained, Return, StatusLeft
  <2> QED
    BY <1>1, <1>7, <2>1 DEF MainStep, List, Await, RecordEvent, Cancel, Leaving, PassDone,
         AuditStart, AuditRow
<1> QED
  BY <1>2, <1>3, <1>4, <1>5, <1>6, <1>7 DEF Next

\* When a verdict falls, no file that this run attempted is left failed with
\* its allowance of transient failures used up: it is quarantined, and the
\* worker's stall loop has nothing to re-run (retry.py, QUARANTINE_ATTEMPTS).
THEOREM SpentIsQuarantined == Spec => ExhaustedIsQuarantined
<1>1. TypeOK /\ RunInv /\ LeaveInv /\ [Next]_vars =>
        [status = "running" /\ status' \in {"complete", "incomplete"} =>
           \A f \in Files : try[f] > 0 /\ state[f] = "failed" /\ category[f] = "transient"
                              => ~AllowanceUsed(f)]_vars
  <2> SUFFICES ASSUME TypeOK, RunInv, LeaveInv, [Next]_vars,
                      status = "running", status' \in {"complete", "incomplete"}
               PROVE  \A f \in Files : ~Overdue(f)
    BY DEF Overdue
  <2>1. main \in {"audit", "auditing"}
    BY VerdictSteps DEF AuditError, Verdict
  <2> QED
    BY <2>1 DEF LeaveInv, OverdueIsCaught
<1> QED
  BY <1>1, RunInvariant, LeaveInvariant, PTL DEF Spec, ExhaustedIsQuarantined

\* No run in which a file met a rejected credential ends in a verdict, COMPLETE
\* or INCOMPLETE: the pass that started the file hears of it and leaves the pool
\* (runner.py:333-334, 437-440; "a credential error (401/403) pauses the whole job").
THEOREM RejectionPauses == Spec => RejectionIsNotJudged
<1>1. TypeOK /\ RunInv /\ LeaveInv /\ [Next]_vars =>
        [status = "running" /\ status' \in {"complete", "incomplete"} =>
           \A f \in Files : try[f] > 0 /\ state[f] = "failed" => category[f] # "pausing"]_vars
  <2> SUFFICES ASSUME TypeOK, RunInv, LeaveInv, [Next]_vars,
                      status = "running", status' \in {"complete", "incomplete"}
               PROVE  \A f \in Files : ~Rejected(f)
    BY DEF Rejected
  <2>1. main \in {"audit", "auditing"}
    BY VerdictSteps DEF AuditError, Verdict
  <2> QED
    BY <2>1 DEF LeaveInv, RejectedIsHeld
<1> QED
  BY <1>1, RunInvariant, LeaveInvariant, PTL DEF Spec, RejectionIsNotJudged

---------------------------------------------------------------------------
(* JobRun implements Delivery *)

\* The mapped variables, by name.
Ledger == [f \in Files |-> Standing(state[f])]
Holding == {f \in Files : held[f] # Nothing}
Settled == IF status \in {"complete", "incomplete"} THEN status ELSE "none"
mapped == <<Ledger, Holding, listed, Settled>>

\* What an abstract step says, with the mapped variables in it.
LEMMA AbstractSteps ==
  /\ Promise!Begin <=> Settled' = "none" /\ listed' = {} /\ UNCHANGED <<Ledger, Holding>>
  /\ Promise!Finish <=> /\ Settled = "none"
                        /\ \/ Settled' = "incomplete"
                           \/ /\ \A f \in Files : Ledger[f] = "delivered" /\ f \in listed
                              /\ Settled' = "complete"
                        /\ UNCHANGED <<Ledger, Holding, listed>>
  /\ \A f : Promise!Arrive(f) <=> Holding' = Holding \cup {f} /\ UNCHANGED <<Ledger, listed, Settled>>
  /\ \A f : Promise!Vanish(f) <=> Holding' = Holding \ {f} /\ UNCHANGED <<Ledger, listed, Settled>>
  /\ \A F : Promise!Confirm(F) <=> /\ Settled = "none" /\ F \subseteq Holding
                                  /\ listed' = listed \cup F
                                  /\ UNCHANGED <<Ledger, Holding, Settled>>
  /\ \A F : Promise!GiveUp(F) <=>
       /\ \A f \in F : Ledger[f] = "open"
       /\ Ledger' = [f \in Files |-> IF f \in F THEN "given up" ELSE Ledger[f]]
       /\ UNCHANGED <<Holding, listed, Settled>>
  /\ \A F : Promise!TakeUp(F) <=>
       /\ \A f \in F : Ledger[f] = "given up"
       /\ Ledger' = [f \in Files |-> IF f \in F THEN "open" ELSE Ledger[f]]
       /\ UNCHANGED <<Holding, listed, Settled>>
  BY DEF Promise!Begin, Promise!Finish, Promise!Arrive, Promise!Vanish, Promise!Confirm,
       Promise!GiveUp, Promise!TakeUp,
       Ledger, Holding, Settled, Standing

\* A group of files given up or taken up again is a step of the ledger.
LEMMA GroupStep ==
  ASSUME NEW F \in SUBSET Files, UNCHANGED <<Holding, listed, Settled>>,
         \/ /\ \A f \in F : Ledger[f] = "open"
            /\ Ledger' = [f \in Files |-> IF f \in F THEN "given up" ELSE Ledger[f]]
         \/ /\ \A f \in F : Ledger[f] = "given up"
            /\ Ledger' = [f \in Files |-> IF f \in F THEN "open" ELSE Ledger[f]]
  PROVE  [Promise!DeliveryNext]_mapped
<1>1. Promise!GiveUp(F) \/ Promise!TakeUp(F)
  BY AbstractSteps
<1> QED
  BY <1>1 DEF Promise!DeliveryNext

\* A step that writes the row of one file while no verdict stands, and takes no
\* delivered file to quarantine, is a step of the ledger.
LEMMA LedgerStep ==
  ASSUME NEW f \in Files, UNCHANGED <<Holding, listed, Settled>>, Settled = "none",
         Ledger' = [Ledger EXCEPT ![f] = Ledger'[f]],
         Ledger[f] = "delivered" => Ledger'[f] # "given up"
  PROVE  [Promise!DeliveryNext]_mapped
<1>7. Ledger \in [Files -> {"open", "delivered", "given up"}]
  BY DEF Ledger, Standing
<1>1. Ledger[f] \in {"open", "delivered", "given up"} /\ Ledger'[f] \in {"open", "delivered", "given up"}
  BY DEF Ledger, Standing
<1>2. CASE Ledger'[f] = Ledger[f]
  <2>1. Ledger' = Ledger
    BY <1>2 DEF Ledger, Standing
  <2> QED
    BY <2>1 DEF mapped
<1>3. CASE Ledger[f] # "delivered" /\ Ledger'[f] = "delivered"
  <2>1. Promise!Deliver(f)
    BY <1>3 DEF Promise!Deliver, Ledger, Standing, Holding, Settled
  <2> QED
    BY <2>1 DEF Promise!DeliveryNext
<1>4. CASE Ledger[f] = "delivered" /\ Ledger'[f] = "open"
  <2>1. Promise!Reopen(f)
    BY <1>4 DEF Promise!Reopen, Ledger, Standing, Holding, Settled
  <2> QED
    BY <2>1 DEF Promise!DeliveryNext
<1>5. CASE Ledger[f] = "open" /\ Ledger'[f] = "given up"
  <2>1. Promise!GiveUp({f})
    <3>1. [Ledger EXCEPT ![f] = "given up"] = [g \in Files |-> IF g \in {f} THEN "given up" ELSE Ledger[g]]
      BY <1>7
    <3> QED
      BY <1>5, <3>1, AbstractSteps
  <2> QED
    BY <2>1 DEF Promise!DeliveryNext
<1>6. CASE Ledger[f] = "given up" /\ Ledger'[f] = "open"
  <2>1. Promise!TakeUp({f})
    <3>1. [Ledger EXCEPT ![f] = "open"] = [g \in Files |-> IF g \in {f} THEN "open" ELSE Ledger[g]]
      BY <1>7
    <3> QED
      BY <1>6, <3>1, AbstractSteps
  <2> QED
    BY <2>1 DEF Promise!DeliveryNext
<1> QED
  BY <1>1, <1>2, <1>3, <1>4, <1>5, <1>6

\* The same, in terms of the rows.
LEMMA RowStep ==
  ASSUME NEW f \in Files, UNCHANGED <<held, listed, status>>, Settled = "none",
         \A g \in Files : g # f => state'[g] = state[g],
         state[f] \in Delivered => state'[f] # "quarantined"
  PROVE  [Promise!DeliveryNext]_mapped
<1>1. UNCHANGED <<Holding, Settled>>
  BY DEF Holding, Settled
<1>2. Ledger' = [Ledger EXCEPT ![f] = Ledger'[f]]
  <2>1. ASSUME NEW g \in Files, g # f PROVE Ledger'[g] = Ledger[g]
    <3>1. state'[g] = state[g]
      BY <2>1
    <3> QED
      BY <3>1 DEF Ledger, Standing
  <2>2. /\ Ledger \in [Files -> {"open", "delivered", "given up"}]
        /\ Ledger' \in [Files -> {"open", "delivered", "given up"}]
    BY DEF Ledger, Standing
  <2> QED
    BY <2>1, <2>2
<1>3. Ledger[f] = "delivered" => Ledger'[f] # "given up"
  BY DEF Ledger, Standing, Delivered
<1> QED
  BY <1>1, <1>2, <1>3, LedgerStep

LEMMA SameStep ==
  ASSUME UNCHANGED <<state, held, listed, Settled>>
  PROVE  [Promise!DeliveryNext]_mapped
  BY DEF mapped, Ledger, Standing, Holding

\* run_job's own steps, the audit and the verdict among them.
LEMMA MainSimulates ==
  ASSUME TypeOK, RunInv, MainStep
  PROVE  [Promise!DeliveryNext]_mapped
<1>1. status = "running" /\ Settled = "none"
  <2>1. main # "idle"
    BY DEF MainStep, List, Await, RecordEvent, Cancel, Leaving, PassDone, Drained, AuditStart,
         AuditRow, AuditError, Verdict
  <2> QED
    BY <2>1 DEF RunInv, Quiet, Settled
<1>2. CASE List \/ Await \/ RecordEvent \/ Cancel \/ PassDone
  <2>1. UNCHANGED <<state, held, listed, status>>
    BY <1>2 DEF List, Await, RecordEvent, Cancel, Leaving, PassDone, rows, world
  <2> QED
    BY <2>1, SameStep DEF Settled
<1>3. CASE Drained
  <2>1. Settled' = "none"
    BY <1>1, <1>3 DEF Drained, Return, StatusLeft, Settled
  <2> QED
    BY <1>1, <1>3, <2>1, SameStep DEF Drained, Return, rows, world
<1>4. CASE AuditStart
  <2>1. listed = {} /\ UNCHANGED <<Ledger, Holding, Settled>>
    BY <1>4 DEF AuditStart, RunInv, Audited, rows, world, Ledger, Standing, Holding, Settled
  <2>2. listed' = listed \cup IF upload THEN Holding ELSE {}
    BY <1>4, <2>1 DEF AuditStart, Holding
  <2>3. Promise!Confirm(IF upload THEN Holding ELSE {})
    BY <1>1, <2>1, <2>2, AbstractSteps
  <2>4. (IF upload THEN Holding ELSE {}) \in SUBSET Files
    BY DEF Holding
  <2> QED
    BY <2>3, <2>4 DEF Promise!DeliveryNext
<1>5. CASE AuditRow
  <2> PICK f \in Files :
        \/ Found(f) /\ listed' = listed \cup {f} /\ UNCHANGED rows
        \/ MarkFailed(f, "permanent") /\ UNCHANGED listed
    BY <1>5 DEF AuditRow
  <2>1. UNCHANGED <<held, status>>
    BY <1>5 DEF AuditRow, world
  <2>2. CASE f \in listed /\ listed' = listed \cup {f} /\ UNCHANGED rows
    BY <2>1, <2>2, SameStep DEF rows, Settled
  <2>3. CASE held[f] # Nothing /\ listed' = listed \cup {f} /\ UNCHANGED rows
    <3>1. UNCHANGED <<Ledger, Holding, Settled>> /\ {f} \subseteq Holding
      BY <2>1, <2>3 DEF rows, Ledger, Standing, Holding, Settled
    <3>2. Promise!Confirm({f})
      BY <1>1, <2>3, <3>1, AbstractSteps
    <3>3. {f} \in SUBSET Files
      OBVIOUS
    <3> QED
      BY <3>2, <3>3 DEF Promise!DeliveryNext
  <2>4. CASE MarkFailed(f, "permanent") /\ UNCHANGED listed
    <3>1. (\A g \in Files : g # f => state'[g] = state[g]) /\ state'[f] = "failed"
      BY <2>4 DEF MarkFailed, SetState, TypeOK, RowsOK
    <3> QED
      BY <1>1, <2>1, <2>4, <3>1, RowStep
  <2> QED
    BY <2>2, <2>3, <2>4 DEF Found
<1>6. CASE AuditError
  <2>1. UNCHANGED <<Ledger, Holding, listed>> /\ Settled' = "incomplete"
    BY <1>6 DEF AuditError, Return, rows, world, Ledger, Standing, Holding, Settled
  <2> QED
    BY <1>1, <2>1, AbstractSteps DEF Promise!DeliveryNext
<1>7. CASE Verdict
  <2>1. UNCHANGED <<Ledger, Holding, listed>>
    BY <1>7 DEF Verdict, Return, rows, world, Ledger, Standing, Holding
  <2>2. CASE Settled' = "incomplete"
    BY <1>1, <2>1, <2>2, AbstractSteps DEF Promise!DeliveryNext
  <2>3. CASE Settled' = "complete"
    <3>1. \A f \in Files : state[f] \in Delivered
      BY <1>7, <2>3 DEF Verdict, Return, CountsDelivered, Settled
    <3>2. \A f \in Files : f \in listed
      BY <1>7, <3>1 DEF Verdict, RunInv, Audited
    <3>3. ASSUME NEW f \in Files PROVE Ledger[f] = "delivered"
      <4>1. state[f] \in Delivered
        BY <3>1
      <4> QED
        BY <4>1 DEF Ledger, Standing, Delivered
    <3> QED
      BY <1>1, <2>1, <2>3, <3>2, <3>3, AbstractSteps DEF Promise!DeliveryNext
  <2> QED
    BY <1>7, <2>2, <2>3 DEF Verdict, Return, Settled
<1> QED
  BY <1>2, <1>3, <1>4, <1>5, <1>6, <1>7 DEF MainStep

\* The steps of a file's task.
LEMMA TaskSimulates ==
  ASSUME TypeOK, RunInv, NEW f \in Files, Task(f)
  PROVE  [Promise!DeliveryNext]_mapped
<1>1. Settled = "none" /\ UNCHANGED <<status, listed, Settled>>
  BY TaskMoves DEF RunInv, Quiet, Settled, TypeOK, RunOK
<1>2. \A g \in Files : g # f => state'[g] = state[g]
  BY TaskMoves
<1>3. CASE Store(f)
  <2>1. Holding' = Holding \cup {f}
    BY <1>3, FilesAssumption DEF Store, Holding, TypeOK, WorldOK
  <2>2. UNCHANGED Ledger
    BY <1>3 DEF Store, rows, Ledger, Standing
  <2> QED
    BY <1>1, <2>1, <2>2, AbstractSteps DEF Promise!DeliveryNext
<1>4. CASE ~Store(f)
  <2>1. UNCHANGED held
    BY <1>4 DEF Task, Take, StatFails, Stat, Loop, Skip, Record, Clear, Stopped, Caught, Finish,
         Raise, Fail, Attempted, world
  <2>2. state[f] \in Delivered => state'[f] # "quarantined"
    <3>1. ASSUME NEW s, SetState(f, s) PROVE state'[f] = s
      BY <3>1 DEF SetState, TypeOK, RowsOK
    <3>2. CASE Caught(f)
      BY <3>2 DEF Caught, Finish, Goto, RunInv, CaughtNotDelivered
    <3> QED
      BY <1>4, <3>1, <3>2 DEF Task, Take, StatFails, Stat, Loop, Skip, Record, Clear, Stopped,
           Raise, Fail, Attempted,
           MarkFailed, MarkDelivered, rows, Delivered
  <2> QED
    BY <1>1, <1>2, <2>1, <2>2, RowStep
<1> QED
  BY <1>3, <1>4

LEMMA StepSimulates ==
  ASSUME TypeOK, RunInv, [Next]_vars
  PROVE  [Promise!DeliveryNext]_mapped
<1>1. CASE UNCHANGED <<state, held, listed, status>>
  BY <1>1, SameStep DEF Settled
<1>2. CASE vars' = vars
  BY <1>1, <1>2 DEF vars, rows, world, run
<1>3. CASE Begin
  <2>1. UNCHANGED <<Ledger, Holding>>
    BY <1>3 DEF Begin, ResetStale, world, Ledger, Standing, Holding, Delivered, TypeOK, RowsOK
  <2> QED
    BY <1>3, <2>1, AbstractSteps DEF Begin, Settled, Promise!DeliveryNext
<1>4. CASE Recover
  <2>1. UNCHANGED <<Ledger, Holding, listed, Settled>>
    BY <1>4 DEF Recover, ResetStale, world, run, Ledger, Standing, Holding, Settled, Delivered,
         TypeOK, RowsOK
  <2> QED
    BY <2>1 DEF mapped
<1>5. CASE Stop \/ Crash
  BY <1>1, <1>5 DEF Stop, Crash, Return, rows, world, run
<1>6. CASE \E kind \in {"retry", "exclude"}, c \in Categories : CheckAction(kind, c)
  BY <1>1, <1>6 DEF CheckAction, rows, world, run
<1>7. CASE ApplyAction
  <2>1. UNCHANGED <<Holding, listed, Settled>>
    BY <1>7 DEF ApplyAction, world, run, Holding, Settled
  <2>2. CASE action.kind = "retry"
    <3> DEFINE F == {f \in Files : state[f] = "quarantined" /\ category[f] = action.category}
    <3>1. \A f \in Files : state'[f] = IF state[f] \in {"failed", "quarantined"} /\ category[f] = action.category
                                      THEN "pending" ELSE state[f]
      BY <1>7, <2>2 DEF ApplyAction, Group
    <3>2. \A f \in F : Ledger[f] = "given up"
      BY DEF Ledger, Standing, Delivered
    <3>3. Ledger' = [f \in Files |-> IF f \in F THEN "open" ELSE Ledger[f]]
      BY <3>1 DEF Ledger, Standing, Delivered
    <3>4. F \in SUBSET Files
      OBVIOUS
    <3> HIDE DEF F
    <3> QED
      BY <2>1, <3>2, <3>3, <3>4, GroupStep
  <2>3. CASE action.kind # "retry"
    <3> DEFINE F == {f \in Files : state[f] = "failed" /\ category[f] = action.category}
    <3>1. \A f \in Files : state'[f] = IF f \in F THEN "quarantined" ELSE state[f]
      BY <1>7, <2>3 DEF ApplyAction, Group
    <3>2. \A f \in F : Ledger[f] = "open"
      BY DEF Ledger, Standing, Delivered
    <3>3. Ledger' = [f \in Files |-> IF f \in F THEN "given up" ELSE Ledger[f]]
      BY <3>1 DEF Ledger, Standing, Delivered
    <3>4. F \in SUBSET Files
      OBVIOUS
    <3> HIDE DEF F
    <3> QED
      BY <2>1, <3>2, <3>3, <3>4, GroupStep
  <2> QED
    BY <2>2, <2>3
<1>8. CASE MainStep
  BY <1>8, MainSimulates
<1>9. CASE \E f \in Files : Task(f)
  BY <1>9, TaskSimulates
<1>10. CASE \E f \in Files : Edit(f)
  BY <1>1, <1>10 DEF Edit, rows, run
<1>11. CASE \E f \in Files : Lose(f)
  <2> PICK f \in Files : Lose(f)
    BY <1>11
  <2>1. Holding' = Holding \ {f}
    BY DEF Lose, Holding, TypeOK, WorldOK
  <2>2. UNCHANGED <<Ledger, listed, Settled>>
    BY DEF Lose, rows, run, Ledger, Standing, Settled
  <2> QED
    BY <2>1, <2>2, AbstractSteps DEF Promise!DeliveryNext
<1> QED
  BY <1>2, <1>3, <1>4, <1>5, <1>6, <1>7, <1>8, <1>9, <1>10, <1>11 DEF Next

\* Every run of a job implements Delivery: COMPLETE is said only of files that
\* are all delivered and were all found by that run's audit.
THEOREM RunKeepsPromise == Spec => KeepsPromise
<1>1. Init => Promise!DeliveryInit
  BY DEF Init, Promise!DeliveryInit, Delivered, Standing
<1>2. TypeOK /\ RunInv /\ [Next]_vars =>
        [Promise!DeliveryNext]_<<[f \in Files |-> Standing(state[f])],
                                {f \in Files : held[f] # Nothing}, listed,
                                IF status \in {"complete", "incomplete"} THEN status ELSE "none">>
  BY StepSimulates DEF mapped, Ledger, Holding, Settled
<1> QED
  BY <1>1, <1>2, RunInvariant, PTL DEF Spec, KeepsPromise, Promise!DeliverySpec
=============================================================================
