------------------------- MODULE JobQueueProofs -------------------------
(***************************************************************************)
(* Theorems about JobQueue, for every set of jobs, threads and terminals:  *)
(* what holds of the rows and the lock, and then, in the last sections,    *)
(* what becomes of a run's outcome and of its users' stops, which are      *)
(* action properties.                                                      *)
(***************************************************************************)
EXTENDS JobQueue, TLAPS

---------------------------------------------------------------------------
(* Type correctness, one group of variables at a time *)

LEMMA PcsAre ==
  Pcs = {"idle", "no profile", "picked", "check", "scan", "scanning", "ready", "lock",
         "contended", "fail", "probe", "stall", "stalled", "unstall", "report", "finish",
         "apply", "applying", "create", "start", "running",
         "complete", "incomplete", "paused", "stopped", "raised"}
  BY DEF Pcs, Locked, Outcomes

\* A write of one status keeps the rows well typed.
LEMMA StatusTyped ==
  ASSUME RowsOK, NEW j, NEW s \in Statuses, SetStatus(j, s), OnlyStatus
  PROVE  RowsOK'
  BY DEF RowsOK, SetStatus, OnlyStatus

\* So does the INSERT of a new row.
LEMMA CreateTyped ==
  ASSUME RowsOK, NEW j \in Jobs, NEW d \in Dests \cup {NoDest}, NEW prof \in BOOLEAN,
         NEW later \in BOOLEAN, CreateJob(j, d, prof, later)
  PROVE  RowsOK'
  BY DEF CreateJob, RowsOK, SetStatus, Statuses

LEMMA RowsStep == ASSUME TypeOK, [Next]_vars PROVE RowsOK'
<1> USE DEF TypeOK
<1>1. CASE UNCHANGED rows
  BY <1>1 DEF rows, RowsOK
<1>2. CASE vars' = vars
  BY <1>2, <1>1 DEF vars
<1>3. CASE \/ (\E j \in Jobs : Pick(j)) \/ JobStarted \/ Check \/ Ready \/ ProbeNetwork
           \/ Report \/ StallExit \/ ProbeAnswers \/ JobFinished \/ ReadForIntent \/ DbError
  BY <1>3, <1>1 DEF Pick, JobStarted, Check, Ready, ProbeNetwork, Report, StallExit,
       ProbeAnswers, JobFinished, ReadForIntent, DbError
<1>4. CASE \E p \in Runners : ScanFail(p) \/ TakeLock(p) \/ LockRefused(p) \/ ReleaseLock(p)
  BY <1>4, <1>1 DEF ScanFail, TakeLock, LockRefused, ReleaseLock
<1>5. CASE \E c \in Clis : \/ \E d \in Dests : CliTransfer(c, d)
                           \/ \E j \in Jobs : CliResume(c, j)
                           \/ CliKill(c)
  BY <1>5, <1>1 DEF CliTransfer, CliResume, CliKill
<1>6. CASE \/ \E a \in Apis : (\E op \in Ops, j \in Jobs : Call(a, op, j)) \/ Request(a)
           \/ Start \/ RecoverRead \/ RecoverDone \/ StopService \/ Exit \/ Crash
  BY <1>6, <1>1 DEF Call, Request, Start, RecoverRead, RecoverDone, StopService, Exit, Crash,
       GoDown, rows
<1>7. CASE PauseUnprofiled \/ Contended \/ RecordFailure \/ Stall \/ Unstall \/ ApplyIntent
  BY <1>7, StatusTyped DEF PauseUnprofiled, Contended, RecordFailure, Stall, Unstall,
       ApplyIntent, StopStatus, Statuses
<1>8. CASE \E j \in Jobs : RecoverJob(j)
  BY <1>8, StatusTyped DEF RecoverJob, Statuses
<1>9. CASE \E p \in Runners : ScanStart(p)
  BY <1>9, StatusTyped DEF ScanStart, Statuses
<1>10. CASE \E p \in Runners : ScanBatch(p) \/ ScanFinish(p) \/ StartRun(p)
  BY <1>10 DEF ScanBatch, ScanFinish, StartRun, RowsOK, SetStatus, Statuses
<1>11. CASE \E p \in Runners : \E o \in Outcomes : EndRun(p, o)
  <2> PICK p \in Runners, o \in Outcomes : EndRun(p, o)
    BY <1>11
  <2>1. CASE o = "stopped"
    BY <2>1, StatusTyped DEF EndRun, Statuses
  <2>2. CASE o = "raised"
    BY <2>2, <1>1 DEF EndRun, OnlyStatus, rows
  <2>3. CASE o \in {"complete", "incomplete", "paused"}
    BY <2>3, StatusTyped DEF EndRun, Statuses
  <2> QED BY <2>1, <2>2, <2>3 DEF Outcomes
<1>12. CASE \/ \E c \in Clis, j \in Jobs : CliCreate(c, j)
            \/ \E d \in Dests, j \in Jobs : Submit(d, j)
  <2> PICK j \in Jobs, d \in Dests \cup {NoDest}, prof \in BOOLEAN, later \in BOOLEAN :
         CreateJob(j, d, prof, later)
    BY <1>12, CreateTyped DEF CliCreate, Submit, RunnersOK
  <2> QED BY CreateTyped
<1>13. CASE \E a \in Apis : Write(a)
  BY <1>13 DEF Write, RowsOK, SetStatus, Statuses, StopStatus
<1>14. CASE \E j \in Jobs : TimePasses(j) \/ Unarchive(j)
  BY <1>14 DEF TimePasses, Unarchive, RowsOK
<1> QED
  BY <1>2, <1>3, <1>4, <1>5, <1>6, <1>7, <1>8, <1>9, <1>10, <1>11, <1>12, <1>13, <1>14
  DEF Next, WorkerStep, Run, Terminal, Handler, Recovery, Runners

\* A thread's step to another place keeps pc well typed.
LEMMA GotoTyped ==
  ASSUME RunnersOK, NEW p, NEW from, NEW to \in Pcs, Goto(p, from, to)
  PROVE  pc' \in [Runners -> Pcs]
  BY DEF RunnersOK, Goto

LEMMA RunnersStep == ASSUME TypeOK, [Next]_vars PROVE RunnersOK'
<1> USE DEF TypeOK
<1>1. CASE UNCHANGED <<pc, claim, locals, lock>>
  BY <1>1 DEF RunnersOK, locals
<1>2. CASE vars' = vars
  BY <1>2, <1>1 DEF vars
<1>3. CASE \/ \E a \in Apis : (\E op \in Ops, j \in Jobs : Call(a, op, j)) \/ Request(a) \/ Write(a)
           \/ \E j \in Jobs : TimePasses(j) \/ Unarchive(j) \/ RecoverJob(j)
           \/ \E d \in Dests, j \in Jobs : Submit(d, j)
           \/ Start \/ RecoverRead \/ RecoverDone \/ StopService
           \/ \E p \in Runners : ScanBatch(p)
  BY <1>3, <1>1 DEF Call, Request, Write, TimePasses, Unarchive, RecoverJob, Submit, Start,
       RecoverRead, RecoverDone, StopService, ScanBatch
<1>4. ASSUME UNCHANGED <<claim, locals, lock>>, NEW p, NEW from, NEW to \in Pcs,
             Goto(p, from, to)
      PROVE  RunnersOK'
  BY <1>4, GotoTyped DEF RunnersOK, locals
<1>5. CASE PauseUnprofiled \/ JobStarted \/ Contended \/ RecordFailure \/ Report \/ Stall
           \/ StallExit \/ ProbeAnswers \/ Unstall
  BY <1>5, <1>4, PcsAre DEF PauseUnprofiled, JobStarted, Contended, RecordFailure, Report,
       Stall, StallExit, ProbeAnswers, Unstall
<1>6. CASE Check \/ Ready \/ ProbeNetwork
  BY <1>6, <1>4, PcsAre DEF Check, Ready, ProbeNetwork
<1>7. CASE \E p \in Runners : ScanStart(p) \/ ScanFinish(p) \/ StartRun(p)
  BY <1>7, <1>4, PcsAre DEF ScanStart, ScanFinish, StartRun
<1>8. CASE \E p \in Runners, o \in Outcomes : EndRun(p, o)
  BY <1>8, <1>4, PcsAre DEF EndRun, Outcomes
<1>9. ASSUME NEW j \in Jobs, Pick(j) PROVE RunnersOK'
  BY <1>9, GotoTyped, PcsAre DEF Pick, RunnersOK
<1>10. ASSUME NEW from, LetGo(from) PROVE /\ pc' \in [Runners -> Pcs]
                                          /\ claim' \in [Runners -> Jobs \cup {NoJob}]
                                          /\ fresh' \in BOOLEAN /\ taken' \in Intents
  BY <1>10, GotoTyped, PcsAre DEF LetGo, RunnersOK, Intents
<1>11. CASE JobFinished
  <2>1. /\ pc' \in [Runners -> Pcs] /\ claim' \in [Runners -> Jobs \cup {NoJob}]
        /\ fresh' \in BOOLEAN /\ taken' \in Intents
    BY <1>11, <1>10, GotoTyped, PcsAre DEF JobFinished, RunnersOK, ControllerOK
  <2> QED BY <1>11, <2>1 DEF JobFinished, RunnersOK, ControllerOK
<1>12. CASE ReadForIntent \/ ApplyIntent
  <2>1. /\ pc' \in [Runners -> Pcs] /\ claim' \in [Runners -> Jobs \cup {NoJob}]
        /\ fresh' \in BOOLEAN /\ taken' \in Intents
    BY <1>12, <1>10, GotoTyped, PcsAre DEF ReadForIntent, ApplyIntent, RunnersOK
  <2> QED BY <1>12, <2>1 DEF ReadForIntent, ApplyIntent, RunnersOK, locals
<1>13. CASE DbError
  <2>1. /\ pc' \in [Runners -> Pcs] /\ claim' \in [Runners -> Jobs \cup {NoJob}]
        /\ fresh' \in BOOLEAN /\ taken' \in Intents
    BY <1>13, <1>10, GotoTyped, PcsAre DEF DbError, RunnersOK
  <2> QED BY <1>13, <2>1 DEF DbError, RunnersOK, locals
<1>14. ASSUME NEW p, NEW from, NEW next \in Pcs, Leave(p, from, next)
       PROVE  /\ pc' \in [Runners -> Pcs]
              /\ claim' \in [Runners -> Jobs \cup {NoJob}]
  BY <1>14, GotoTyped, PcsAre DEF Leave, RunnersOK
<1>15. CASE \E p \in Runners : ScanFail(p) \/ LockRefused(p)
  <2>1. pc' \in [Runners -> Pcs] /\ claim' \in [Runners -> Jobs \cup {NoJob}]
    BY <1>15, <1>14, PcsAre DEF ScanFail, LockRefused
  <2> QED BY <1>15, <2>1 DEF ScanFail, LockRefused, RunnersOK, locals
<1>16. CASE \E p \in Runners : TakeLock(p)
  BY <1>16, GotoTyped, PcsAre DEF TakeLock, RunnersOK, locals
<1>17. CASE \E p \in Runners : ReleaseLock(p)
  <2>1. \A o \in Outcomes : AfterRun[o] \in Pcs
    BY PcsAre DEF AfterRun, Outcomes
  <2>2. pc' \in [Runners -> Pcs] /\ claim' \in [Runners -> Jobs \cup {NoJob}]
    BY <1>17, <1>14, <2>1 DEF ReleaseLock
  <2> QED BY <1>17, <2>2 DEF ReleaseLock, RunnersOK, locals
<1>18. CASE \E c \in Clis : \/ \E d \in Dests : CliTransfer(c, d)
                            \/ \E j \in Jobs : CliCreate(c, j) \/ CliResume(c, j)
  BY <1>18, GotoTyped, PcsAre DEF CliTransfer, CliCreate, CliResume, Forgets, RunnersOK, locals
<1>19. CASE \E c \in Clis : CliKill(c)
  BY <1>19, PcsAre DEF CliKill, Forgets, RunnersOK, locals
<1>20. CASE Exit \/ Crash
  BY <1>20, PcsAre DEF Exit, Crash, GoDown, RunnersOK, Intents
<1> QED
  BY <1>2, <1>3, <1>5, <1>6, <1>7, <1>8, <1>9, <1>11, <1>12, <1>13, <1>15, <1>16, <1>17,
     <1>18, <1>19, <1>20
  DEF Next, WorkerStep, Run, Terminal, Handler, Recovery, Runners

LEMMA ControllerStep == ASSUME TypeOK, [Next]_vars PROVE ControllerOK'
<1> USE DEF TypeOK
<1>1. CASE UNCHANGED ctl
  BY <1>1 DEF ControllerOK, ctl
<1>2. CASE JobStarted \/ JobFinished \/ StopService \/ Exit \/ Crash
  BY <1>2 DEF JobStarted, JobFinished, StopService, Exit, Crash, GoDown, ControllerOK,
       RunnersOK, Runners, Intents
<1>3. CASE \E a \in Apis : Request(a)
  <2> PICK a \in Apis : Request(a)
    BY <1>3
  <2>1. api[a].op \in Intents
    BY DEF Request, CallsOK, Intents
  <2>2. /\ intent' \in {intent, api[a].op} /\ stopEvent' \in {stopEvent, TRUE}
        /\ active' = active /\ serviceStop' = serviceStop
    BY DEF Request
  <2> QED BY <2>1, <2>2 DEF ControllerOK
<1>4. CASE vars' = vars
  BY <1>4, <1>1 DEF vars
<1>5. CASE \/ (\E j \in Jobs : Pick(j)) \/ PauseUnprofiled \/ Check \/ Ready \/ Contended
           \/ RecordFailure \/ ProbeNetwork \/ Report \/ Stall \/ StallExit \/ ProbeAnswers
           \/ Unstall \/ ReadForIntent \/ ApplyIntent \/ DbError
  BY <1>5, <1>1 DEF Pick, PauseUnprofiled, Check, Ready, Contended, RecordFailure, ProbeNetwork,
       Report, Stall, StallExit, ProbeAnswers, Unstall, ReadForIntent, ApplyIntent, DbError
<1>6. CASE \E p \in Runners : Run(p)
  BY <1>6, <1>1 DEF Run, ScanStart, ScanBatch, ScanFinish, ScanFail, TakeLock, LockRefused,
       StartRun, EndRun, ReleaseLock
<1>7. CASE \E c \in Clis : \/ \E d \in Dests : CliTransfer(c, d)
                           \/ \E j \in Jobs : CliCreate(c, j) \/ CliResume(c, j)
                           \/ CliKill(c)
  BY <1>7, <1>1 DEF CliTransfer, CliCreate, CliResume, CliKill
<1>8. CASE \/ \E a \in Apis : (\E op \in Ops, j \in Jobs : Call(a, op, j)) \/ Write(a)
           \/ \E j \in Jobs : TimePasses(j) \/ Unarchive(j) \/ RecoverJob(j)
           \/ \E d \in Dests, j \in Jobs : Submit(d, j)
           \/ Start \/ RecoverRead \/ RecoverDone
  BY <1>8, <1>1 DEF Call, Write, TimePasses, Unarchive, RecoverJob, Submit, Start,
       RecoverRead, RecoverDone
<1> QED
  BY <1>2, <1>3, <1>4, <1>5, <1>6, <1>7, <1>8
  DEF Next, WorkerStep, Terminal, Handler, Recovery, Runners

LEMMA ServiceStep == ASSUME TypeOK, [Next]_vars PROVE ServiceOK'
<1> USE DEF TypeOK
<1>1. CASE UNCHANGED boot
  BY <1>1 DEF ServiceOK, boot
<1>2. CASE Start \/ RecoverRead \/ (\E j \in Jobs : RecoverJob(j)) \/ RecoverDone
  BY <1>2 DEF Start, RecoverRead, RecoverJob, RecoverDone, ServiceOK, Swept
<1>3. CASE Exit \/ Crash
  BY <1>3, FlagsAssumption DEF Exit, Crash, GoDown, ServiceOK
<1>4. CASE vars' = vars
  BY <1>4, <1>1 DEF vars
<1>5. CASE WorkerStep \/ ProbeAnswers \/ DbError
  BY <1>5, <1>1 DEF WorkerStep, Run, ScanStart, ScanBatch, ScanFinish, ScanFail, TakeLock,
       LockRefused, StartRun, EndRun, ReleaseLock, Pick, PauseUnprofiled, JobStarted, Check,
       Ready, Contended, RecordFailure, ProbeNetwork, Report, Stall, StallExit, Unstall,
       JobFinished, ReadForIntent, ApplyIntent, ProbeAnswers, DbError
<1>6. CASE \E c \in Clis : Terminal(c)
  BY <1>6, <1>1 DEF Terminal, Run, ScanStart, ScanBatch, ScanFinish, ScanFail, TakeLock,
       LockRefused, StartRun, EndRun, ReleaseLock, CliTransfer, CliCreate, CliResume, CliKill
<1>7. CASE \/ \E a \in Apis : Handler(a)
           \/ \E d \in Dests, j \in Jobs : Submit(d, j)
           \/ \E j \in Jobs : TimePasses(j) \/ Unarchive(j)
           \/ StopService
  BY <1>7, <1>1 DEF Handler, Call, Request, Write, Submit, TimePasses, Unarchive, StopService
<1> QED
  BY <1>2, <1>3, <1>4, <1>5, <1>6, <1>7 DEF Next, Recovery

\* The value of an idle request thread is a well-typed call.
LEMMA NoCallTyped ==
  /\ NoCall \in [at: {"idle", "request", "write"}, op: Ops, job: Jobs \cup {NoJob},
                 busy: BOOLEAN]
  /\ NoCall.at = "idle"
  BY DEF NoCall, Ops

LEMMA CallsStep == ASSUME TypeOK, [Next]_vars PROVE CallsOK'
<1> USE DEF TypeOK
<1>1. CASE UNCHANGED <<api, ack>>
  BY <1>1 DEF CallsOK
<1>2. CASE vars' = vars
  BY <1>2, <1>1 DEF vars
<1>3. CASE ApplyIntent \/ \E p \in Runners : StartRun(p)
  BY <1>3 DEF ApplyIntent, StartRun, CallsOK
<1>4. CASE \E a \in Apis, op \in Ops, j \in Jobs : Call(a, op, j)
  <2> PICK a \in Apis, op \in Ops, j \in Jobs : Call(a, op, j)
    BY <1>4
  <2> QED BY DEF Call, CallsOK, Ops
<1>5. CASE \E a \in Apis : Request(a)
  <2> PICK a \in Apis : Request(a)
    BY <1>5
  <2>1. api'[a] = NoCall \/ (api'[a] = [api[a] EXCEPT !.at = "write"] /\ api[a].at = "request")
    BY DEF Request, CallsOK
  <2>2. /\ api' = [api EXCEPT ![a] = api'[a]]
        /\ \/ ack' = ack
           \/ ack' = [ack EXCEPT ![api[a].job] = "asked"]
    BY DEF Request, CallsOK
  <2>3. /\ api'[a] \in [at: {"idle", "request", "write"}, op: Ops, job: Jobs \cup {NoJob},
                       busy: BOOLEAN]
        /\ api'[a].at # "idle" => api'[a].job \in Jobs
        /\ api'[a].at # "request"
    BY <2>1, NoCallTyped DEF CallsOK
  <2>4. ack' \in [Jobs -> {"none", "asked", "applied", "flipped", "late"}]
    BY <2>2 DEF CallsOK
  <2> HIDE DEF TypeOK
  <2> QED BY <2>2, <2>3, <2>4 DEF CallsOK, TypeOK
<1>6. CASE \E a \in Apis : Write(a)
  <2> PICK a \in Apis : Write(a)
    BY <1>6
  <2>1. api' = [api EXCEPT ![a] = NoCall]
    BY DEF Write
  <2>2. \/ ack' = ack
        \/ \E s \in {"none", "late", "flipped"} : ack' = [ack EXCEPT ![api[a].job] = s]
    BY DEF Write
  <2>3. ack' \in [Jobs -> {"none", "asked", "applied", "flipped", "late"}]
    BY <2>2 DEF CallsOK
  <2> QED BY <2>1, <2>3, NoCallTyped DEF CallsOK
<1>7. CASE Exit \/ Crash
  <2>1. api' = [a \in Apis |-> NoCall]
    BY <1>7 DEF Exit, Crash, GoDown
  <2>2. ack' \in [Jobs -> {"none", "asked", "applied", "flipped", "late"}]
    BY <1>7 DEF Exit, Crash, GoDown, CallsOK
  <2> QED BY <2>1, <2>2, NoCallTyped DEF CallsOK
<1>8. CASE \/ (\E j \in Jobs : Pick(j)) \/ PauseUnprofiled \/ JobStarted \/ Check \/ Ready
           \/ Contended \/ RecordFailure \/ ProbeNetwork \/ Report \/ Stall \/ StallExit
           \/ ProbeAnswers \/ Unstall \/ JobFinished \/ ReadForIntent \/ DbError
  BY <1>8, <1>1 DEF Pick, PauseUnprofiled, JobStarted, Check, Ready, Contended, RecordFailure,
       ProbeNetwork, Report, Stall, StallExit, ProbeAnswers, Unstall, JobFinished,
       ReadForIntent, DbError
<1>9. CASE \E p \in Runners : \/ ScanStart(p) \/ ScanBatch(p) \/ ScanFinish(p) \/ ScanFail(p)
                              \/ TakeLock(p) \/ LockRefused(p) \/ ReleaseLock(p)
                              \/ \E o \in Outcomes : EndRun(p, o)
  BY <1>9, <1>1 DEF ScanStart, ScanBatch, ScanFinish, ScanFail, TakeLock, LockRefused, EndRun,
       ReleaseLock
<1>10. CASE \E c \in Clis : \/ \E d \in Dests : CliTransfer(c, d)
                            \/ \E j \in Jobs : CliCreate(c, j) \/ CliResume(c, j)
                            \/ CliKill(c)
  BY <1>10, <1>1 DEF CliTransfer, CliCreate, CliResume, CliKill
<1>11. CASE \/ \E j \in Jobs : TimePasses(j) \/ Unarchive(j) \/ RecoverJob(j)
            \/ \E d \in Dests, j \in Jobs : Submit(d, j)
            \/ Start \/ RecoverRead \/ RecoverDone \/ StopService
  BY <1>11, <1>1 DEF TimePasses, Unarchive, RecoverJob, Submit, Start, RecoverRead,
       RecoverDone, StopService
<1> QED
  BY <1>2, <1>3, <1>4, <1>5, <1>6, <1>7, <1>8, <1>9, <1>10, <1>11
  DEF Next, WorkerStep, Run, Terminal, Handler, Recovery, Runners

LEMMA InitTyped == Init => TypeOK
<1> SUFFICES ASSUME Init PROVE TypeOK
  OBVIOUS
<1>1. RowsOK /\ RunnersOK /\ ControllerOK
  BY PcsAre DEF Init, RowsOK, RunnersOK, ControllerOK, Intents
<1>2. ServiceOK /\ CallsOK
  BY FlagsAssumption, NoCallTyped DEF Init, ServiceOK, CallsOK
<1> QED BY <1>1, <1>2 DEF TypeOK

\* Every variable keeps its type: in particular every status written to a row
\* is a JobStatus, and every claim, active id and call names a job.
THEOREM TypeCorrect == Spec => []TypeOK
<1>1. TypeOK /\ [Next]_vars => TypeOK'
  BY RowsStep, RunnersStep, ControllerStep, ServiceStep, CallsStep DEF TypeOK
<1> QED BY InitTyped, <1>1, PTL DEF Spec

---------------------------------------------------------------------------
(* Mutual exclusion of runs: a runner is inside job_run_lock exactly when   *)
(* it holds the lock of the job it has in hand.                             *)

Unclaimed == {"idle", "create"}
LockInv ==
  /\ \A p \in Runners : pc[p] \notin Unclaimed => claim[p] \in Jobs
  /\ \A p \in Runners : pc[p] \in Locked => lock[claim[p]] = p
  /\ \A j \in Jobs : lock[j] # NoOne => pc[lock[j]] \in Locked /\ claim[lock[j]] = j
LockIInv == TypeOK /\ LockInv

\* A runner that is and stays outside the lock may change its claim.
LEMMA OutsideStep ==
  ASSUME LockIInv, NEW p \in Runners, NEW to \in Pcs \ Locked, NEW c,
         pc[p] \notin Locked, pc' = [pc EXCEPT ![p] = to], claim' = [claim EXCEPT ![p] = c],
         c \in Jobs \/ to \in Unclaimed, lock' = lock
  PROVE  LockInv'
  BY RunnersAssumption DEF LockIInv, LockInv, TypeOK, RunnersOK, RowsOK

\* A runner that is and stays inside the lock keeps its claim.
LEMMA InsideStep ==
  ASSUME LockIInv, NEW p \in Runners, NEW to \in Locked, pc[p] \in Locked,
         pc' = [pc EXCEPT ![p] = to], UNCHANGED <<claim, lock>>
  PROVE  LockInv'
  BY DEF LockIInv, LockInv, TypeOK, RunnersOK, RowsOK, Unclaimed, Locked, Outcomes

LEMMA LockedAre ==
  Locked = {"start", "running", "complete", "incomplete", "paused", "stopped", "raised"}
  BY DEF Locked, Outcomes

\* A runner's own step outside the lock that keeps its claim.
LEMMA MoveStep ==
  ASSUME LockIInv, NEW p \in Runners, NEW from \in Pcs \ (Locked \cup Unclaimed),
         NEW to \in Pcs \ Locked, Goto(p, from, to), UNCHANGED <<claim, lock>>
  PROVE  LockInv'
<1>1. claim' = [claim EXCEPT ![p] = claim[p]] /\ claim[p] \in Jobs
  BY DEF LockIInv, LockInv, TypeOK, RunnersOK, Goto
<1> QED BY <1>1, OutsideStep DEF Goto

LEMMA LetGoStep ==
  ASSUME LockIInv, NEW from \in Pcs \ Locked, LetGo(from), lock' = lock
  PROVE  LockInv'
  BY OutsideStep, PcsAre, LockedAre DEF LetGo, Goto, Runners, Unclaimed

\* The end of a command or of a worker's step outside the lock.
LEMMA LeaveStep ==
  ASSUME LockIInv, NEW p \in Runners, NEW from \in Pcs \ (Locked \cup Unclaimed),
         NEW next \in Pcs \ Locked, Leave(p, from, next), lock' = lock
  PROVE  LockInv'
<1>1. CASE p = Worker
  BY <1>1, MoveStep DEF Leave
<1>2. CASE p # Worker
  BY <1>2, OutsideStep, PcsAre, LockedAre DEF Leave, Goto, Unclaimed
<1> QED BY <1>1, <1>2

LEMMA LockStep == ASSUME LockIInv, [Next]_vars PROVE LockInv'
<1> USE PcsAre, LockedAre
<1>1. CASE UNCHANGED <<pc, claim, lock>>
  BY <1>1 DEF LockIInv, LockInv
<1>2. CASE vars' = vars
  BY <1>2, <1>1 DEF vars
<1>3. CASE \/ \E a \in Apis : (\E op \in Ops, j \in Jobs : Call(a, op, j)) \/ Request(a) \/ Write(a)
           \/ \E j \in Jobs : TimePasses(j) \/ Unarchive(j) \/ RecoverJob(j)
           \/ \E d \in Dests, j \in Jobs : Submit(d, j)
           \/ Start \/ RecoverRead \/ RecoverDone \/ StopService
           \/ \E p \in Runners : ScanBatch(p)
  BY <1>3, <1>1 DEF Call, Request, Write, TimePasses, Unarchive, RecoverJob, Submit, Start,
       RecoverRead, RecoverDone, StopService, ScanBatch
<1>4. CASE PauseUnprofiled \/ JobStarted \/ Contended \/ RecordFailure \/ Report \/ Stall
           \/ StallExit \/ ProbeAnswers \/ Unstall
  BY <1>4, MoveStep DEF PauseUnprofiled, JobStarted, Contended, RecordFailure, Report,
       Stall, StallExit, ProbeAnswers, Unstall, Runners, Unclaimed
<1>5. CASE Check \/ Ready \/ ProbeNetwork
  BY <1>5, MoveStep DEF Check, Ready, ProbeNetwork, Runners, Unclaimed
<1>6. CASE \E p \in Runners : ScanStart(p) \/ ScanFinish(p)
  BY <1>6, MoveStep DEF ScanStart, ScanFinish, Unclaimed
<1>7. CASE \E j \in Jobs : Pick(j)
  BY <1>7, OutsideStep DEF Pick, Goto, Runners
<1>8. CASE JobFinished
  <2>1. CASE LetGo("finish")
    BY <1>8, <2>1, LetGoStep DEF JobFinished
  <2>2. CASE Goto(Worker, "finish", "apply") /\ UNCHANGED claim
    BY <1>8, <2>2, MoveStep DEF JobFinished, Runners, Unclaimed
  <2> QED BY <1>8, <2>1, <2>2 DEF JobFinished
<1>9. CASE ReadForIntent \/ ApplyIntent
  <2>1. CASE LetGo("apply") \/ LetGo("applying")
    BY <1>9, <2>1, LetGoStep DEF ReadForIntent, ApplyIntent
  <2>2. CASE Goto(Worker, "apply", "applying") /\ UNCHANGED claim
    BY <1>9, <2>2, MoveStep DEF ReadForIntent, ApplyIntent, Runners, Unclaimed
  <2> QED BY <1>9, <2>1, <2>2 DEF ReadForIntent, ApplyIntent
<1>10. CASE DbError
  <2>1. lock' = lock
    BY <1>10 DEF DbError
  <2>2. CASE \E from \in {"no profile", "apply", "applying"} : LetGo(from)
    BY <2>1, <2>2, LetGoStep
  <2>3. CASE \/ \E from \in {"check", "contended", "fail", "probe", "stall", "stalled", "unstall"} :
                  Goto(Worker, from, "finish") /\ UNCHANGED claim
             \/ Goto(Worker, "scan", "fail") /\ UNCHANGED claim
    BY <2>1, <2>3, MoveStep DEF Runners, Unclaimed
  <2>4. CASE Goto(Worker, "start", "raised") /\ UNCHANGED claim
    BY <2>1, <2>4, InsideStep DEF Goto, Runners
  <2> QED BY <1>10, <2>2, <2>3, <2>4 DEF DbError
<1>11. CASE \E p \in Runners : ScanFail(p) \/ LockRefused(p)
  BY <1>11, LeaveStep DEF ScanFail, LockRefused, Unclaimed
<1>12. CASE \E p \in Runners : TakeLock(p)
  <2> PICK p \in Runners : TakeLock(p)
    BY <1>12
  <2>1. claim[p] \in Jobs /\ lock[claim[p]] = NoOne /\ p # NoOne
    BY RunnersAssumption DEF TakeLock, LockFree, Goto, LockIInv, LockInv, Unclaimed, Runners
  <2>2. \A q \in Runners : pc'[q] = (IF q = p THEN "start" ELSE pc[q]) /\ claim'[q] = claim[q]
    BY DEF TakeLock, Goto, LockIInv, TypeOK, RunnersOK
  <2>3. \A j \in Jobs : lock'[j] = IF j = claim[p] THEN p ELSE lock[j]
    BY DEF TakeLock, LockIInv, TypeOK, RunnersOK
  <2>4. \A q \in Runners : pc'[q] \notin Unclaimed => claim'[q] \in Jobs
    BY <2>1, <2>2 DEF LockIInv, LockInv
  <2>5. \A q \in Runners : pc'[q] \in Locked => lock'[claim'[q]] = q
    <3> SUFFICES ASSUME NEW q \in Runners, pc'[q] \in Locked PROVE lock'[claim'[q]] = q
      OBVIOUS
    <3>1. CASE q = p
      BY <3>1, <2>1, <2>2, <2>3
    <3>2. CASE q # p
      <4>1. pc[q] \in Locked /\ claim'[q] = claim[q]
        BY <3>2, <2>2
      <4>2. claim[q] \in Jobs /\ lock[claim[q]] = q /\ q # NoOne
        BY <4>1, RunnersAssumption DEF LockIInv, LockInv, Unclaimed, Runners
      <4> QED BY <4>1, <4>2, <2>1, <2>3
    <3> QED BY <3>1, <3>2
  <2>6. \A j \in Jobs : lock'[j] # NoOne => pc'[lock'[j]] \in Locked /\ claim'[lock'[j]] = j
    <3> SUFFICES ASSUME NEW j \in Jobs, lock'[j] # NoOne
                 PROVE  pc'[lock'[j]] \in Locked /\ claim'[lock'[j]] = j
      OBVIOUS
    <3>1. CASE j = claim[p]
      BY <3>1, <2>2, <2>3
    <3>2. CASE j # claim[p]
      <4>1. lock'[j] = lock[j] /\ lock[j] \in Runners
        BY <3>2, <2>3 DEF LockIInv, TypeOK, RunnersOK
      <4>2. pc[lock[j]] \in Locked /\ claim[lock[j]] = j
        BY <4>1 DEF LockIInv, LockInv
      <4> QED BY <3>2, <4>1, <4>2, <2>2
    <3> QED BY <3>1, <3>2
  <2> QED BY <2>4, <2>5, <2>6 DEF LockInv
<1>13. CASE \E p \in Runners : StartRun(p) \/ \E o \in Outcomes : EndRun(p, o)
  BY <1>13, InsideStep DEF StartRun, EndRun, Goto, Outcomes
<1>14. CASE \E p \in Runners : ReleaseLock(p)
  <2> PICK p \in Runners, o \in Outcomes :
        /\ Leave(p, o, AfterRun[o])
        /\ lock' = [lock EXCEPT ![claim[p]] = NoOne]
    BY <1>14 DEF ReleaseLock
  <2>1. AfterRun[o] \in Pcs \ Locked /\ o \in Locked /\ o \notin Unclaimed
    BY DEF AfterRun, Outcomes, Unclaimed
  <2>2. /\ pc[p] = o /\ claim[p] \in Jobs /\ lock[claim[p]] = p
        /\ pc' = [pc EXCEPT ![p] = IF p = Worker THEN AfterRun[o] ELSE "idle"]
    BY <2>1 DEF Leave, Goto, LockIInv, LockInv, TypeOK, RunnersOK
  <2>3. \/ p = Worker /\ claim' = claim
        \/ p # Worker /\ claim' = [claim EXCEPT ![p] = NoJob]
    BY DEF Leave
  <2>4. \A q \in Runners \ {p} : pc'[q] = pc[q] /\ claim'[q] = claim[q]
    BY <2>2, <2>3 DEF LockIInv, TypeOK, RunnersOK
  <2>5. /\ pc'[p] \notin Locked
        /\ pc'[p] \notin Unclaimed => claim'[p] \in Jobs
    BY <2>1, <2>2, <2>3 DEF LockIInv, TypeOK, RunnersOK, Unclaimed
  <2>6. \A q \in Runners \ {p} : pc[q] \in Locked => claim[q] # claim[p]
    BY <2>2 DEF LockIInv, LockInv
  <2>7. \A j \in Jobs : lock'[j] = IF j = claim[p] THEN NoOne ELSE lock[j]
    BY DEF LockIInv, TypeOK, RunnersOK
  <2>8. \A j \in Jobs : lock'[j] # NoOne =>
                            /\ lock'[j] = lock[j] /\ lock[j] \in Runners \ {p}
                            /\ pc[lock[j]] \in Locked /\ claim[lock[j]] = j
    <3> SUFFICES ASSUME NEW j \in Jobs, lock'[j] # NoOne
                 PROVE  /\ lock'[j] = lock[j] /\ lock[j] \in Runners \ {p}
                        /\ pc[lock[j]] \in Locked /\ claim[lock[j]] = j
      OBVIOUS
    <3>1. j # claim[p] /\ lock'[j] = lock[j]
      BY <2>7
    <3>2. lock[j] # NoOne
      BY <3>1
    <3>3. lock[j] \in Runners
      BY <3>2 DEF LockIInv, TypeOK, RunnersOK
    <3>4. pc[lock[j]] \in Locked /\ claim[lock[j]] = j
      BY <3>2 DEF LockIInv, LockInv
    <3> QED BY <3>1, <3>3, <3>4
  <2>9. \A q \in Runners : pc'[q] \notin Unclaimed => claim'[q] \in Jobs
    BY <2>4, <2>5 DEF LockIInv, LockInv
  <2>10. \A q \in Runners : pc'[q] \in Locked => lock'[claim'[q]] = q
    <3> SUFFICES ASSUME NEW q \in Runners, pc'[q] \in Locked PROVE lock'[claim'[q]] = q
      OBVIOUS
    <3>1. q # p /\ pc[q] \in Locked /\ claim'[q] = claim[q] /\ claim[q] # claim[p]
      BY <2>4, <2>5, <2>6
    <3>2. claim[q] \in Jobs /\ lock[claim[q]] = q
      BY <3>1 DEF LockIInv, LockInv, Unclaimed
    <3> QED BY <3>1, <3>2, <2>7
  <2> QED
    <3>1. \A j \in Jobs : lock'[j] # NoOne => pc'[lock'[j]] \in Locked /\ claim'[lock'[j]] = j
      <4> SUFFICES ASSUME NEW j \in Jobs, lock'[j] # NoOne
                   PROVE  pc'[lock'[j]] \in Locked /\ claim'[lock'[j]] = j
        OBVIOUS
      <4>1. /\ lock[j] \in Runners \ {p} /\ lock'[j] = lock[j]
            /\ pc[lock[j]] \in Locked /\ claim[lock[j]] = j
        BY <2>8
      <4>2. pc'[lock[j]] = pc[lock[j]] /\ claim'[lock[j]] = claim[lock[j]]
        BY <4>1, <2>4
      <4> QED BY <4>1, <4>2
    <3> QED BY <2>9, <2>10, <3>1 DEF LockInv
<1>15. CASE \E c \in Clis, d \in Dests : CliTransfer(c, d)
  <2> PICK c \in Clis, d \in Dests : CliTransfer(c, d)
    BY <1>15
  <2>1. claim' = [claim EXCEPT ![c] = claim[c]]
    BY DEF CliTransfer, LockIInv, TypeOK, RunnersOK
  <2> QED BY <2>1, OutsideStep DEF CliTransfer, Goto, Runners, Unclaimed
<1>16. CASE \E c \in Clis, j \in Jobs : CliCreate(c, j) \/ CliResume(c, j)
  BY <1>16, OutsideStep DEF CliCreate, CliResume, Goto, Runners
<1>17. ASSUME NEW p \in Runners, pc' = [pc EXCEPT ![p] = "idle"],
              claim' = [claim EXCEPT ![p] = NoJob],
              lock' = [j \in Jobs |-> IF lock[j] = p THEN NoOne ELSE lock[j]]
       PROVE  LockInv'
  <2>1. \A q \in Runners : pc'[q] = (IF q = p THEN "idle" ELSE pc[q])
    BY <1>17 DEF LockIInv, TypeOK, RunnersOK
  <2>2. \A q \in Runners : claim'[q] = (IF q = p THEN NoJob ELSE claim[q])
    BY <1>17 DEF LockIInv, TypeOK, RunnersOK
  <2>3. \A j \in Jobs : lock'[j] # NoOne => lock'[j] = lock[j] /\ lock[j] \in Runners \ {p}
    BY <1>17 DEF LockIInv, TypeOK, RunnersOK
  <2>4. \A q \in Runners : pc'[q] \in Locked => lock'[claim'[q]] = q
    <3> SUFFICES ASSUME NEW q \in Runners, pc'[q] \in Locked PROVE lock'[claim'[q]] = q
      OBVIOUS
    <3>1. q # p /\ pc[q] \in Locked /\ claim'[q] = claim[q]
      BY <2>1, <2>2
    <3>2. claim[q] \in Jobs /\ lock[claim[q]] = q
      BY <3>1 DEF LockIInv, LockInv, Unclaimed
    <3> QED BY <1>17, <3>1, <3>2
  <2>5. \A q \in Runners : pc'[q] \notin Unclaimed => claim'[q] \in Jobs
    BY <2>1, <2>2 DEF LockIInv, LockInv, Unclaimed
  <2>6. \A j \in Jobs : lock'[j] # NoOne => pc'[lock'[j]] \in Locked /\ claim'[lock'[j]] = j
    <3> SUFFICES ASSUME NEW j \in Jobs, lock'[j] # NoOne
                 PROVE  pc'[lock'[j]] \in Locked /\ claim'[lock'[j]] = j
      OBVIOUS
    <3>1. lock'[j] = lock[j] /\ lock[j] \in Runners \ {p}
      BY <2>3
    <3>2. pc[lock[j]] \in Locked /\ claim[lock[j]] = j
      BY <3>1 DEF LockIInv, LockInv
    <3> QED BY <2>1, <2>2, <3>1, <3>2
  <2> QED BY <2>4, <2>5, <2>6 DEF LockInv
<1>18. CASE (\E c \in Clis : CliKill(c)) \/ Exit \/ Crash
  BY <1>18, <1>17 DEF CliKill, Exit, Crash, GoDown, Runners
<1> QED
  BY <1>2, <1>3, <1>4, <1>5, <1>6, <1>7, <1>8, <1>9, <1>10, <1>11, <1>12, <1>13, <1>14,
     <1>15, <1>16, <1>18
  DEF Next, WorkerStep, Run, Terminal, Handler, Recovery, Runners

\* No two processes are ever inside run_job for one job, however many terminals
\* run beside the service and whenever they, or it, die.
THEOREM RunsExclude == Spec => []OneRunPerJob
<1>1. Init => LockIInv
  <2>1. Init => TypeOK
    BY InitTyped
  <2> QED BY <2>1, LockedAre DEF Init, LockIInv, LockInv, Unclaimed
<1>2. LockIInv /\ [Next]_vars => LockIInv'
  BY LockStep, RowsStep, RunnersStep, ControllerStep, ServiceStep, CallsStep
  DEF LockIInv, TypeOK
<1>3. LockIInv => OneRunPerJob
  BY LockedAre DEF LockIInv, LockInv, OneRunPerJob, Unclaimed
<1> QED BY <1>1, <1>2, <1>3, PTL DEF Spec

---------------------------------------------------------------------------
(* The rescan rule. What the worker knows of a job it did not scan itself is *)
(* only that the job was started once, and a job is started only over a      *)
(* whole manifest.                                                           *)

PastScan == {"ready", "lock"} \cup Locked
ManifestInv ==
  /\ \A j \in Jobs : started[j] \/ status[j] = "complete" => manifest[j] = "full"
  /\ pc[Worker] # "idle" => claim[Worker] \in Jobs /\ (fresh \/ started[claim[Worker]])
  /\ pc[Worker] \in PastScan => manifest[claim[Worker]] = "full"
ManifestIInv == TypeOK /\ ManifestInv

LEMMA PastScanAre ==
  PastScan = {"ready", "lock", "start", "running",
              "complete", "incomplete", "paused", "stopped", "raised"}
  BY LockedAre DEF PastScan

\* Steps after which a row may be complete only if it was, and which leave the
\* worker where its knowledge of the manifest is the same or not needed.
LEMMA NoScanStep ==
  ASSUME ManifestIInv, UNCHANGED <<started, manifest>>,
         \A j \in Jobs : status'[j] = "complete" => status[j] = "complete",
         \/ pc'[Worker] = "idle"
         \/ /\ pc[Worker] # "idle" /\ claim'[Worker] = claim[Worker] /\ UNCHANGED fresh
            /\ pc'[Worker] \in PastScan => pc[Worker] \in PastScan
  PROVE  ManifestInv'
  BY PastScanAre DEF ManifestIInv, ManifestInv

\* A write of a status other than complete.
LEMMA WriteStep ==
  ASSUME TypeOK, NEW j, NEW s, s # "complete", SetStatus(j, s)
  PROVE  \A k \in Jobs : status'[k] = "complete" => status[k] = "complete"
  BY DEF TypeOK, RowsOK, SetStatus

LEMMA ManifestStep == ASSUME Clis = {}, ManifestIInv, [Next]_vars PROVE ManifestInv'
<1> USE PastScanAre
<1>1. CASE UNCHANGED <<rows, pc, claim, fresh>>
  BY <1>1 DEF rows, ManifestIInv, ManifestInv
<1>2. CASE vars' = vars
  BY <1>2, <1>1 DEF vars, locals
<1>3. CASE \/ \E a \in Apis : (\E op \in Ops, j \in Jobs : Call(a, op, j)) \/ Request(a)
           \/ Start \/ RecoverRead \/ RecoverDone \/ StopService
  BY <1>3, <1>1 DEF Call, Request, Start, RecoverRead, RecoverDone, StopService, locals
<1>4. CASE \/ \E a \in Apis : Write(a)
           \/ \E j \in Jobs : TimePasses(j) \/ Unarchive(j) \/ RecoverJob(j)
           \/ \E d \in Dests, j \in Jobs : Submit(d, j)
  <2>1. UNCHANGED <<started, manifest, fresh, pc, claim>>
    BY <1>4 DEF Write, TimePasses, Unarchive, RecoverJob, Submit, CreateJob, OnlyStatus, locals
  <2>2. \A j \in Jobs : status'[j] = "complete" => status[j] = "complete"
    BY <1>4, WriteStep DEF Write, TimePasses, Unarchive, RecoverJob, Submit, CreateJob,
         StopStatus, ManifestIInv
  <2> QED BY <2>1, <2>2 DEF ManifestIInv, ManifestInv
<1>5. CASE \/ \E j \in Jobs : Pick(j)
           \/ \E p \in Runners : ScanBatch(p) \/ ScanFinish(p) \/ StartRun(p)
           \/ \E p \in Runners, o \in Outcomes : EndRun(p, o)
  <2>1. Runners = {Worker}
    BY DEF Runners
  <2>2. CASE \E j \in Jobs : Pick(j)
    BY <2>2 DEF Pick, Goto, rows, ManifestIInv, ManifestInv, TypeOK, RunnersOK, Runners
  <2>3. CASE ScanBatch(Worker)
    BY <2>3 DEF ScanBatch, locals, ManifestIInv, ManifestInv, TypeOK, RowsOK
  <2>4. CASE ScanFinish(Worker)
    BY <2>4, <2>1 DEF ScanFinish, Goto, SetStatus, locals, ManifestIInv, ManifestInv, TypeOK,
         RowsOK, RunnersOK
  <2>5. CASE StartRun(Worker)
    BY <2>5, <2>1 DEF StartRun, Goto, SetStatus, locals, ManifestIInv, ManifestInv, TypeOK,
         RowsOK, RunnersOK
  <2>6. CASE \E o \in Outcomes : EndRun(Worker, o)
    <3>1. PICK o \in Outcomes : EndRun(Worker, o)
      BY <2>6
    <3>2. /\ pc[Worker] = "running" /\ pc'[Worker] \in Outcomes
          /\ claim[Worker] \in Jobs /\ manifest[claim[Worker]] = "full"
      BY <3>1, <2>1 DEF EndRun, Goto, ManifestIInv, ManifestInv, TypeOK, RunnersOK
    <3>3. UNCHANGED <<started, manifest, fresh, claim>>
      BY <3>1 DEF EndRun, OnlyStatus, locals
    <3>4. \A j \in Jobs : j # claim[Worker] => status'[j] = status[j]
      BY <3>1 DEF EndRun, SetStatus, ManifestIInv, TypeOK, RowsOK, Outcomes
    <3> QED BY <3>2, <3>3, <3>4 DEF ManifestIInv, ManifestInv, Outcomes
  <2> QED BY <1>5, <2>1, <2>2, <2>3, <2>4, <2>5, <2>6
<1>6. CASE Check
  <2>1. UNCHANGED <<status, started, manifest, fresh, claim>>
    BY <1>6 DEF Check, rows, locals
  <2>2. pc[Worker] = "check" /\ pc'[Worker] \in {"finish", "scan", "ready", "fail"}
    BY <1>6 DEF Check, Goto, Runners, ManifestIInv, TypeOK, RunnersOK
  <2>3. pc'[Worker] = "ready" => ~fresh
    BY <1>6 DEF Check, Goto, Runners, RescanNeeded, ManifestIInv, TypeOK, RunnersOK
  <2> QED BY <2>1, <2>2, <2>3 DEF ManifestIInv, ManifestInv
<1>7. CASE \/ JobStarted \/ Ready \/ ProbeNetwork \/ Report \/ StallExit \/ ProbeAnswers
           \/ JobFinished \/ ReadForIntent \/ DbError
  <2>1. UNCHANGED <<status, started, manifest>>
    BY <1>7 DEF JobStarted, Ready, ProbeNetwork, Report, StallExit, ProbeAnswers,
         JobFinished, ReadForIntent, DbError, rows, locals
  <2>2. \/ pc'[Worker] = "idle"
        \/ /\ pc[Worker] # "idle" /\ claim'[Worker] = claim[Worker] /\ UNCHANGED fresh
           /\ pc'[Worker] \in PastScan => pc[Worker] \in PastScan
    BY <1>7 DEF JobStarted, Ready, ProbeNetwork, Report, StallExit, ProbeAnswers,
         JobFinished, ReadForIntent, DbError, LetGo, Goto, Runners, ManifestIInv, TypeOK,
         RunnersOK, locals
  <2> QED BY <2>1, <2>2, NoScanStep
<1>8. CASE \E p \in Runners : ScanFail(p) \/ TakeLock(p) \/ LockRefused(p) \/ ReleaseLock(p)
  <2>1. UNCHANGED <<status, started, manifest, fresh>>
    BY <1>8 DEF ScanFail, TakeLock, LockRefused, ReleaseLock, rows, locals
  <2>2. /\ pc[Worker] # "idle" /\ claim'[Worker] = claim[Worker]
        /\ pc'[Worker] \in PastScan => pc[Worker] \in PastScan
    BY <1>8 DEF ScanFail, TakeLock, LockRefused, ReleaseLock, Leave, Goto, Runners, AfterRun,
         Outcomes, ManifestIInv, TypeOK, RunnersOK
  <2> QED BY <2>1, <2>2, NoScanStep
<1>9. CASE \/ PauseUnprofiled \/ Contended \/ RecordFailure \/ Stall \/ Unstall \/ ApplyIntent
           \/ \E p \in Runners : ScanStart(p)
  <2>1. UNCHANGED <<started, manifest>>
    BY <1>9 DEF PauseUnprofiled, Contended, RecordFailure, Stall, Unstall, ApplyIntent,
         ScanStart, OnlyStatus, locals
  <2>2. \A j \in Jobs : status'[j] = "complete" => status[j] = "complete"
    BY <1>9, WriteStep DEF PauseUnprofiled, Contended, RecordFailure, Stall, Unstall,
         ApplyIntent, ScanStart, StopStatus, ManifestIInv
  <2>3. \/ pc'[Worker] = "idle"
        \/ /\ pc[Worker] # "idle" /\ claim'[Worker] = claim[Worker] /\ UNCHANGED fresh
           /\ pc'[Worker] \in PastScan => pc[Worker] \in PastScan
    BY <1>9 DEF PauseUnprofiled, Contended, RecordFailure, Stall, Unstall, ApplyIntent,
         ScanStart, LetGo, Goto, Runners, ManifestIInv, TypeOK, RunnersOK, locals
  <2> QED BY <2>1, <2>2, <2>3, NoScanStep
<1>10. CASE Exit \/ Crash
  BY <1>10 DEF Exit, Crash, GoDown, rows, Runners, ManifestIInv, ManifestInv, TypeOK, RunnersOK
<1>11. ~ \E c \in Clis : Terminal(c)
  OBVIOUS
<1> QED
  BY <1>2, <1>3, <1>4, <1>5, <1>6, <1>7, <1>8, <1>9, <1>10, <1>11
  DEF Next, WorkerStep, Run, Handler, Recovery, Runners

\* Without terminals the service never reports COMPLETE over a manifest its scan
\* left partial, for any number of jobs, request threads and crashes. (With a
\* terminal it can: the run QueuePartialManifest.)
THEOREM WholeManifest == ASSUME Clis = {} PROVE Spec => []CompleteMeansWholeManifest
<1>1. Init => ManifestIInv
  <2>1. Init => ManifestInv
    BY PastScanAre DEF Init, ManifestInv, Runners
  <2> QED BY <2>1, InitTyped DEF ManifestIInv
<1>2. ManifestIInv /\ [Next]_vars => ManifestIInv'
  BY ManifestStep, RowsStep, RunnersStep, ControllerStep, ServiceStep, CallsStep
  DEF ManifestIInv, TypeOK
<1>3. ManifestIInv => CompleteMeansWholeManifest
  BY DEF ManifestIInv, ManifestInv, CompleteMeansWholeManifest
<1> QED BY <1>1, <1>2, <1>3, PTL DEF Spec

---------------------------------------------------------------------------
(* No row is left marked busy. While the service is up such a row is in the *)
(* worker's hand, at a place the mark fits; while it recovers, the row is    *)
(* among those it has read or has still to read.                             *)

Busy == {"running", "scanning", "stalled"}

\* The places at which the worker has a row in hand that is marked so.
Held(j) ==
  /\ claim[Worker] = j
  /\ \/ status[j] = "running" /\ pc[Worker] \in {"running", "raised", "fail"}
     \/ status[j] = "scanning" /\ pc[Worker] \in {"scanning", "fail"}
     \/ status[j] = "stalled" /\ pc[Worker] \in {"stalled", "unstall", "apply", "applying"}
     \/ status[j] = "stalled" /\ pc[Worker] = "finish" /\ intent # "none"
LeftByStop(j) == status[j] = "stalled" /\ serviceStop

\* Recovery has still to read the rows of these statuses.
Ahead(s) ==
  \/ left = 1 /\ s \in Busy
  \/ left = 2 /\ s \in {"stalled", "scanning"}
  \/ left = 3 /\ s = "scanning"

\* From job_started to job_finished the stop event is set only along with an intent.
Apart == {"idle", "no profile", "picked", "apply", "applying"}
StopHasIntent == stopEvent /\ pc[Worker] \notin Apart => intent # "none"

OwnerInv ==
  /\ svc # "up" => pc[Worker] = "idle"
  /\ StopHasIntent
  /\ \A j \in Jobs : status[j] \in Busy =>
       \/ svc = "down"
       \/ svc = "recovering" /\ (j \in todo \/ Ahead(status[j]))
       \/ svc = "up" /\ (LeftByStop(j) \/ Held(j))
OwnerIInv == TypeOK /\ OwnerInv

\* A step the worker takes with a job in hand.
LEMMA InHandStep ==
  ASSUME OwnerIInv, pc[Worker] # "idle", UNCHANGED <<svc, left, todo, serviceStop>>,
         \A j \in Jobs : j # claim[Worker] => status'[j] = status[j],
         StopHasIntent',
         \A j \in Jobs : j = claim[Worker] /\ status'[j] \in Busy => LeftByStop(j)' \/ Held(j)'
  PROVE  OwnerInv'
<1>1. svc = "up"
  BY DEF OwnerIInv, OwnerInv
<1>2. ASSUME NEW j \in Jobs, status'[j] \in Busy PROVE LeftByStop(j)' \/ Held(j)'
  <2>1. CASE j = claim[Worker]
    BY <1>2, <2>1
  <2>2. CASE j # claim[Worker]
    <3>1. LeftByStop(j)
      BY <1>1, <1>2, <2>2 DEF OwnerIInv, OwnerInv, Held
    <3> QED BY <2>2, <3>1 DEF LeftByStop
  <2> QED BY <2>1, <2>2
<1> QED BY <1>1, <1>2 DEF OwnerInv

\* A write of one status that is not a busy one, by whoever, leaves no new row busy.
LEMMA IdleWrite ==
  ASSUME OwnerIInv, NEW j, NEW s, s \notin Busy, SetStatus(j, s),
         UNCHANGED <<svc, left, serviceStop, stopEvent, intent, pc, claim>>,
         todo' = todo \/ todo' = todo \ {j}
  PROVE  OwnerInv'
<1>1. \A k \in Jobs : /\ status'[k] \in Busy => k # j /\ status'[k] = status[k]
                      /\ k # j /\ k \in todo => k \in todo'
  BY DEF SetStatus, OwnerIInv, TypeOK, RowsOK
<1>2. StopHasIntent' /\ (svc' # "up" => pc'[Worker] = "idle")
  BY DEF OwnerIInv, OwnerInv, StopHasIntent
<1>3. ASSUME NEW k \in Jobs, status'[k] \in Busy
      PROVE  \/ svc' = "down"
             \/ svc' = "recovering" /\ (k \in todo' \/ Ahead(status[k])')
             \/ svc' = "up" /\ (LeftByStop(k)' \/ Held(k)')
  BY <1>1, <1>3 DEF OwnerIInv, OwnerInv, LeftByStop, Held, Ahead
<1> QED BY <1>2, <1>3 DEF OwnerInv

\* A step of the worker that writes no row: what it holds it goes on holding.
LEMMA WalkStep ==
  ASSUME OwnerIInv, NEW from, NEW to, Goto(Worker, from, to), from \notin Apart, to \notin Apart,
         UNCHANGED <<status, claim, svc, left, todo, serviceStop, stopEvent, intent>>,
         \A j \in Jobs : Held(j) => LeftByStop(j)' \/ Held(j)'
  PROVE  OwnerInv'
<1>1. pc[Worker] = from /\ pc'[Worker] = to
  BY DEF Goto, Runners, OwnerIInv, TypeOK, RunnersOK
<1>2. pc[Worker] # "idle" /\ StopHasIntent'
  BY <1>1 DEF Apart, StopHasIntent, OwnerIInv, OwnerInv
<1>3. \A j \in Jobs : status[j] \in Busy => LeftByStop(j)' \/ Held(j)'
  BY <1>2 DEF OwnerIInv, OwnerInv, LeftByStop
<1> QED BY <1>2, <1>3, InHandStep

\* A step of the worker that writes the row it has in hand.
LEMMA MarkStep ==
  ASSUME OwnerIInv, NEW from, NEW to, Goto(Worker, from, to),
         from \notin {"idle", "picked", "apply", "applying"}, to \notin Apart \ {"picked"},
         from = "no profile" <=> to = "picked",
         NEW s, SetStatus(claim[Worker], s),
         UNCHANGED <<claim, svc, left, todo, serviceStop, stopEvent, intent>>,
         \/ s \notin Busy
         \/ s = "running" /\ to \in {"running", "raised", "fail"}
         \/ s = "scanning" /\ to \in {"scanning", "fail"}
         \/ s = "stalled" /\ to = "stalled"
  PROVE  OwnerInv'
<1>1. pc[Worker] = from /\ pc'[Worker] = to
  BY DEF Goto, Runners, OwnerIInv, TypeOK, RunnersOK
<1>2. pc[Worker] # "idle" /\ StopHasIntent'
  BY <1>1 DEF Apart, StopHasIntent, OwnerIInv, OwnerInv
<1>3. \A j \in Jobs : status'[j] = IF j = claim[Worker] THEN s ELSE status[j]
  BY DEF SetStatus, OwnerIInv, TypeOK, RowsOK
<1>4. \A j \in Jobs : j = claim[Worker] /\ status'[j] \in Busy => Held(j)'
  BY <1>1, <1>3 DEF Held, Busy
<1> QED BY <1>2, <1>3, <1>4, InHandStep

LEMMA OwnerWorkerStep == ASSUME OwnerIInv, WorkerStep PROVE OwnerInv'
<1> USE DEF ctl, boot, locals
<1>0. /\ \A from, to : Goto(Worker, from, to) => pc[Worker] = from /\ pc'[Worker] = to
      /\ \A s : SetStatus(claim[Worker], s) =>
           \A j \in Jobs : status'[j] = IF j = claim[Worker] THEN s ELSE status[j]
  BY DEF Goto, SetStatus, Runners, OwnerIInv, TypeOK, RunnersOK, RowsOK
<1>1. CASE \E j \in Jobs : Pick(j)
  <2>1. /\ pc[Worker] = "idle" /\ pc'[Worker] \in Apart /\ svc = "up"
        /\ UNCHANGED <<status, svc, serviceStop>>
    BY <1>0, <1>1 DEF Pick, Apart, rows
  <2> QED BY <2>1 DEF OwnerIInv, OwnerInv, StopHasIntent, LeftByStop, Held
<1>2. CASE JobStarted
  <2>1. /\ pc[Worker] = "picked" /\ pc'[Worker] = "check" /\ stopEvent' = FALSE
        /\ UNCHANGED <<status, svc, left, todo, serviceStop>>
    BY <1>0, <1>2 DEF JobStarted, rows
  <2>2. \A j \in Jobs : status[j] \in Busy => LeftByStop(j)'
    BY <2>1 DEF OwnerIInv, OwnerInv, Held, LeftByStop
  <2> QED BY <2>1, <2>2, InHandStep DEF StopHasIntent
<1>3. CASE Check
  <2>1. UNCHANGED <<status, claim, svc, left, todo, serviceStop, stopEvent, intent>>
    BY <1>3 DEF Check, rows
  <2>2. PICK to \in {"finish", "scan", "ready", "fail"} : Goto(Worker, "check", to)
    BY <1>3 DEF Check
  <2>3. \A j \in Jobs : ~Held(j)
    BY <1>0, <2>2 DEF Held
  <2> QED BY <2>1, <2>2, <2>3, WalkStep DEF Apart
<1>4. CASE Ready \/ ProbeNetwork \/ Report \/ TakeLock(Worker) \/ LockRefused(Worker)
  <2>1. UNCHANGED <<status, claim, svc, left, todo, serviceStop, stopEvent, intent>>
    BY <1>4 DEF Ready, ProbeNetwork, Report, TakeLock, LockRefused, Leave, rows
  <2>2. PICK from \in {"ready", "probe", "report", "lock"},
             to \in {"finish", "lock", "stall", "report", "start", "contended"} :
                Goto(Worker, from, to)
    BY <1>4 DEF Ready, ProbeNetwork, Report, TakeLock, LockRefused, Leave
  <2>3. \A j \in Jobs : ~Held(j)
    BY <1>0, <2>2 DEF Held
  <2> QED BY <2>1, <2>2, <2>3, WalkStep DEF Apart
<1>5. CASE ScanFail(Worker)
  <2>1. /\ UNCHANGED <<status, claim, svc, left, todo, serviceStop, stopEvent, intent>>
        /\ Goto(Worker, "scanning", "fail")
    BY <1>5 DEF ScanFail, Leave, rows
  <2>2. \A j \in Jobs : Held(j) => Held(j)'
    BY <1>0, <2>1 DEF Held
  <2> QED BY <2>1, <2>2, WalkStep DEF Apart
<1>6. CASE ReleaseLock(Worker)
  <2>1. UNCHANGED <<status, claim, svc, left, todo, serviceStop, stopEvent, intent>>
    BY <1>6 DEF ReleaseLock, Leave, rows
  <2>2. PICK o \in Outcomes : Goto(Worker, o, AfterRun[o])
    BY <1>6 DEF ReleaseLock, Leave
  <2>3. AfterRun[o] \in {"fail", "probe", "finish", "report"} /\ (o = "raised" => AfterRun[o] = "fail")
    BY DEF AfterRun
  <2>4. \A j \in Jobs : Held(j) => Held(j)'
    BY <1>0, <2>1, <2>2, <2>3 DEF Held, Outcomes
  <2> QED BY <2>1, <2>2, <2>3, <2>4, WalkStep DEF Apart, Outcomes
<1>7. CASE StallExit
  <2>1. /\ UNCHANGED <<status, claim, svc, left, todo, serviceStop, stopEvent, intent>>
        /\ Goto(Worker, "stalled", "finish")
    BY <1>7 DEF StallExit, rows
  <2>2. ASSUME NEW j \in Jobs, Held(j) PROVE LeftByStop(j)' \/ Held(j)'
    <3>1. status[j] = "stalled" /\ claim[Worker] = j
      BY <1>0, <2>1, <2>2 DEF Held
    <3>2. stopEvent \/ serviceStop
      BY <1>7, <3>1 DEF StallExit, StallOver, StopSeen
    <3>3. pc[Worker] = "stalled" /\ pc'[Worker] = "finish"
      BY <1>0, <2>1
    <3>4. stopEvent => intent # "none"
      BY <3>3 DEF OwnerIInv, OwnerInv, StopHasIntent, Apart
    <3> QED BY <2>1, <3>1, <3>2, <3>3, <3>4 DEF Held, LeftByStop
  <2> QED BY <2>1, <2>2, WalkStep DEF Apart
<1>8. CASE JobFinished
  <2>1. /\ pc[Worker] = "finish" /\ pc'[Worker] = (IF intent = "none" THEN "idle" ELSE "apply")
        /\ intent # "none" => claim' = claim
        /\ UNCHANGED <<status, svc, left, todo, serviceStop>>
    BY <1>0, <1>8 DEF JobFinished, LetGo, rows
  <2>2. \A j \in Jobs : status[j] \in Busy => LeftByStop(j)' \/ Held(j)'
    BY <2>1 DEF OwnerIInv, OwnerInv, Held, LeftByStop
  <2> QED BY <2>1, <2>2, InHandStep DEF StopHasIntent, Apart
<1>9. CASE ReadForIntent
  <2>1. /\ pc[Worker] = "apply" /\ pc'[Worker] \in {"applying", "idle"}
        /\ status[claim[Worker]] = "stalled" => pc'[Worker] = "applying" /\ claim' = claim
        /\ UNCHANGED <<status, svc, left, todo, serviceStop>>
    BY <1>0, <1>9 DEF ReadForIntent, IntentApplies, LetGo, rows
  <2>2. \A j \in Jobs : status[j] \in Busy => LeftByStop(j)' \/ Held(j)'
    BY <2>1 DEF OwnerIInv, OwnerInv, Held, LeftByStop
  <2> QED BY <2>1, <2>2, InHandStep DEF StopHasIntent, Apart
<1>10. CASE ApplyIntent
  <2>1. /\ pc[Worker] = "applying" /\ pc'[Worker] = "idle"
        /\ SetStatus(claim[Worker], StopStatus(taken)) /\ StopStatus(taken) \notin Busy
        /\ UNCHANGED <<svc, left, todo, serviceStop>>
    BY <1>0, <1>10 DEF ApplyIntent, LetGo, StopStatus, Busy
  <2>2. \A j \in Jobs : status'[j] = IF j = claim[Worker] THEN StopStatus(taken) ELSE status[j]
    BY <1>0, <2>1
  <2> QED BY <2>1, <2>2, InHandStep DEF StopHasIntent, Apart
<1>11. CASE PauseUnprofiled \/ Contended \/ RecordFailure \/ Unstall \/ ScanFinish(Worker)
  <2>1. PICK from \in {"no profile", "contended", "fail", "unstall", "scanning"},
             to \in {"picked", "finish", "ready"}, s \in {"paused", "pending"} :
                /\ Goto(Worker, from, to) /\ SetStatus(claim[Worker], s)
                /\ from = "no profile" <=> to = "picked"
    BY <1>11 DEF PauseUnprofiled, Contended, RecordFailure, Unstall, ScanFinish
  <2>2. UNCHANGED <<claim, svc, left, todo, serviceStop, stopEvent, intent>>
    BY <1>11 DEF PauseUnprofiled, Contended, RecordFailure, Unstall, ScanFinish
  <2> QED BY <2>1, <2>2, MarkStep DEF Apart, Busy
<1>12. CASE Stall \/ ScanStart(Worker) \/ StartRun(Worker)
  <2>1. UNCHANGED <<claim, svc, left, todo, serviceStop, stopEvent, intent>>
    BY <1>12 DEF Stall, ScanStart, StartRun
  <2>2. CASE Stall
    <3>1. Goto(Worker, "stall", "stalled") /\ SetStatus(claim[Worker], "stalled")
      BY <2>2 DEF Stall
    <3> QED BY <2>1, <3>1, MarkStep DEF Apart
  <2>3. CASE ScanStart(Worker)
    <3>1. Goto(Worker, "scan", "scanning") /\ SetStatus(claim[Worker], "scanning")
      BY <2>3 DEF ScanStart
    <3> QED BY <2>1, <3>1, MarkStep DEF Apart
  <2>4. CASE StartRun(Worker)
    <3>1. Goto(Worker, "start", "running") /\ SetStatus(claim[Worker], "running")
      BY <2>4 DEF StartRun
    <3> QED BY <2>1, <3>1, MarkStep DEF Apart
  <2> QED BY <1>12, <2>2, <2>3, <2>4
<1>13. CASE \E o \in Outcomes : EndRun(Worker, o)
  <2> PICK o \in Outcomes : EndRun(Worker, o)
    BY <1>13
  <2>1. /\ UNCHANGED <<claim, svc, left, todo, serviceStop, stopEvent, intent>>
        /\ Goto(Worker, "running", o)
    BY DEF EndRun
  <2>2. CASE o = "raised"
    <3>1. UNCHANGED status
      BY <2>2 DEF EndRun
    <3>2. \A j \in Jobs : Held(j) => Held(j)'
      BY <1>0, <2>1, <2>2, <3>1 DEF Held
    <3> QED BY <2>1, <2>2, <3>1, <3>2, WalkStep DEF Apart
  <2>3. CASE o # "raised"
    <3>1. PICK s \in {"complete", "incomplete", "paused", "pending"} : SetStatus(claim[Worker], s)
      BY <2>3 DEF EndRun, Outcomes
    <3> QED BY <2>1, <3>1, MarkStep DEF Apart, Busy, Outcomes
  <2> QED BY <2>2, <2>3
<1>14. CASE ScanBatch(Worker)
  BY <1>14 DEF ScanBatch, OwnerIInv, OwnerInv, StopHasIntent, LeftByStop, Held, Ahead
<1> QED
  BY <1>1, <1>2, <1>3, <1>4, <1>5, <1>6, <1>7, <1>8, <1>9, <1>10, <1>11, <1>12, <1>13, <1>14
  DEF WorkerStep, Run

LEMMA OwnerStep == ASSUME Clis = {}, ~Faults, OwnerIInv, [Next]_vars PROVE OwnerInv'
<1> DEFINE seen == <<status, svc, left, todo, serviceStop, stopEvent, intent, pc, claim>>
<1>1. CASE UNCHANGED seen
  BY <1>1 DEF OwnerIInv, OwnerInv, StopHasIntent, LeftByStop, Held, Ahead
<1>2. CASE vars' = vars
  BY <1>2, <1>1 DEF vars, rows, ctl, boot
<1>3. CASE \/ \E a \in Apis, op \in Ops, j \in Jobs : Call(a, op, j)
           \/ \E j \in Jobs : TimePasses(j) \/ Unarchive(j)
  BY <1>3, <1>1 DEF Call, TimePasses, Unarchive, rows, ctl, boot
<1>4. CASE \E d \in Dests, j \in Jobs : Submit(d, j)
  <2> PICK d \in Dests, j \in Jobs : Submit(d, j)
    BY <1>4
  <2>1. SetStatus(j, "pending") /\ UNCHANGED <<pc, claim, ctl, boot>>
    BY DEF Submit, CreateJob
  <2> QED BY <2>1, IdleWrite DEF Busy, ctl, boot
<1>5. CASE \E j \in Jobs : RecoverJob(j)
  <2> PICK j \in Jobs : RecoverJob(j)
    BY <1>5
  <2>1. /\ SetStatus(j, IF AutoResume THEN "pending" ELSE "paused") /\ todo' = todo \ {j}
        /\ UNCHANGED <<pc, claim, ctl, svc, left>>
    BY DEF RecoverJob
  <2> QED BY <2>1, IdleWrite DEF Busy, ctl
<1>6. CASE \E a \in Apis : Write(a)
  <2> PICK a \in Apis : Write(a)
    BY <1>6
  <2>1. UNCHANGED <<pc, claim, ctl, boot>>
    BY DEF Write
  <2>2. CASE UNCHANGED status
    BY <1>1, <2>1, <2>2 DEF ctl, boot
  <2>3. CASE SetStatus(api[a].job, IF api[a].op = "resume" THEN "pending" ELSE StopStatus(api[a].op))
    BY <2>1, <2>3, IdleWrite DEF StopStatus, Busy, ctl, boot
  <2> QED BY <2>2, <2>3 DEF Write
<1>7. CASE \E a \in Apis : Request(a)
  <2> PICK a \in Apis : Request(a)
    BY <1>7
  <2>1. /\ UNCHANGED <<status, pc, claim, serviceStop, svc, left, todo>>
        /\ \/ UNCHANGED <<intent, stopEvent>>
           \/ intent' = api[a].op
    BY DEF Request, rows, boot
  <2>2. api[a].op # "none"
    BY DEF OwnerIInv, TypeOK, CallsOK, Ops
  <2> QED BY <2>1, <2>2 DEF OwnerIInv, OwnerInv, StopHasIntent, LeftByStop, Held, Ahead
<1>8. CASE Start
  BY <1>8 DEF Start, rows, ctl, OwnerIInv, OwnerInv, StopHasIntent, LeftByStop, Held, Ahead
<1>9. CASE RecoverRead
  <2>1. /\ UNCHANGED <<status, svc, serviceStop, stopEvent, intent, pc, claim>>
        /\ svc = "recovering" /\ todo = {}
    BY <1>9 DEF RecoverRead, rows, ctl
  <2>2. ASSUME NEW j \in Jobs, status[j] \in Busy, Ahead(status[j])
        PROVE  j \in todo' \/ Ahead(status[j])'
    BY <1>9, <2>1, <2>2 DEF RecoverRead, Swept, Ahead, Busy
  <2> QED BY <2>1, <2>2 DEF OwnerIInv, OwnerInv, StopHasIntent
<1>10. CASE RecoverDone
  <2>1. /\ UNCHANGED <<status, serviceStop, stopEvent, intent, pc, claim>>
        /\ svc = "recovering" /\ todo = {} /\ left = 0 /\ svc' = "up"
    BY <1>10 DEF RecoverDone, rows, ctl
  <2>2. \A j \in Jobs : status[j] \notin Busy
    BY <2>1 DEF OwnerIInv, OwnerInv, Ahead
  <2> QED BY <2>1, <2>2 DEF OwnerIInv, OwnerInv, StopHasIntent
<1>11. CASE StopService
  BY <1>11 DEF StopService, rows, boot, OwnerIInv, OwnerInv, StopHasIntent, LeftByStop, Held, Ahead
<1>12. CASE Exit \/ Crash
  <2>1. svc' = "down" /\ pc'[Worker] = "idle"
    BY <1>12 DEF Exit, Crash, GoDown, Runners, OwnerIInv, TypeOK, RunnersOK
  <2> QED BY <2>1 DEF OwnerInv, StopHasIntent, Apart
<1>13. CASE ProbeAnswers
  <2>1. /\ UNCHANGED <<status, claim, svc, left, todo, serviceStop, stopEvent, intent>>
        /\ Goto(Worker, "stalled", "unstall")
    BY <1>13 DEF ProbeAnswers, rows, ctl, boot
  <2>2. \A j \in Jobs : Held(j) => Held(j)'
    BY <2>1 DEF Held, Goto, Runners, OwnerIInv, TypeOK, RunnersOK
  <2> QED BY <2>1, <2>2, WalkStep DEF Apart
<1>14. ~DbError /\ ~ \E c \in Clis : Terminal(c)
  BY DEF DbError
<1> QED
  BY <1>2, <1>3, <1>4, <1>5, <1>6, <1>7, <1>8, <1>9, <1>10, <1>11, <1>12, <1>13, <1>14,
     OwnerWorkerStep
  DEF Next, Handler, Recovery

\* Without terminals and failing statements, whatever the callers do and wherever
\* the service dies, no row is left running, scanning or stalled for the queue
\* never to pick again (worker.py, startup_recovery and _apply_intent). The stall
\* that a stopping service ends is the one row that waits for the next start.
THEOREM NoRowIsLeftBusy == ASSUME Clis = {}, ~Faults PROVE Spec => []BusyRowHasOwner
<1>1. Init => OwnerIInv
  <2>1. Init => OwnerInv
    BY DEF Init, OwnerInv, StopHasIntent, Busy, Runners
  <2> QED BY <2>1, InitTyped DEF OwnerIInv
<1>2. OwnerIInv /\ [Next]_vars => OwnerIInv'
  BY OwnerStep, RowsStep, RunnersStep, ControllerStep, ServiceStep, CallsStep
  DEF OwnerIInv, TypeOK
<1>3. OwnerIInv => BusyRowHasOwner
  BY DEF OwnerIInv, OwnerInv, BusyRowHasOwner, Busy, LeftByStop, Held
<1> QED BY <1>1, <1>2, <1>3, PTL DEF Spec

---------------------------------------------------------------------------
(* The worker's steps *)

Rest == <<svc, todo, api>>

\* A step of the worker moves it, and writes no row but the one it has in hand.
LEMMA GotoMoves ==
  ASSUME TypeOK, NEW from, NEW to, Goto(Worker, from, to)
  PROVE  pc[Worker] = from /\ pc'[Worker] = to
  BY DEF Goto, TypeOK, RunnersOK, Runners

LEMMA WritesOne ==
  ASSUME TypeOK, NEW j, NEW s, SetStatus(j, s)
  PROVE  \A k \in Jobs : status'[k] = IF k = j THEN s ELSE status[k]
  BY DEF SetStatus, TypeOK, RowsOK

LEMMA DropsClaim ==
  ASSUME TypeOK, NEW from, LetGo(from)
  PROVE  pc[Worker] = from /\ pc'[Worker] = "idle" /\ claim'[Worker] = NoJob
  BY DEF LetGo, Goto, TypeOK, RunnersOK, Runners

---------------------------------------------------------------------------
(* The outcome of a run. The row the worker has in hand is complete only    *)
(* from the end of its run to the end of the claim.                         *)

Over == {"complete", "report", "finish", "apply"}
OutcomeInv ==
  pc[Worker] # "idle" =>
    /\ claim[Worker] \in Jobs
    /\ status[claim[Worker]] = "complete" => pc[Worker] \in Over
OutcomeIInv == TypeOK /\ OutcomeInv

\* What a step of the worker does to the rows, when it has one in hand.
KeepsOutcome ==
  \A j \in Jobs : status[j] = "complete" => status'[j] = "complete"

\* The worker moves, and may mark the row it has in hand.
LEMMA OutcomeMove ==
  ASSUME OutcomeIInv, NEW from, NEW to, Goto(Worker, from, to), from # "idle", claim' = claim,
         \/ UNCHANGED status /\ (from \in Over => to \in Over)
         \/ from \notin Over /\ \E s : SetStatus(claim[Worker], s) /\ (s = "complete" => to \in Over)
  PROVE  OutcomeInv' /\ KeepsOutcome
<1>1. pc[Worker] = from /\ pc'[Worker] = to
  BY GotoMoves DEF OutcomeIInv
<1>2. CASE UNCHANGED status
  BY <1>1, <1>2 DEF OutcomeIInv, OutcomeInv, KeepsOutcome
<1>3. CASE from \notin Over /\ \E s : SetStatus(claim[Worker], s) /\ (s = "complete" => to \in Over)
  <2> PICK s : SetStatus(claim[Worker], s) /\ (s = "complete" => to \in Over)
    BY <1>3
  <2>1. \A k \in Jobs : status'[k] = IF k = claim[Worker] THEN s ELSE status[k]
    BY WritesOne DEF OutcomeIInv
  <2> QED BY <1>1, <1>3, <2>1 DEF OutcomeIInv, OutcomeInv, KeepsOutcome
<1> QED BY <1>2, <1>3

LEMMA OutcomeWorkerStep ==
  ASSUME OutcomeIInv, WorkerStep \/ ProbeAnswers \/ DbError
  PROVE  OutcomeInv' /\ KeepsOutcome
<1>1. ASSUME pc'[Worker] = "idle", UNCHANGED status PROVE OutcomeInv' /\ KeepsOutcome
  BY <1>1 DEF OutcomeInv, KeepsOutcome
<1>2. CASE \E j \in Jobs : Pick(j)
  <2> PICK j \in Jobs : Pick(j)
    BY <1>2
  <2>1. claim'[Worker] = j /\ status[j] = "pending" /\ UNCHANGED status
    BY DEF Pick, NextEligible, Eligible, rows, OutcomeIInv, TypeOK, RunnersOK, Runners
  <2> QED BY <2>1 DEF OutcomeInv, KeepsOutcome
<1>3. CASE \/ JobStarted \/ Check \/ Ready \/ ProbeNetwork \/ StallExit \/ ProbeAnswers
           \/ Report \/ \E p \in {Worker} : ScanFail(p) \/ TakeLock(p) \/ LockRefused(p)
  <2>1. UNCHANGED <<status, claim>>
    BY <1>3 DEF JobStarted, Check, Ready, ProbeNetwork, StallExit, ProbeAnswers, Report,
         ScanFail, TakeLock, LockRefused, Leave, rows
  <2>2. PICK from \in {"picked", "check", "ready", "probe", "stalled", "report", "scanning", "lock"},
             to \in {"check", "finish", "scan", "ready", "fail", "lock", "stall", "report",
                     "unstall", "start", "contended"} :
                Goto(Worker, from, to) /\ (from = "report" => to = "finish")
    BY <1>3 DEF JobStarted, Check, Ready, ProbeNetwork, StallExit, ProbeAnswers, Report,
         ScanFail, TakeLock, LockRefused, Leave
  <2> QED BY <2>1, <2>2, OutcomeMove DEF Over
<1>4. CASE ReleaseLock(Worker)
  <2>1. PICK o \in Outcomes : Goto(Worker, o, AfterRun[o]) /\ UNCHANGED <<status, claim>>
    BY <1>4 DEF ReleaseLock, Leave, rows
  <2>2. AfterRun[o] # "idle" /\ (o \in Over => AfterRun[o] \in Over)
    BY DEF AfterRun, Outcomes, Over
  <2> QED BY <2>1, <2>2, OutcomeMove DEF Outcomes
<1>5. CASE \/ PauseUnprofiled \/ Contended \/ RecordFailure \/ Stall \/ Unstall
           \/ \E p \in {Worker} : ScanStart(p) \/ ScanFinish(p) \/ StartRun(p)
  <2>1. claim' = claim
    BY <1>5 DEF PauseUnprofiled, Contended, RecordFailure, Stall, Unstall, ScanStart,
         ScanFinish, StartRun
  <2>2. PICK from \in {"no profile", "contended", "fail", "stall", "unstall", "scan", "scanning", "start"},
             to \in {"picked", "finish", "stalled", "scanning", "ready", "running"},
             s \in Statuses \ {"complete"} : Goto(Worker, from, to) /\ SetStatus(claim[Worker], s)
    BY <1>5 DEF PauseUnprofiled, Contended, RecordFailure, Stall, Unstall, ScanStart,
         ScanFinish, StartRun, Statuses
  <2> QED BY <2>1, <2>2, OutcomeMove DEF Over
<1>6. CASE \E o \in Outcomes : EndRun(Worker, o)
  <2> PICK o \in Outcomes : EndRun(Worker, o)
    BY <1>6
  <2>1. Goto(Worker, "running", o) /\ claim' = claim
    BY DEF EndRun
  <2>2. UNCHANGED status \/ \E s : SetStatus(claim[Worker], s) /\ (s = "complete" => o = "complete")
    BY DEF EndRun, Outcomes
  <2> QED BY <2>1, <2>2, OutcomeMove DEF Over, Outcomes
<1>7. CASE ScanBatch(Worker)
  BY <1>7 DEF ScanBatch, OutcomeIInv, OutcomeInv, KeepsOutcome
<1>8. CASE JobFinished
  <2>1. CASE LetGo("finish")
    BY <1>8, <2>1, <1>1, DropsClaim DEF JobFinished, rows, OutcomeIInv
  <2>2. CASE Goto(Worker, "finish", "apply") /\ UNCHANGED claim
    BY <1>8, <2>2, OutcomeMove DEF JobFinished, rows, Over
  <2> QED BY <1>8, <2>1, <2>2 DEF JobFinished
<1>9. CASE ReadForIntent
  <2>1. CASE LetGo("apply")
    BY <1>9, <2>1, <1>1, DropsClaim DEF ReadForIntent, rows, OutcomeIInv
  <2>2. CASE Goto(Worker, "apply", "applying") /\ IntentApplies(claim[Worker]) /\ UNCHANGED claim
    BY <1>9, <2>2, GotoMoves
       DEF ReadForIntent, IntentApplies, rows, OutcomeIInv, OutcomeInv, KeepsOutcome
  <2> QED BY <1>9, <2>1, <2>2 DEF ReadForIntent
<1>10. CASE ApplyIntent
  <2>1. pc[Worker] = "applying" /\ pc'[Worker] = "idle"
    BY <1>10, DropsClaim DEF ApplyIntent, OutcomeIInv
  <2>2. \A k \in Jobs : k # claim[Worker] => status'[k] = status[k]
    BY <1>10, WritesOne DEF ApplyIntent, OutcomeIInv
  <2> QED BY <2>1, <2>2 DEF OutcomeIInv, OutcomeInv, KeepsOutcome, Over
<1>11. CASE DbError
  <2>1. UNCHANGED status
    BY <1>11 DEF DbError, rows
  <2>2. CASE \E from \in {"no profile", "apply", "applying"} : LetGo(from)
    BY <2>1, <2>2, <1>1, DropsClaim DEF OutcomeIInv
  <2>3. CASE \E from \in {"check", "contended", "fail", "probe", "stall", "stalled", "unstall",
                          "scan", "start"}, to \in {"finish", "fail", "raised"} :
                Goto(Worker, from, to) /\ UNCHANGED claim
    BY <2>1, <2>3, OutcomeMove DEF Over
  <2> QED BY <1>11, <2>2, <2>3 DEF DbError
<1> QED
  BY <1>2, <1>3, <1>4, <1>5, <1>6, <1>7, <1>8, <1>9, <1>10, <1>11 DEF WorkerStep, Run

LEMMA OutcomeStep ==
  ASSUME Clis = {}, OutcomeIInv, [Next]_vars
  PROVE  OutcomeInv' /\ (KeepsOutcome \/ pc'[Worker] = pc[Worker])
<1>1. CASE WorkerStep \/ ProbeAnswers \/ DbError
  BY <1>1, OutcomeWorkerStep
<1>2. ASSUME UNCHANGED <<pc, claim>>,
             \A j \in Jobs : status'[j] = "complete" => status[j] = "complete"
      PROVE  OutcomeInv' /\ pc'[Worker] = pc[Worker]
  BY <1>2 DEF OutcomeIInv, OutcomeInv
<1>3. CASE \/ \E a \in Apis : (\E op \in Ops, j \in Jobs : Call(a, op, j)) \/ Request(a)
           \/ \E j \in Jobs : TimePasses(j) \/ Unarchive(j)
           \/ Start \/ RecoverRead \/ RecoverDone \/ StopService \/ vars' = vars
  BY <1>3, <1>2 DEF Call, Request, TimePasses, Unarchive, Start, RecoverRead, RecoverDone,
       StopService, vars, rows
<1>4. CASE \/ \E a \in Apis : Write(a)
           \/ \E j \in Jobs : RecoverJob(j)
           \/ \E d \in Dests, j \in Jobs : Submit(d, j)
  <2>1. UNCHANGED <<pc, claim>>
    BY <1>4 DEF Write, RecoverJob, Submit
  <2>2. \A j \in Jobs : status'[j] = "complete" => status[j] = "complete"
    BY <1>4, WriteStep DEF Write, RecoverJob, Submit, CreateJob, StopStatus, OutcomeIInv
  <2> QED BY <2>1, <2>2, <1>2
<1>5. CASE Exit \/ Crash
  BY <1>5 DEF Exit, Crash, GoDown, rows, Runners, OutcomeIInv, OutcomeInv, TypeOK, RunnersOK,
       KeepsOutcome
<1> QED
  BY <1>1, <1>3, <1>4, <1>5 DEF Next, Handler, Recovery

\* Without terminals no step of the worker takes a row out of COMPLETE (worker.py,
\* _apply_intent), whatever is called, fails and dies meanwhile: an intent that
\* comes too late leaves the outcome of the run.
THEOREM OutcomeIsKept == ASSUME Clis = {} PROVE Spec => WorkerKeepsOutcome
<1>1. Init => OutcomeIInv
  <2>1. Init => OutcomeInv
    BY DEF Init, OutcomeInv, Runners
  <2> QED BY <2>1, InitTyped DEF OutcomeIInv
<1>2. OutcomeIInv /\ [Next]_vars => OutcomeIInv'
  BY OutcomeStep, RowsStep, RunnersStep, ControllerStep, ServiceStep, CallsStep
  DEF OutcomeIInv, TypeOK
<1>3. OutcomeIInv /\ [Next]_vars =>
        [\A j \in Jobs : status[j] = "complete" /\ status'[j] # "complete"
                            => pc'[Worker] = pc[Worker]]_vars
  BY OutcomeStep DEF KeepsOutcome
<1> QED BY <1>1, <1>2, <1>3, PTL DEF Spec, WorkerKeepsOutcome

---------------------------------------------------------------------------
(* Stops that reached the row before the worker looked at it again. The row *)
(* keeps them: nobody but the user takes it out of paused and cancelled.     *)

Flipped == {"paused", "cancelled"}

\* Rows, calls and the worker are as the state of the service lets them be.
ServiceInv ==
  /\ svc # "up" => pc[Worker] = "idle" /\ \A a \in Apis : api[a].at = "idle"
  /\ svc # "recovering" => todo = {}
  /\ \A j \in todo : status[j] \notin {"absent"} \cup Flipped
RowInv ==
  /\ \A j \in Jobs : status[j] = "absent" => ack[j] = "none"
  /\ \A a \in Apis : api[a].at # "idle" => status[api[a].job] # "absent"
  /\ IF pc[Worker] = "idle" THEN claim[Worker] = NoJob
     ELSE claim[Worker] \in Jobs /\ status[claim[Worker]] # "absent"

\* The places at which the worker may have a flipped row in hand.
Turning == {"no profile", "picked", "check", "finish", "apply"}
FlipInv ==
  \A j \in Jobs : ack[j] = "flipped" =>
    status[j] \in Flipped /\ (claim[Worker] = j => pc[Worker] \in Turning)
FlipIInv == TypeOK /\ ServiceInv /\ RowInv /\ FlipInv

\* A step of the worker with a row in hand that it may mark.
LEMMA FlipMove ==
  ASSUME FlipIInv, NEW from, NEW to, Goto(Worker, from, to), from # "idle", to # "idle",
         UNCHANGED <<claim, svc, todo, api, ack>>,
         \/ UNCHANGED status
         \/ \E s \in Statuses : /\ SetStatus(claim[Worker], s)
                                /\ from \in Turning => s \in Flipped,
         from \in Turning => to \in Turning \/ ack[claim[Worker]] # "flipped"
  PROVE  ServiceInv' /\ RowInv' /\ FlipInv'
<1>1. pc[Worker] = from /\ pc'[Worker] = to /\ svc = "up" /\ todo = {} /\ claim[Worker] \in Jobs
  BY GotoMoves DEF FlipIInv, ServiceInv, RowInv
<1>2. \A k \in Jobs : /\ k # claim[Worker] => status'[k] = status[k]
                      /\ status'[k] = "absent" <=> status[k] = "absent"
  BY <1>1, WritesOne DEF FlipIInv, RowInv, Statuses
<1>3. ServiceInv'
  BY <1>1 DEF ServiceInv
<1>4. RowInv'
  BY <1>1, <1>2 DEF FlipIInv, RowInv, TypeOK, CallsOK
<1>5. ASSUME NEW j \in Jobs, ack[j] = "flipped"
      PROVE  status'[j] \in Flipped /\ (claim[Worker] = j => to \in Turning)
  <2>1. status[j] \in Flipped /\ (claim[Worker] = j => from \in Turning)
    BY <1>1, <1>5 DEF FlipIInv, FlipInv
  <2>2. CASE claim[Worker] # j
    BY <1>2, <2>1, <2>2
  <2>3. CASE claim[Worker] = j
    <3>1. to \in Turning
      BY <2>1, <2>3, <1>5
    <3>2. CASE UNCHANGED status
      BY <2>1, <3>1, <3>2
    <3>3. CASE \E s \in Statuses : SetStatus(claim[Worker], s) /\ (from \in Turning => s \in Flipped)
      BY <2>1, <2>3, <3>1, <3>3, WritesOne DEF FlipIInv
    <3> QED BY <3>2, <3>3
  <2> QED BY <2>2, <2>3
<1> QED BY <1>1, <1>3, <1>4, <1>5 DEF FlipInv

\* The worker lets a row go that is not flipped, or as it found it.
LEMMA FlipLetGo ==
  ASSUME FlipIInv, NEW from, LetGo(from), from # "idle", UNCHANGED <<svc, todo, api>>,
         \/ UNCHANGED <<status, ack>>
         \/ /\ from \notin Turning
            /\ \E s \in Statuses : SetStatus(claim[Worker], s)
            /\ \E t \in {ack[claim[Worker]], "applied"} : ack' = [ack EXCEPT ![claim[Worker]] = t]
  PROVE  ServiceInv' /\ RowInv' /\ FlipInv'
<1>1. /\ pc[Worker] = from /\ pc'[Worker] = "idle" /\ claim'[Worker] = NoJob
      /\ svc = "up" /\ todo = {} /\ claim[Worker] \in Jobs /\ status[claim[Worker]] # "absent"
  BY DropsClaim DEF FlipIInv, ServiceInv, RowInv
<1>2. \A k \in Jobs : /\ k # claim[Worker] => status'[k] = status[k] /\ ack'[k] = ack[k]
                      /\ status'[k] = "absent" <=> status[k] = "absent"
  BY <1>1, WritesOne DEF FlipIInv, RowInv, Statuses, TypeOK, CallsOK
<1>3. \A j \in Jobs : ack'[j] = "flipped" => status'[j] \in Flipped
  <2> SUFFICES ASSUME NEW j \in Jobs, ack'[j] = "flipped" PROVE status'[j] \in Flipped
    OBVIOUS
  <2>1. CASE j # claim[Worker] \/ UNCHANGED <<status, ack>>
    BY <1>2, <2>1 DEF FlipIInv, FlipInv
  <2>2. CASE j = claim[Worker] /\ ~UNCHANGED <<status, ack>>
    <3>1. ack[j] # "flipped" /\ ack'[j] \in {ack[j], "applied"}
      BY <1>1, <2>2 DEF FlipIInv, FlipInv, TypeOK, CallsOK
    <3> QED BY <3>1
  <2> QED BY <2>1, <2>2
<1>4. NoJob \notin Jobs
  BY JobsAssumption DEF NoJob
<1>5. ServiceInv'
  BY <1>1 DEF ServiceInv
<1>6. RowInv'
  BY <1>1, <1>2 DEF FlipIInv, RowInv, TypeOK, CallsOK
<1> QED BY <1>1, <1>3, <1>4, <1>5, <1>6 DEF FlipInv

LEMMA NotFlipped ==
  ASSUME FlipIInv, pc[Worker] # "idle", status[claim[Worker]] \notin Flipped
  PROVE  ack[claim[Worker]] # "flipped"
  BY DEF FlipIInv, FlipInv, RowInv

LEMMA FlipWorkerStep ==
  ASSUME FlipIInv, WorkerStep \/ ProbeAnswers \/ DbError
  PROVE  ServiceInv' /\ RowInv' /\ FlipInv'
<1> USE DEF boot, Turning
<1>1. CASE \E j \in Jobs : Pick(j)
  <2> PICK j \in Jobs : Pick(j)
    BY <1>1
  <2>1. /\ claim'[Worker] = j /\ status[j] = "pending" /\ pc'[Worker] # "idle" /\ svc = "up"
        /\ UNCHANGED <<status, svc, todo, api, ack>>
    BY DEF Pick, Goto, NextEligible, Eligible, rows, FlipIInv, TypeOK, RunnersOK, Runners
  <2> QED BY <2>1 DEF FlipIInv, ServiceInv, RowInv, FlipInv, Flipped
<1>2. CASE Check
  <2>1. UNCHANGED <<status, claim, svc, todo, api, ack>>
    BY <1>2 DEF Check, rows
  <2>2. PICK to \in {"finish", "scan", "ready", "fail"} :
          Goto(Worker, "check", to) /\ (to # "finish" => MayHandle)
    BY <1>2 DEF Check
  <2>3. pc[Worker] = "check"
    BY <2>2, GotoMoves DEF FlipIInv
  <2>4. MayHandle => ack[claim[Worker]] # "flipped"
    BY <2>3, NotFlipped DEF MayHandle, RereadSaysGo, Flipped
  <2> QED BY <2>1, <2>2, <2>4, FlipMove
<1>3. CASE \/ JobStarted \/ Ready \/ ProbeNetwork \/ StallExit \/ ProbeAnswers
           \/ Report \/ \E p \in {Worker} : ScanFail(p) \/ TakeLock(p) \/ LockRefused(p)
  <2>1. UNCHANGED <<status, claim, svc, todo, api, ack>>
    BY <1>3 DEF JobStarted, Ready, ProbeNetwork, StallExit, ProbeAnswers, Report,
         ScanFail, TakeLock, LockRefused, Leave, rows
  <2>2. PICK from \in {"picked", "ready", "probe", "stalled", "report", "scanning", "lock"},
             to \in {"check", "finish", "scan", "ready", "fail", "lock", "stall", "report",
                     "unstall", "start", "contended"} :
                Goto(Worker, from, to) /\ (from = "picked" => to = "check")
    BY <1>3 DEF JobStarted, Ready, ProbeNetwork, StallExit, ProbeAnswers, Report,
         ScanFail, TakeLock, LockRefused, Leave
  <2> QED BY <2>1, <2>2, FlipMove
<1>4. CASE ReleaseLock(Worker)
  <2>1. PICK o \in Outcomes :
          Goto(Worker, o, AfterRun[o]) /\ UNCHANGED <<status, claim, svc, todo, api, ack>>
    BY <1>4 DEF ReleaseLock, Leave, rows
  <2>2. AfterRun[o] # "idle" /\ o # "idle" /\ o \notin Turning
    BY DEF AfterRun, Outcomes
  <2> QED BY <2>1, <2>2, FlipMove
<1>5. CASE \/ PauseUnprofiled \/ Contended \/ RecordFailure \/ Stall \/ Unstall
           \/ \E p \in {Worker} : ScanStart(p) \/ ScanFinish(p) \/ StartRun(p)
  <2>1. UNCHANGED <<claim, svc, todo, api, ack>>
    BY <1>5 DEF PauseUnprofiled, Contended, RecordFailure, Stall, Unstall, ScanStart,
         ScanFinish, StartRun
  <2>2. PICK from \in {"no profile", "contended", "fail", "stall", "unstall", "scan", "scanning", "start"},
             to \in {"picked", "finish", "stalled", "scanning", "ready", "running"},
             s \in Statuses : /\ Goto(Worker, from, to) /\ SetStatus(claim[Worker], s)
                              /\ from = "no profile" => to = "picked" /\ s = "paused"
    BY <1>5 DEF PauseUnprofiled, Contended, RecordFailure, Stall, Unstall, ScanStart,
         ScanFinish, StartRun, Statuses
  <2> QED BY <2>1, <2>2, FlipMove DEF Flipped
<1>6. CASE \E o \in Outcomes : EndRun(Worker, o)
  <2> PICK o \in Outcomes : EndRun(Worker, o)
    BY <1>6
  <2>1. Goto(Worker, "running", o) /\ UNCHANGED <<claim, svc, todo, api, ack>>
    BY DEF EndRun
  <2>2. UNCHANGED status \/ \E s \in Statuses : SetStatus(claim[Worker], s)
    BY DEF EndRun, Outcomes, Statuses
  <2> QED BY <2>1, <2>2, FlipMove DEF Outcomes
<1>7. CASE ScanBatch(Worker)
  BY <1>7 DEF ScanBatch, FlipIInv, ServiceInv, RowInv, FlipInv
<1>8. CASE JobFinished
  <2>1. UNCHANGED <<status, svc, todo, api, ack>>
    BY <1>8 DEF JobFinished, rows
  <2>2. CASE LetGo("finish")
    BY <2>1, <2>2, FlipLetGo
  <2>3. CASE Goto(Worker, "finish", "apply") /\ UNCHANGED claim
    BY <2>1, <2>3, FlipMove
  <2> QED BY <1>8, <2>2, <2>3 DEF JobFinished
<1>9. CASE ReadForIntent
  <2>1. UNCHANGED <<status, svc, todo, api, ack>>
    BY <1>9 DEF ReadForIntent, rows
  <2>2. CASE LetGo("apply")
    BY <2>1, <2>2, FlipLetGo
  <2>3. CASE Goto(Worker, "apply", "applying") /\ IntentApplies(claim[Worker]) /\ UNCHANGED claim
    <3>1. pc[Worker] = "apply"
      BY <2>3, GotoMoves DEF FlipIInv
    <3>2. ack[claim[Worker]] # "flipped"
      BY <2>3, <3>1, NotFlipped DEF IntentApplies, Flipped
    <3> QED BY <2>1, <2>3, <3>2, FlipMove
  <2> QED BY <1>9, <2>2, <2>3 DEF ReadForIntent
<1>10. CASE ApplyIntent
  <2>1. /\ LetGo("applying") /\ UNCHANGED <<svc, todo, api>>
        /\ SetStatus(claim[Worker], StopStatus(taken)) /\ StopStatus(taken) \in Statuses
        /\ \E t \in {ack[claim[Worker]], "applied"} : ack' = [ack EXCEPT ![claim[Worker]] = t]
    BY <1>10 DEF ApplyIntent, StopStatus, Statuses
  <2> QED BY <2>1, FlipLetGo
<1>11. CASE DbError
  <2>1. UNCHANGED <<status, svc, todo, api, ack>>
    BY <1>11 DEF DbError, rows
  <2>2. CASE \E from \in {"no profile", "apply", "applying"} : LetGo(from)
    BY <2>1, <2>2, FlipLetGo
  <2>3. CASE \E from \in {"check", "contended", "fail", "probe", "stall", "stalled", "unstall",
                          "scan", "start"}, to \in {"finish", "fail", "raised"} :
                Goto(Worker, from, to) /\ UNCHANGED claim /\ (from = "check" => to = "finish")
    BY <2>1, <2>3, FlipMove
  <2> QED BY <1>11, <2>2, <2>3 DEF DbError
<1> QED
  BY <1>1, <1>2, <1>3, <1>4, <1>5, <1>6, <1>7, <1>8, <1>9, <1>10, <1>11 DEF WorkerStep, Run

LEMMA FlipStep ==
  ASSUME Clis = {}, FlipIInv, [Next]_vars
  PROVE  ServiceInv' /\ RowInv' /\ FlipInv'
<1>1. CASE WorkerStep \/ ProbeAnswers \/ DbError
  BY <1>1, FlipWorkerStep
<1>2. CASE UNCHANGED <<status, pc, claim, svc, todo, api, ack>>
  BY <1>2 DEF FlipIInv, ServiceInv, RowInv, FlipInv
<1>3. CASE \/ \E j \in Jobs : TimePasses(j) \/ Unarchive(j)
           \/ StopService \/ vars' = vars
  BY <1>3, <1>2 DEF TimePasses, Unarchive, StopService, vars, rows, boot
<1>4. CASE \E d \in Dests, j \in Jobs : Submit(d, j)
  <2> PICK d \in Dests, j \in Jobs : Submit(d, j)
    BY <1>4
  <2>1. /\ svc = "up" /\ status[j] = "absent" /\ SetStatus(j, "pending")
        /\ UNCHANGED <<pc, claim, svc, todo, api, ack>>
    BY DEF Submit, CreateJob, boot
  <2>2. \A k \in Jobs : status'[k] = IF k = j THEN "pending" ELSE status[k]
    BY <2>1, WritesOne DEF FlipIInv
  <2>3. ServiceInv'
    BY <2>1 DEF FlipIInv, ServiceInv
  <2>4. RowInv'
    BY <2>1, <2>2 DEF FlipIInv, RowInv, TypeOK, CallsOK
  <2>5. FlipInv'
    BY <2>1, <2>2 DEF FlipIInv, RowInv, FlipInv
  <2> QED BY <2>3, <2>4, <2>5
<1>5. CASE \E a \in Apis, op \in Ops, j \in Jobs : Call(a, op, j)
  <2> PICK a \in Apis, op \in Ops, j \in Jobs : Call(a, op, j)
    BY <1>5
  <2>1. /\ svc = "up" /\ status[j] # "absent" /\ UNCHANGED <<status, pc, claim, svc, todo, ack>>
    BY DEF Call, Accepts, Ops, rows, boot
  <2>2. \A b \in Apis : IF b = a THEN api'[b].job = j ELSE api'[b] = api[b]
    BY DEF Call, FlipIInv, TypeOK, CallsOK
  <2> QED BY <2>1, <2>2 DEF FlipIInv, ServiceInv, RowInv, FlipInv
<1>6. CASE \E a \in Apis : Request(a)
  <2> PICK a \in Apis : Request(a)
    BY <1>6
  <2>1. /\ api[a].at = "request" /\ UNCHANGED <<status, pc, claim, svc, todo>>
        /\ \/ ack' = ack
           \/ ack' = [ack EXCEPT ![api[a].job] = "asked"]
    BY DEF Request, rows, boot
  <2>2. svc = "up" /\ todo = {} /\ status[api[a].job] # "absent" /\ api[a].job \in Jobs
    BY <2>1 DEF FlipIInv, ServiceInv, RowInv, TypeOK, CallsOK
  <2>3. \A b \in Apis : IF b = a THEN api'[b] = NoCall \/ api'[b].job = api[a].job
                        ELSE api'[b] = api[b]
    BY DEF Request, FlipIInv, TypeOK, CallsOK
  <2>4. \A k \in Jobs : ack'[k] = ack[k] \/ (k = api[a].job /\ ack'[k] = "asked")
    BY <2>1, <2>2 DEF FlipIInv, TypeOK, CallsOK
  <2>5. ServiceInv'
    BY <2>1, <2>2 DEF ServiceInv
  <2>6. RowInv'
    BY <2>1, <2>2, <2>3, <2>4, NoCallTyped DEF FlipIInv, RowInv
  <2>7. FlipInv'
    BY <2>1, <2>4 DEF FlipIInv, FlipInv
  <2> QED BY <2>5, <2>6, <2>7
<1>7. CASE \E a \in Apis : Write(a)
  <2> PICK a \in Apis : Write(a)
    BY <1>7
  <2> DEFINE j == api[a].job
             op == api[a].op
  <2>1. /\ api[a].at = "write" /\ UNCHANGED <<pc, claim, svc, todo>>
        /\ api' = [api EXCEPT ![a] = NoCall]
    BY DEF Write, boot
  <2>2. svc = "up" /\ todo = {} /\ status[j] # "absent" /\ j \in Jobs
    BY <2>1 DEF FlipIInv, ServiceInv, RowInv, TypeOK, CallsOK
  <2>3. \A b \in Apis : IF b = a THEN api'[b].at = "idle" ELSE api'[b] = api[b]
    BY <2>1, NoCallTyped DEF FlipIInv, TypeOK, CallsOK
  <2>4. \/ UNCHANGED <<status, ack>>
        \/ SetStatus(j, "pending") /\ ack' = [ack EXCEPT ![j] = "none"]
        \/ \E s \in Flipped : /\ SetStatus(j, s)
                             /\ ack' = [ack EXCEPT ![j] = IF PastReread(j) THEN "late" ELSE "flipped"]
    BY DEF Write, StopStatus, Flipped
  <2>5. \A k \in Jobs : /\ k # j => status'[k] = status[k] /\ ack'[k] = ack[k]
                        /\ status'[k] = "absent" <=> status[k] = "absent"
    BY <2>2, <2>4, WritesOne DEF FlipIInv, Flipped, TypeOK, CallsOK
  <2>6. ack'[j] = "flipped" => /\ status'[j] \in Flipped
                               /\ claim[Worker] = j => pc[Worker] \in Turning
    <3>1. CASE UNCHANGED <<status, ack>>
      BY <2>2, <3>1 DEF FlipIInv, FlipInv
    <3>2. CASE SetStatus(j, "pending") /\ ack' = [ack EXCEPT ![j] = "none"]
      BY <2>2, <3>2 DEF FlipIInv, TypeOK, CallsOK
    <3>3. ASSUME NEW s \in Flipped, SetStatus(j, s),
                 ack' = [ack EXCEPT ![j] = IF PastReread(j) THEN "late" ELSE "flipped"]
          PROVE  ack'[j] = "flipped" => /\ status'[j] \in Flipped
                                        /\ claim[Worker] = j => pc[Worker] \in Turning
      <4>1. status'[j] = s
        BY <2>2, <3>3, WritesOne DEF FlipIInv
      <4>2. ack'[j] = IF PastReread(j) THEN "late" ELSE "flipped"
        BY <2>2, <3>3 DEF FlipIInv, TypeOK, CallsOK
      <4> QED BY <4>1, <4>2 DEF PastReread, Turning
    <3> QED BY <2>4, <3>1, <3>2, <3>3
  <2>7. ServiceInv'
    BY <2>1, <2>2 DEF ServiceInv
  <2>8. RowInv'
    <3>1. \A k \in Jobs : status'[k] = "absent" => ack'[k] = "none"
      BY <2>2, <2>5 DEF FlipIInv, RowInv
    <3>2. \A b \in Apis : api'[b].at # "idle" => status'[api'[b].job] # "absent"
      BY <2>3, <2>5 DEF FlipIInv, RowInv, TypeOK, CallsOK
    <3> QED BY <2>1, <2>5, <3>1, <3>2 DEF FlipIInv, RowInv
  <2>9. FlipInv'
    BY <2>1, <2>5, <2>6 DEF FlipIInv, FlipInv
  <2> QED BY <2>7, <2>8, <2>9
<1>8. CASE Start \/ RecoverDone
  <2>1. /\ UNCHANGED <<status, pc, claim, todo, api, ack>> /\ todo = {}
        /\ svc \in {"down", "recovering"}
    BY <1>8 DEF Start, RecoverDone, rows, FlipIInv, ServiceInv
  <2> QED BY <2>1 DEF FlipIInv, ServiceInv, RowInv, FlipInv
<1>9. CASE RecoverRead
  <2>1. UNCHANGED <<status, pc, claim, svc, api, ack>> /\ svc = "recovering"
    BY <1>9 DEF RecoverRead, rows
  <2>2. \A j \in todo' : status[j] \in {"running", "stalled", "scanning"}
    BY <1>9 DEF RecoverRead, Swept, FlipIInv, TypeOK, ServiceOK
  <2> QED BY <2>1, <2>2 DEF FlipIInv, ServiceInv, RowInv, FlipInv, Flipped
<1>10. CASE \E j \in Jobs : RecoverJob(j)
  <2> PICK j \in Jobs : RecoverJob(j)
    BY <1>10
  <2>1. /\ UNCHANGED <<pc, claim, svc, api, ack>> /\ todo' = todo \ {j} /\ j \in todo
        /\ SetStatus(j, IF AutoResume THEN "pending" ELSE "paused")
    BY DEF RecoverJob
  <2>2. svc = "recovering" /\ pc[Worker] = "idle" /\ status[j] \notin {"absent"} \cup Flipped
    BY <2>1 DEF FlipIInv, ServiceInv
  <2>3. \A k \in Jobs : /\ k # j => status'[k] = status[k]
                        /\ status'[k] = "absent" <=> status[k] = "absent"
    BY <2>1, <2>2, WritesOne DEF FlipIInv
  <2>4. ack[j] # "flipped"
    BY <2>2 DEF FlipIInv, FlipInv
  <2>5. ServiceInv'
    BY <2>1, <2>2, <2>3 DEF FlipIInv, ServiceInv, TypeOK, ServiceOK
  <2>6. RowInv'
    BY <2>1, <2>2, <2>3 DEF FlipIInv, RowInv, TypeOK, CallsOK
  <2>7. FlipInv'
    BY <2>1, <2>3, <2>4 DEF FlipIInv, FlipInv
  <2> QED BY <2>5, <2>6, <2>7
<1>11. CASE Exit \/ Crash
  <2>1. /\ svc' = "down" /\ todo' = {} /\ pc'[Worker] = "idle" /\ claim'[Worker] = NoJob
        /\ UNCHANGED status /\ api' = [a \in Apis |-> NoCall]
        /\ \A j \in Jobs : ack'[j] = IF ack[j] = "asked" THEN "none" ELSE ack[j]
    BY <1>11 DEF Exit, Crash, GoDown, rows, Runners, FlipIInv, TypeOK, RunnersOK
  <2>2. NoJob \notin Jobs
    BY JobsAssumption DEF NoJob
  <2>3. ServiceInv'
    BY <2>1, NoCallTyped DEF ServiceInv
  <2>4. RowInv'
    BY <2>1, NoCallTyped DEF FlipIInv, RowInv
  <2>5. FlipInv'
    BY <2>1, <2>2 DEF FlipIInv, FlipInv
  <2> QED BY <2>3, <2>4, <2>5
<1> QED
  BY <1>1, <1>3, <1>4, <1>5, <1>6, <1>7, <1>8, <1>9, <1>10, <1>11 DEF Next, Handler, Recovery

LEMMA FlipInit == Init => FlipIInv
<1> SUFFICES ASSUME Init PROVE FlipIInv
  OBVIOUS
<1>1. ServiceInv /\ RowInv /\ FlipInv
  BY NoCallTyped DEF Init, ServiceInv, RowInv, FlipInv, Runners
<1> QED BY <1>1, InitTyped DEF FlipIInv

LEMMA FlipNext ==
  ASSUME Clis = {}, FlipIInv, [Next]_vars
  PROVE  FlipIInv'
  BY FlipStep, RowsStep, RunnersStep, ControllerStep, ServiceStep, CallsStep
  DEF FlipIInv, TypeOK

\* The rows that a step marks scanning or running: the worker's own.
LEMMA BusyWrites ==
  ASSUME Clis = {}, TypeOK, [Next]_vars, NEW j \in Jobs, status'[j] # status[j],
         status'[j] \in {"scanning", "running"}
  PROVE  claim[Worker] = j /\ pc[Worker] \in {"scan", "start"}
<1> DEFINE Own == claim[Worker] = j /\ pc[Worker] \in {"scan", "start"}
<1>1. ASSUME UNCHANGED status PROVE Own
  BY <1>1
<1>2. ASSUME NEW k, NEW s, SetStatus(k, s), s \notin {"scanning", "running"} PROVE Own
  BY <1>2, WritesOne
<1>3. CASE ScanStart(Worker) \/ StartRun(Worker)
  BY <1>3, WritesOne, GotoMoves DEF ScanStart, StartRun
<1>4. CASE \E o \in Outcomes : EndRun(Worker, o)
  BY <1>4, <1>1, <1>2 DEF EndRun, Outcomes
<1>5. CASE \/ PauseUnprofiled \/ Contended \/ RecordFailure \/ Stall \/ Unstall \/ ScanFinish(Worker)
           \/ ApplyIntent
  BY <1>5, <1>2 DEF PauseUnprofiled, Contended, RecordFailure, Stall, Unstall, ScanFinish,
       ApplyIntent, StopStatus
<1>6. CASE \/ \E k \in Jobs : Pick(k)
           \/ JobStarted \/ Check \/ Ready \/ ProbeNetwork \/ StallExit \/ ProbeAnswers \/ Report
           \/ ScanFail(Worker) \/ TakeLock(Worker) \/ LockRefused(Worker) \/ ReleaseLock(Worker)
           \/ ScanBatch(Worker) \/ JobFinished \/ ReadForIntent \/ DbError
  BY <1>6, <1>1 DEF Pick, JobStarted, Check, Ready, ProbeNetwork, StallExit, ProbeAnswers, Report,
       ScanFail, TakeLock, LockRefused, ReleaseLock, ScanBatch, JobFinished, ReadForIntent,
       DbError, rows
<1>7. CASE \/ \E a \in Apis : Write(a)
           \/ \E k \in Jobs : RecoverJob(k)
           \/ \E d \in Dests, k \in Jobs : Submit(d, k)
  BY <1>7, <1>1, <1>2 DEF Write, RecoverJob, Submit, CreateJob, StopStatus
<1>8. CASE \/ \E a \in Apis : (\E op \in Ops, k \in Jobs : Call(a, op, k)) \/ Request(a)
           \/ \E k \in Jobs : TimePasses(k) \/ Unarchive(k)
           \/ Start \/ RecoverRead \/ RecoverDone \/ StopService \/ Exit \/ Crash \/ vars' = vars
  BY <1>8, <1>1 DEF Call, Request, TimePasses, Unarchive, Start, RecoverRead, RecoverDone,
       StopService, Exit, Crash, GoDown, vars, rows
<1> QED
  BY <1>3, <1>4, <1>5, <1>6, <1>7, <1>8 DEF Next, WorkerStep, Run, Handler, Recovery

\* Without terminals a pause or cancel that reached the row before the worker's
\* re-read wins, also over failing statements, crashes and recovery: the row's job
\* goes into no scan and no run (worker.py, the comment at the top of _handle).
THEOREM FlipWins == ASSUME Clis = {} PROVE Spec => FlipBeforeRereadWins
<1>1. FlipIInv /\ [Next]_vars => FlipIInv'
  BY FlipNext
<1>2. FlipIInv /\ [Next]_vars =>
        [\A j \in Jobs : ack[j] = "flipped" /\ status'[j] # status[j]
                            => status'[j] \notin {"scanning", "running"}]_vars
  BY BusyWrites DEF FlipIInv, FlipInv, Turning
<1> QED BY FlipInit, <1>1, <1>2, PTL DEF Spec, FlipBeforeRereadWins

---------------------------------------------------------------------------
(* Stops asked of the controller. Until the worker has taken the intent and *)
(* written it to the row, it does not let go of the job but where the row    *)
(* says itself that there is nothing to run.                                 *)

AskInv ==
  /\ active # NoJob => active = claim[Worker] /\ pc[Worker] \notin Apart
  /\ svc # "up" => \A j \in Jobs : ack[j] # "asked"
  /\ \A j \in Jobs : ack[j] = "applied" => status[j] \in Flipped /\ claim[Worker] # j
  /\ \A j \in Jobs : ack[j] = "asked" =>
       \/ active = j /\ intent # "none"
       \/ claim[Worker] = j /\ pc[Worker] \in {"apply", "applying"}
       \/ claim[Worker] # j /\ status[j] # "pending"
AskIInv == FlipIInv /\ AskInv

\* A step of the worker within its claim.
LEMMA AskMove ==
  ASSUME AskIInv, NEW from, NEW to, Goto(Worker, from, to), from # "idle",
         \/ from \notin Apart /\ to \notin Apart
         \/ from = "no profile" /\ to = "picked",
         UNCHANGED <<claim, active, intent, svc, ack>>,
         UNCHANGED status \/ \E s : SetStatus(claim[Worker], s)
  PROVE  AskInv'
<1>1. pc[Worker] = from /\ pc'[Worker] = to
  BY GotoMoves DEF AskIInv, FlipIInv
<1>2. \A k \in Jobs : k # claim[Worker] => status'[k] = status[k]
  BY WritesOne DEF AskIInv, FlipIInv
<1> QED BY <1>1, <1>2 DEF AskIInv, AskInv, Apart

LEMMA AskWorkerStep ==
  ASSUME AskIInv, WorkerStep \/ ProbeAnswers
  PROVE  AskInv'
<1> USE DEF ctl, boot
<1>1. CASE \E j \in Jobs : Pick(j)
  <2> PICK j \in Jobs : Pick(j)
    BY <1>1
  <2>1. /\ pc[Worker] = "idle" /\ claim'[Worker] = j /\ status[j] = "pending"
        /\ UNCHANGED <<status, active, intent, svc, ack>>
    BY DEF Pick, Goto, NextEligible, Eligible, rows, AskIInv, FlipIInv, TypeOK, RunnersOK, Runners
  <2>2. claim[Worker] = NoJob /\ NoJob \notin Jobs /\ active = NoJob
    BY <2>1, JobsAssumption DEF AskIInv, AskInv, FlipIInv, RowInv, Apart, NoJob
  <2>3. ack[j] \notin {"asked", "applied"}
    BY <2>1, <2>2 DEF AskIInv, AskInv, Flipped
  <2> QED BY <2>1, <2>2, <2>3 DEF AskIInv, AskInv
<1>2. CASE JobStarted
  <2>1. /\ pc[Worker] = "picked" /\ pc'[Worker] = "check" /\ active' = claim[Worker]
        /\ UNCHANGED <<status, claim, svc, ack>>
    BY <1>2, GotoMoves DEF JobStarted, rows, AskIInv, FlipIInv
  <2>2. active = NoJob /\ NoJob \notin Jobs
    BY <2>1, JobsAssumption DEF AskIInv, AskInv, Apart, NoJob
  <2> QED BY <2>1, <2>2 DEF AskIInv, AskInv, Apart
<1>3. CASE \/ Check \/ Ready \/ ProbeNetwork \/ StallExit \/ ProbeAnswers \/ Report
           \/ \E p \in {Worker} : ScanFail(p) \/ TakeLock(p) \/ LockRefused(p)
  <2>1. UNCHANGED <<status, claim, active, intent, svc, ack>>
    BY <1>3 DEF Check, Ready, ProbeNetwork, StallExit, ProbeAnswers, Report,
         ScanFail, TakeLock, LockRefused, Leave, rows
  <2>2. PICK from \in {"check", "ready", "probe", "stalled", "report", "scanning", "lock"},
             to \in {"check", "finish", "scan", "ready", "fail", "lock", "stall", "report",
                     "unstall", "start", "contended"} :
                Goto(Worker, from, to)
    BY <1>3 DEF Check, Ready, ProbeNetwork, StallExit, ProbeAnswers, Report,
         ScanFail, TakeLock, LockRefused, Leave
  <2> QED BY <2>1, <2>2, AskMove DEF Apart
<1>4. CASE ReleaseLock(Worker)
  <2>1. PICK o \in Outcomes :
          Goto(Worker, o, AfterRun[o]) /\ UNCHANGED <<status, claim, active, intent, svc, ack>>
    BY <1>4 DEF ReleaseLock, Leave, rows
  <2>2. AfterRun[o] \notin Apart /\ o \notin Apart /\ o # "idle"
    BY DEF AfterRun, Outcomes, Apart
  <2> QED BY <2>1, <2>2, AskMove
<1>5. CASE \/ PauseUnprofiled \/ Contended \/ RecordFailure \/ Stall \/ Unstall
           \/ \E p \in {Worker} : ScanStart(p) \/ ScanFinish(p) \/ StartRun(p)
  <2>1. UNCHANGED <<claim, active, intent, svc, ack>>
    BY <1>5 DEF PauseUnprofiled, Contended, RecordFailure, Stall, Unstall, ScanStart,
         ScanFinish, StartRun
  <2>2. PICK from \in {"no profile", "contended", "fail", "stall", "unstall", "scan", "scanning", "start"},
             to \in {"picked", "finish", "stalled", "scanning", "ready", "running"},
             s \in Statuses : /\ Goto(Worker, from, to) /\ SetStatus(claim[Worker], s)
                              /\ from = "no profile" <=> to = "picked"
    BY <1>5 DEF PauseUnprofiled, Contended, RecordFailure, Stall, Unstall, ScanStart,
         ScanFinish, StartRun, Statuses
  <2> QED BY <2>1, <2>2, AskMove DEF Apart
<1>6. CASE \E o \in Outcomes : EndRun(Worker, o)
  <2> PICK o \in Outcomes : EndRun(Worker, o)
    BY <1>6
  <2>1. Goto(Worker, "running", o) /\ UNCHANGED <<claim, active, intent, svc, ack>>
    BY DEF EndRun
  <2>2. UNCHANGED status \/ \E s : SetStatus(claim[Worker], s)
    BY DEF EndRun, Outcomes
  <2> QED BY <2>1, <2>2, AskMove DEF Outcomes, Apart
<1>7. CASE ScanBatch(Worker)
  BY <1>7 DEF ScanBatch, AskIInv, AskInv
<1>8. CASE JobFinished
  <2>1. UNCHANGED <<status, svc, ack>> /\ active' = NoJob
    BY <1>8 DEF JobFinished, rows
  <2>2. CASE intent = "none"
    <3>1. pc[Worker] = "finish" /\ claim'[Worker] = NoJob
      BY <1>8, <2>2, DropsClaim DEF JobFinished, AskIInv, FlipIInv
    <3>2. NoJob \notin Jobs
      BY JobsAssumption DEF NoJob
    <3> QED BY <2>1, <2>2, <3>1, <3>2 DEF AskIInv, AskInv
  <2>3. CASE intent # "none"
    <3>1. pc[Worker] = "finish" /\ pc'[Worker] = "apply" /\ claim' = claim
      BY <1>8, <2>3, GotoMoves DEF JobFinished, AskIInv, FlipIInv
    <3>2. NoJob \notin Jobs
      BY JobsAssumption DEF NoJob
    <3> QED BY <2>1, <3>1, <3>2 DEF AskIInv, AskInv
  <2> QED BY <2>2, <2>3
<1>9. CASE ReadForIntent
  <2>1. UNCHANGED <<status, active, intent, svc, ack>>
    BY <1>9 DEF ReadForIntent, rows
  <2>2. pc[Worker] = "apply" /\ active = NoJob /\ NoJob \notin Jobs
    BY <1>9, JobsAssumption DEF ReadForIntent, AskIInv, AskInv, Apart, NoJob
  <2>3. CASE IntentApplies(claim[Worker])
    <3>1. pc'[Worker] = "applying" /\ claim' = claim
      BY <1>9, <2>3, GotoMoves DEF ReadForIntent, AskIInv, FlipIInv
    <3> QED BY <2>1, <2>2, <3>1 DEF AskIInv, AskInv
  <2>4. CASE ~IntentApplies(claim[Worker])
    <3>1. claim'[Worker] = NoJob /\ status[claim[Worker]] # "pending"
      BY <1>9, <2>4, DropsClaim DEF ReadForIntent, IntentApplies, AskIInv, FlipIInv
    <3> QED BY <2>1, <2>2, <3>1 DEF AskIInv, AskInv
  <2> QED BY <2>3, <2>4
<1>10. CASE ApplyIntent
  <2>1. /\ pc[Worker] = "applying" /\ claim'[Worker] = NoJob
        /\ UNCHANGED <<active, intent, svc>>
    BY <1>10, DropsClaim DEF ApplyIntent, AskIInv, FlipIInv
  <2>2. active = NoJob /\ NoJob \notin Jobs /\ claim[Worker] \in Jobs
    BY <2>1, JobsAssumption DEF AskIInv, AskInv, FlipIInv, RowInv, Apart, NoJob
  <2>3. \A k \in Jobs : status'[k] = IF k = claim[Worker] THEN StopStatus(taken) ELSE status[k]
    BY <1>10, WritesOne DEF ApplyIntent, AskIInv, FlipIInv
  <2>4. \A k \in Jobs :
          ack'[k] = IF k = claim[Worker] /\ ack[k] = "asked" THEN "applied" ELSE ack[k]
    BY <1>10, <2>2 DEF ApplyIntent, AskIInv, FlipIInv, TypeOK, CallsOK
  <2>5. StopStatus(taken) \in Flipped
    BY DEF StopStatus, Flipped
  <2> QED BY <2>1, <2>2, <2>3, <2>4, <2>5 DEF AskIInv, AskInv
<1> QED
  BY <1>1, <1>2, <1>3, <1>4, <1>5, <1>6, <1>7, <1>8, <1>9, <1>10 DEF WorkerStep, Run

LEMMA AskStep ==
  ASSUME Clis = {}, ~Faults, AskIInv, [Next]_vars
  PROVE  AskInv'
<1> USE DEF ctl, boot
<1>1. CASE WorkerStep \/ ProbeAnswers
  BY <1>1, AskWorkerStep
<1>2. CASE UNCHANGED <<status, pc, claim, active, intent, svc, ack>>
  BY <1>2 DEF AskIInv, AskInv
<1>3. CASE \/ \E a \in Apis, op \in Ops, j \in Jobs : Call(a, op, j)
           \/ \E j \in Jobs : TimePasses(j) \/ Unarchive(j)
           \/ RecoverRead \/ StopService \/ vars' = vars
  BY <1>3, <1>2 DEF Call, TimePasses, Unarchive, RecoverRead, StopService, vars, rows
<1>4. CASE \E d \in Dests, j \in Jobs : Submit(d, j)
  <2> PICK d \in Dests, j \in Jobs : Submit(d, j)
    BY <1>4
  <2>1. /\ status[j] = "absent" /\ SetStatus(j, "pending")
        /\ UNCHANGED <<pc, claim, active, intent, svc, ack>>
    BY DEF Submit, CreateJob
  <2>2. \A k \in Jobs : k # j => status'[k] = status[k]
    BY <2>1, WritesOne DEF AskIInv, FlipIInv
  <2>3. ack[j] = "none"
    BY <2>1 DEF AskIInv, FlipIInv, RowInv
  <2> QED BY <2>1, <2>2, <2>3 DEF AskIInv, AskInv
<1>5. CASE \E a \in Apis : Request(a)
  <2> PICK a \in Apis : Request(a)
    BY <1>5
  <2> DEFINE j == api[a].job
  <2>1. /\ api[a].at = "request" /\ UNCHANGED <<status, pc, claim, active, svc>>
        /\ \/ UNCHANGED <<intent, ack>>
           \/ active = j /\ intent' = api[a].op /\ ack' = [ack EXCEPT ![j] = "asked"]
    BY DEF Request, IsActive, rows
  <2>2. svc = "up" /\ j \in Jobs /\ api[a].op # "none"
    BY <2>1 DEF AskIInv, FlipIInv, ServiceInv, TypeOK, CallsOK, Ops
  <2>3. CASE active = j /\ intent' = api[a].op /\ ack' = [ack EXCEPT ![j] = "asked"]
    <3>1. \A k \in Jobs : ack'[k] = IF k = j THEN "asked" ELSE ack[k]
      BY <2>2, <2>3 DEF AskIInv, FlipIInv, TypeOK, CallsOK
    <3> QED BY <2>1, <2>2, <2>3, <3>1 DEF AskIInv, AskInv
  <2> QED BY <2>1, <2>3, <1>2
<1>6. CASE \E a \in Apis : Write(a)
  <2> PICK a \in Apis : Write(a)
    BY <1>6
  <2> DEFINE j == api[a].job
  <2>1. /\ api[a].at = "write" /\ UNCHANGED <<pc, claim, active, intent, svc>>
        /\ \/ UNCHANGED <<status, ack>>
           \/ \E s, t : /\ SetStatus(j, s) /\ ack' = [ack EXCEPT ![j] = t]
                        /\ t \in {"none", "late", "flipped"}
    BY DEF Write
  <2>2. svc = "up" /\ j \in Jobs
    BY <2>1 DEF AskIInv, FlipIInv, ServiceInv, TypeOK, CallsOK
  <2>3. CASE \E s, t : /\ SetStatus(j, s) /\ ack' = [ack EXCEPT ![j] = t]
                       /\ t \in {"none", "late", "flipped"}
    <3>1. /\ \A k \in Jobs : k # j => status'[k] = status[k] /\ ack'[k] = ack[k]
          /\ ack'[j] \in {"none", "late", "flipped"}
      BY <2>2, <2>3, WritesOne DEF AskIInv, FlipIInv, TypeOK, CallsOK
    <3> QED BY <2>1, <2>2, <3>1 DEF AskIInv, AskInv
  <2> QED BY <2>1, <2>3, <1>2
<1>7. CASE Start \/ RecoverDone
  <2>1. UNCHANGED <<status, pc, claim, active, intent, ack>> /\ svc # "up"
    BY <1>7 DEF Start, RecoverDone, rows
  <2> QED BY <2>1 DEF AskIInv, AskInv
<1>8. CASE \E j \in Jobs : RecoverJob(j)
  <2> PICK j \in Jobs : RecoverJob(j)
    BY <1>8
  <2>1. /\ UNCHANGED <<pc, claim, active, intent, svc, ack>> /\ j \in todo
        /\ SetStatus(j, IF AutoResume THEN "pending" ELSE "paused")
    BY DEF RecoverJob
  <2>2. svc # "up" /\ status[j] \notin Flipped
    BY <2>1 DEF AskIInv, FlipIInv, ServiceInv
  <2>3. \A k \in Jobs : k # j => status'[k] = status[k]
    BY <2>1, WritesOne DEF AskIInv, FlipIInv
  <2>4. ack[j] # "applied" /\ \A k \in Jobs : ack[k] # "asked"
    BY <2>2 DEF AskIInv, AskInv
  <2> QED BY <2>1, <2>3, <2>4 DEF AskIInv, AskInv
<1>9. CASE Exit \/ Crash
  <2>1. /\ svc' = "down" /\ claim'[Worker] = NoJob /\ active' = NoJob /\ UNCHANGED status
        /\ \A j \in Jobs : ack'[j] = IF ack[j] = "asked" THEN "none" ELSE ack[j]
    BY <1>9 DEF Exit, Crash, GoDown, rows, Runners, AskIInv, FlipIInv, TypeOK, RunnersOK
  <2>2. NoJob \notin Jobs
    BY JobsAssumption DEF NoJob
  <2> QED BY <2>1, <2>2 DEF AskIInv, AskInv
<1>10. ~DbError
  BY DEF DbError
<1> QED
  BY <1>1, <1>3, <1>4, <1>5, <1>6, <1>7, <1>8, <1>9, <1>10 DEF Next, Handler, Recovery

\* The worker takes up a job by picking it, and no other way.
LEMMA ClaimStep ==
  ASSUME Clis = {}, TypeOK, [Next]_vars, NEW j \in Jobs, claim[Worker] # j, claim'[Worker] = j
  PROVE  pc[Worker] = "idle" /\ status[j] = "pending"
<1> DEFINE Picks == pc[Worker] = "idle" /\ status[j] = "pending"
<1>1. NoJob \notin Jobs
  BY JobsAssumption DEF NoJob
<1>2. CASE \E k \in Jobs : Pick(k)
  BY <1>2, GotoMoves DEF Pick, Goto, NextEligible, Eligible, TypeOK, RunnersOK, Runners
<1>3. ASSUME NEW from, LetGo(from) PROVE Picks
  BY <1>1, <1>3, DropsClaim
<1>4. CASE UNCHANGED claim
  BY <1>4
<1>5. CASE JobFinished \/ ReadForIntent \/ ApplyIntent \/ DbError
  BY <1>5, <1>3, <1>4 DEF JobFinished, ReadForIntent, ApplyIntent, DbError
<1>6. CASE Exit \/ Crash
  BY <1>6, <1>1 DEF Exit, Crash, GoDown, TypeOK, RunnersOK, Runners
<1>7. CASE Run(Worker)
  BY <1>7, <1>4 DEF Run, ScanStart, ScanBatch, ScanFinish, ScanFail, TakeLock, LockRefused,
       StartRun, EndRun, ReleaseLock, Leave
<1>8. CASE \/ PauseUnprofiled \/ JobStarted \/ Check \/ Ready \/ Contended \/ RecordFailure
           \/ ProbeNetwork \/ Report \/ Stall \/ StallExit \/ Unstall \/ ProbeAnswers
  BY <1>8, <1>4 DEF PauseUnprofiled, JobStarted, Check, Ready, Contended, RecordFailure,
       ProbeNetwork, Report, Stall, StallExit, Unstall, ProbeAnswers
<1>9. CASE \/ \E a \in Apis : Handler(a)
           \/ \E d \in Dests, k \in Jobs : Submit(d, k)
           \/ \E k \in Jobs : TimePasses(k) \/ Unarchive(k)
           \/ Start \/ Recovery \/ StopService \/ vars' = vars
  BY <1>9, <1>4 DEF Handler, Call, Request, Write, Submit, TimePasses, Unarchive, Start, Recovery,
       RecoverRead, RecoverJob, RecoverDone, StopService, vars
<1> QED
  BY <1>2, <1>5, <1>6, <1>7, <1>8, <1>9 DEF Next, WorkerStep

\* Without terminals and failing statements an accepted stop holds: the worker does
\* not pick the job up again until its user resumes it, or the service dies before
\* the stop reached the row (JobController.request, job_finished, _apply_intent).
THEOREM StopHolds == ASSUME Clis = {}, ~Faults PROVE Spec => AcceptedStopNeverRepicked
<1>1. Init => AskIInv
  <2>1. Init => AskInv
    BY DEF Init, AskInv, NoJob
  <2> QED BY <2>1, FlipInit DEF AskIInv
<1>2. AskIInv /\ [Next]_vars => AskIInv'
  BY AskStep, FlipNext DEF AskIInv
<1>3. ASSUME AskIInv, [Next]_vars, NEW j \in Jobs,
             ack[j] \in {"asked", "applied", "flipped"}, claim[Worker] # j
      PROVE  claim'[Worker] # j
  <2> SUFFICES ASSUME claim'[Worker] = j PROVE FALSE
    OBVIOUS
  <2>1. pc[Worker] = "idle" /\ status[j] = "pending"
    BY <1>3, ClaimStep DEF AskIInv, FlipIInv
  <2> QED BY <1>3, <2>1 DEF AskIInv, AskInv, FlipIInv, FlipInv, RowInv, Flipped, Apart
<1>4. AskIInv /\ [Next]_vars =>
        [\A j \in Jobs : ack[j] \in {"asked", "applied", "flipped"} /\ claim[Worker] # j
                            => claim'[Worker] # j]_vars
  BY <1>3
<1> QED BY <1>1, <1>2, <1>4, PTL DEF Spec, AcceptedStopNeverRepicked
=============================================================================
