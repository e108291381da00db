\* One job that two request threads cancel and resume, or two jobs in the queue,
\* while the worker claims, scans, runs, stalls and the service restarts once.
SPECIFICATION MCSpec
CONSTANTS
  Jobs <- TwoJobs
  Dests = {d1, d2}
  Worker = worker
  Apis = {a1, a2}
  Clis = {}
  Calls = {"cancel", "resume"}
  Scheduling = TRUE
  AutoResume = TRUE
  Faults = FALSE
  MaxCrashes = 1
INVARIANTS
  TypeOK
  CompleteMeansWholeManifest
  BusyRowHasOwner
PROPERTIES
  WorkerKeepsOutcome
  AcceptedStopNeverRepicked
  FlipBeforeRereadWins
  StopEndsTheClaim
  InterruptedJobReturns
  HeadOfQueueIsServed
\* All jobs may be complete and nobody calls: the worker then only polls.
CHECK_DEADLOCK FALSE
