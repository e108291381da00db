\* The service and two terminals on the same job, which may be scheduled, cancelled
\* and archived, with failing statements and lock files and a crash.
SPECIFICATION Spec
CONSTANTS
  Jobs <- OneJob
  Dests = {d1}
  Worker = worker
  Apis = {a1}
  Clis = {c1, c2}
  Calls = {"archive", "unarchive", "cancel"}
  Scheduling = TRUE
  AutoResume = TRUE
  Faults = TRUE
  MaxCrashes = 1
SYMMETRY Terminals
INVARIANT OneRunPerJob
\* All jobs may be complete and nobody calls.
CHECK_DEADLOCK FALSE
