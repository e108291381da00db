\* A terminal resumes a job whose scan was cut short.
SPECIFICATION Spec
CONSTANTS
  Jobs <- OneJob
  Dests = {d1}
  Worker = worker
  Apis = {}
  Clis = {c1}
  Calls = {}
  Scheduling = FALSE
  AutoResume = TRUE
  Faults = FALSE
  MaxCrashes = 0
INVARIANT CompleteMeansWholeManifest
CHECK_DEADLOCK FALSE
