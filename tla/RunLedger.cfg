\* One file over three runs: stopped, crashed, edited twice, lost, retried and excluded.
SPECIFICATION Spec
CONSTANTS
  Files <- OneFile
  Nothing = Nothing
  WorkerCounts = {1}
  MaxAttempts = 2
  QuarantineAttempts = 3
  UserActions = TRUE
  Faults = TRUE
  MaxRuns = 3
  MaxEdits = 2
  MaxLosses = 1
INVARIANTS
  TypeOK
  VerdictSettlesFiles
  AllowancePerRun
PROPERTIES
  ExhaustedIsQuarantined
  KeepsPromise
\* The last run of the bound may be over.
CHECK_DEADLOCK FALSE
