\* An edit while the slices are sent.
SPECIFICATION Spec
CONSTANTS
  Policies <- Sliced
  Audits = {TRUE}
  MaxAttempts = 2
  QuarantineAttempts = 3
  Persistent = FALSE
  MaxSize = 2
  MaxRuns = 2
  MaxEdits = 1
  MaxFaults = 1
  MaxForeign = 0
  MaxCrashes = 1
  MaxStops = 0
INVARIANTS
  NoChimera
CHECK_DEADLOCK FALSE
