\* A crash, a failed request and an object that is replaced, in two runs.
SPECIFICATION Spec
CONSTANTS
  MaxAttempts = 2
  QuarantineAttempts = 9
  Persistent = FALSE
  Resizes = TRUE
  Values <- TwoValues
  MaxSize = 2
  MaxRuns = 2
  MaxReplaced = 1
  MaxFaults = 1
  MaxRemoved = 0
  MaxCrashes = 1
  MaxStops = 0
INVARIANTS
  VerifiedIsObject
\* The last run of the bound may be over.
CHECK_DEADLOCK FALSE
