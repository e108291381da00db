\* Two files and one or two file workers in one run: one file fails, pauses or
\* is stopped while the other is queued or under way.
SPECIFICATION FairSpec
CONSTANTS
  Files <- TwoFiles
  Nothing = Nothing
  WorkerCounts = {1, 2}
  MaxAttempts = 2
  QuarantineAttempts = 3
  UserActions = FALSE
  Faults = TRUE
  MaxRuns = 1
  MaxEdits = 1
  MaxLosses = 0
PROPERTIES
  RejectionIsNotJudged
  RunEnds
\* The only run may be over.
CHECK_DEADLOCK FALSE
