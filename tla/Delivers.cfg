\* A job that is resumed until its one file is settled, while only so many
\* requests fail, objects are replaced or files removed, and one run crashes.
SPECIFICATION MCSpec
CONSTANTS
  MaxAttempts = 2
  QuarantineAttempts = 9
  Persistent = TRUE
  Resizes = FALSE
  Values <- TwoValues
  MaxSize = 2
  MaxRuns = 0
  MaxReplaced = 1
  MaxFaults = 1
  MaxRemoved = 1
  MaxCrashes = 1
  MaxStops = 0
PROPERTIES
  FileIsDelivered
  BytesAreTheObjects
\* The file is settled.
CHECK_DEADLOCK FALSE
