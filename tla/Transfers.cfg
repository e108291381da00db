\* Uploads of an edited source and into a shared bucket, resumed downloads, the
\* loops that cut a file, and the combining of checksums.
SPECIFICATION MCSpec
CONSTANTS
  Sizes <- SmallSizes
  CutPolicies <- SmallPolicies
  RangeSizes <- SmallRanges
  Policies <- AllMethods
  Audits = {FALSE}
  MaxAttempts = 2
  QuarantineAttempts = 3
  Persistent = FALSE
  MaxSize = 2
  MaxRuns = 3
  MaxEdits = 1
  MaxFaults = 1
  MaxForeign = 1
  MaxCrashes = 1
  MaxStops = 1
INVARIANTS
  WellTyped
  SlicesFit
  OnlyTheFile
  CombinedIsWhole
PROPERTIES
  ForeignWriteStays
  WorkIsKept
\* A file is cut or settled, the last run of the bound over.
CHECK_DEADLOCK FALSE
