\* One follower, a command or a window, over an outage, a crash and a watch begun
\* again; or a table of two files in pages of one, with a retry, a failed
\* fetch and a gesture.
SPECIFICATION MCSpec
CONSTANTS
  Watchers = {w}
  MaxInbox = 2
  MaxOutages = 1
  MaxCrashes = 1
  MaxRestarts = 1
  PageSize = 1
  Filters = {"failed", "all"}
  MaxFiles = 2
  MaxRetries = 1
  MaxFailures = 1
  MaxGestures = 1
  MaxTold = 1
INVARIANTS
  WellTyped
  TableIsTrue
PROPERTIES
  StreamTellsAll
  NobodyWaitsForEver
\* The job is settled.
CHECK_DEADLOCK FALSE
