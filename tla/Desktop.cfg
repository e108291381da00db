\* Two gestures of the user; a job of the filter's connection and one of another.
SPECIFICATION MCSpec
CONSTANTS
  a = a
  b = b
  NoJob = NoJob
  Jobs = {a, b}
  OfProfile = {b}
  MaxGestures = 2
  MaxMoves = 2
  MaxOutages = 1
INVARIANTS
  TypeOK
  WatchIsTheSelections
PROPERTIES
  RailCatchesUp
  SelectionIsTheUsers
