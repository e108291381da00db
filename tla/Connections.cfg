\* Two connections of each part; four gestures in the dialogs and three in the
\* form, beside one change made elsewhere or one request that fails; three
\* gestures in the settings, a fault counted as one.
SPECIFICATION MCSpec
CONSTANTS
  m = m
  n = n
  k = k
  l = l
  p = p
  q = q
  Threads = {p, q}
  Names = {"a", "c"}
  Found <- FoundNames
  MaxCredentials = 2
  MaxJobs = 1
  MaxFaults = 1
  MaxCrashes = 1
  Cards = {m, n}
  NoName = NoName
  MaxSteps = 4
  MaxElsewhere = 1
  MaxUnanswered = 1
  Connections = {k, l}
  NoConnection = NoConnection
  Preferred = l
  MaxInputs = 3
  MaxChanges = 1
  MaxRefused = 1
  MaxProbeFaults = 2
  MaxDialogs = 2
  MaxGestures = 3
  MaxDeadServices = 1
  MaxFailures = 1
  Mib = 1
  Openers = {p, q}
  MaxDeaths = 2
INVARIANTS
  WellTyped
  NothingDangles
  NothingIsHalfDone
  ShownIsTrue
PROPERTIES
  CancelledSendsNothing
  SettingsAreKept
  WhatIsBegunEnds
\* The bounds of gestures and requests are used up.
CHECK_DEADLOCK FALSE
