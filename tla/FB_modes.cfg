SPECIFICATION ModesSpec
CHECK_DEADLOCK FALSE
SYMMETRY FIDSymmetry
CONSTANTS
  MaxID = 3
  Increment = 1
  HalfInt = 8
  FID = {f1, f2}
  Depth = 2
  WindowTimeout = TRUE
  MaxRuns = 1
  MaxTime = 4
  MaxAcquired = 3
  RequestTime <- MCRequestTime
  InvalidTimes = {2}
  WindowWidth = 2
  WindowOffset = 1
  StaleTimeout = 2
INVARIANT ServedNotWaiting
INVARIANT ProgressCounted
INVARIANT AnsweredOnce
INVARIANT WindowWhole
PROPERTY SettledForGood
PROPERTY EachFragmentOnce
PROPERTY RemovedAnswered
