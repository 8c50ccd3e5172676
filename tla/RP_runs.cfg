SPECIFICATION FairSpec
CHECK_DEADLOCK FALSE
CONSTANTS
  MaxID = 2
  Increment = 1
  HalfInt = 8
  FID = {f1}
  Depth = 2
  WindowTimeout = FALSE
  MaxRuns = 2
  MaxRequests = 1
  MaxSending = 1
INVARIANT WaitingRequestsOpen
PROPERTY RequestsProceed
