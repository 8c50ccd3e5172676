SPECIFICATION Spec
CHECK_DEADLOCK FALSE
CONSTANTS
  t1 = t1
  t2 = t2
  t3 = t3
  b1 = b1
  b2 = b2
  NoThread = NoThread
  NoBuf = NoBuf
  Thread = {t1, t2, t3}
  FirstThread = t1
  Buf = {b1, b2}
  MaxSeq = 2
  N = 2
  MaxEventList = 2
  Overwrite = FALSE
  StaleTimeout = TRUE
  NonReliable = FALSE
  MaxRetries = 0
  BodyMayFail = FALSE
SYMMETRY BufSymmetry
INVARIANT ReleasedOnce
INVARIANT DroppedDataInUse
INVARIANT MemoryBooked
