SPECIFICATION Spec
CHECK_DEADLOCK FALSE
CONSTANTS
  t1 = t1
  t2 = t2
  b1 = b1
  NoThread = NoThread
  NoBuf = NoBuf
  Thread = {t1, t2}
  FirstThread = t1
  Buf = {b1}
  MaxSeq = 2
  N = 2
  MaxEventList = 3
  Overwrite = FALSE
  StaleTimeout = FALSE
  NonReliable = TRUE
  MaxRetries = 1
  BodyMayFail = FALSE
INVARIANT StoredOnce
