SPECIFICATION FairSpec
CHECK_DEADLOCK FALSE
CONSTANTS
  t1 = t1
  t2 = t2
  b1 = b1
  b2 = b2
  NoThread = NoThread
  NoBuf = NoBuf
  Thread = {t1, t2}
  FirstThread = t1
  Buf = {b1, b2}
  MaxSeq = 3
  N = 2
  MaxEventList = 10
  Overwrite = TRUE
  StaleTimeout = FALSE
  NonReliable = FALSE
  MaxRetries = 0
  BodyMayFail = TRUE
INVARIANT BooksMatchMemory
INVARIANT CompleteEventsWhole
INVARIANT OpenEventsRequested
PROPERTY ImplementsEventStore
PROPERTY ReleasedUnlessStuck
