SPECIFICATION FairSpec
CONSTANTS
  Fds = {1, 2}
  SqSize = 2
  MaxConnects = 3
  MaxBytes = 2
  MaxFailures = 1
INVARIANTS OneOpEach NoByteLost
PROPERTIES EveryByteEchoed HungUpIsClosed
CHECK_DEADLOCK FALSE
