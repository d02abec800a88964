SPECIFICATION FairSpec
CONSTANTS
  clSize = 3
  Spare = 1
  Entries = 3
  BatchSize = 2
  requestSize = 2
  durationTime = 1
  MaxClock = 1
  MaxCount = 5
  MaxFailures = 3
INVARIANTS PoolExact OneOpPerSocket NeverLacking
PROPERTIES TestEnds
CHECK_DEADLOCK FALSE
