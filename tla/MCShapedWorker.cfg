SPECIFICATION FairSpec
CONSTANTS
  TicksPerSec = 2
  Limits = {0, 1, 3}
  Cap = 2
  MaxNow = 5
INVARIANTS
  TypeOK
  BucketBounded
  Ledger
  RateBound
PROPERTY
  StopEnds
CHECK_DEADLOCK FALSE
