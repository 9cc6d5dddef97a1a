SPECIFICATION Spec
CONSTANTS
  Workers = 1
  Hist <- TwoBuckets
  Bounds <- MCBounds
  Capacity = 1
  MaxWork = 1
  MaxReads = 1
INVARIANTS
  BucketsWithinTotal
CHECK_DEADLOCK FALSE
