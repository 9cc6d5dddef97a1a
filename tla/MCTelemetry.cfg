SPECIFICATION FairSpec
CONSTANTS
  Workers = 2
  Hist <- OneBucket
  Bounds <- MCBounds
  Capacity = 1
  MaxWork = 2
  MaxReads = 2
INVARIANTS
  TypeOK
  SnapshotBracketed
  LatenciesCover
PROPERTIES
  NothingGoesBack
  Delivered
CHECK_DEADLOCK FALSE
