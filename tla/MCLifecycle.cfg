SPECIFICATION Spec
CONSTANTS
  W = 2
  MaxJobs = 2
  MaxBurst = 2
  MaxSent = 3
INVARIANTS
  TypeOK
  CleanExit
PROPERTIES
  HeadlessStopEnds
  QuitEnds
  LoopOverDrains
CHECK_DEADLOCK FALSE
