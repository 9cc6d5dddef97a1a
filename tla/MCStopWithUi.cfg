SPECIFICATION Spec
CONSTANTS
  W = 2
  MaxJobs = 2
  MaxBurst = 2
  MaxSent = 3
PROPERTY
  StopShutsDown
CHECK_DEADLOCK FALSE
