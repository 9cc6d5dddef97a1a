SPECIFICATION FairSpec
CONSTANTS
  None = None
  Duration = 2
  Profile <- MCProfile
  N = 3
  Rates = {4}
  MaxNow = 5
  MaxRequests = 3
INVARIANTS
  TypeOK
  TornPassBounded
  Conservation
  NoEarlyExit
PROPERTIES
  StopHonoured
  ExhaustedEnds
  EventApplied
  ImplementsLoadProfile
CHECK_DEADLOCK FALSE
