SPECIFICATION TSpec
CONSTANTS
  None = None
  Duration = 1
  Profile <- MCProfile
  N = 2
  Rates = {4}
  MaxNow = 2
  MaxRequests = 4
  MaxPresses = 4
INVARIANTS
  TTypeOK
  DisplayAhead
PROPERTIES
  SuspendTakesEffect
CHECK_DEADLOCK FALSE
