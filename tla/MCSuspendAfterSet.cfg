SPECIFICATION Spec
CONSTANTS
  None = None
  Duration = 2
  Profile <- MCProfile
  N = 3
  Rates = {4}
  MaxNow = 5
  MaxRequests = 3
INVARIANT SuspendStopsLoad
CHECK_DEADLOCK FALSE
