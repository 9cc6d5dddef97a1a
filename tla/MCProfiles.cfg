SPECIFICATION Spec
CONSTANTS
  None = None
  Profs <- MCProfs
  SEC = 4
  MaxGap = 5
INVARIANTS
  Schedule
  LineFaithful
  EndsWithLongest
CHECK_DEADLOCK FALSE
