SPECIFICATION FairSpec
CONSTANTS
  None = None
  Tasks = {t1, t2}
  Engines = {"http", "raw", "http3", "udp"}
  Budget = 2
  Deviation = 1
  MaxRequests = 4
INVARIANTS
  TypeOK
  Accounting
  BudgetRespected
  CleanReuse
  VerdictHonest
PROPERTIES
  EveryRequestEnds
CHECK_DEADLOCK FALSE
