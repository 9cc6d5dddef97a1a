SPECIFICATION FairSpec
CONSTANTS
  MaxPackets = 5
  Layouts <- MCLayouts
  MainCore = 0
  Rounds = 2
  Slack = 3
  Ring = 3
  BurstSize = 2
  MaxTokens = 3
  MaxTx = 14
INVARIANTS
  TypeOK
  PacketsKept
  WithinTokens
PROPERTIES
  ShutdownCompletes
CHECK_DEADLOCK FALSE
