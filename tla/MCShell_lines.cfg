SPECIFICATION FairSpec
CONSTANTS
  Shell = 0
  Pids = {1, 2, 3}
  Lines <- MCLines
  TOKENSZ = 10
  PipeCap = 2
  OutUnits = 2
  MaxLines = 2
  MaxFd = 6
  MaxPipe = 4
INVARIANTS TypeOK LineLeavesNothing OutputComplete
PROPERTIES LineFinishes
CHECK_DEADLOCK FALSE
