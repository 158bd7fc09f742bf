SPECIFICATION Spec
CONSTANTS
  Shell = 0
  Pids = {1, 2, 3}
  Lines <- MCBuiltinLines
  TOKENSZ = 10
  PipeCap = 2
  OutUnits = 2
  MaxLines = 2
  MaxFd = 6
  MaxPipe = 4
INVARIANTS PreviousWriteEndClosed
CHECK_DEADLOCK FALSE
