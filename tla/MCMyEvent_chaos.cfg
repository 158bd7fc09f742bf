SPECIFICATION Spec
CONSTANTS
  p1 = p1  p2 = p2  p3 = p3  n1 = n1  n2 = n2  n3 = n3  NULL = NULL
  Procs = {p1, p2}
  Nodes = {n1, n2}
  MaxOpens = 3
  MaxValue = 1
  Ops = {"open", "find", "wait", "signal", "close"}
  CloseTail = TRUE
  UnixSignals = TRUE
  Preemptible = TRUE
SYMMETRY Symmetry
INVARIANTS OnlyLateSleepersAreStranded
CHECK_DEADLOCK FALSE
