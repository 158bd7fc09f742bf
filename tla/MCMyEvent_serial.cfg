SPECIFICATION Spec
CONSTANTS
  p1 = p1  p2 = p2  p3 = p3  n1 = n1  n2 = n2  n3 = n3  NULL = NULL
  Procs = {p1, p2, p3}
  Nodes = {n1, n2, n3}
  MaxOpens = 3
  MaxValue = 1
  Ops = {"open", "find", "wait", "signal", "close"}
  CloseTail = FALSE
  UnixSignals = FALSE
  Preemptible = FALSE
SYMMETRY Symmetry
INVARIANTS TypeOK ListSound UnitsAccountedFor
PROPERTIES ImplementsSemaphores
CHECK_DEADLOCK FALSE
