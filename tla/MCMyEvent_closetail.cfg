SPECIFICATION Spec
CONSTANTS
  p1 = p1  p2 = p2  p3 = p3  n1 = n1  n2 = n2  n3 = n3  NULL = NULL
  Procs = {p1, p2}
  Nodes = {n1, n2}
  MaxOpens = 2
  MaxValue = 1
  Ops = {"open", "find", "close"}
  CloseTail = TRUE
  UnixSignals = FALSE
  Preemptible = FALSE
INVARIANTS NoFreedDereference
CHECK_DEADLOCK FALSE
