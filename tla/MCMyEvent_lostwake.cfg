SPECIFICATION Spec
CONSTANTS
  p1 = p1  p2 = p2  p3 = p3  n1 = n1  n2 = n2  n3 = n3  NULL = NULL
  Procs = {p1, p2}
  Nodes = {n1}
  MaxOpens = 1
  MaxValue = 1
  Ops = {"open", "wait", "signal"}
  CloseTail = FALSE
  UnixSignals = FALSE
  Preemptible = TRUE
INVARIANTS NobodySleepsOnResource
CHECK_DEADLOCK FALSE
