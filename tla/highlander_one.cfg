SPECIFICATION Spec
CONSTANTS
  Procs = {p1, p2, p3}
  Dirs = {d1, d2}
  None = None
  MayFail = FALSE
  MaxRemovals = 0
CHECK_DEADLOCK FALSE
INVARIANTS
  OneMonitorPerNode
