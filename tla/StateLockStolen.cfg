SPECIFICATION Spec
CONSTANTS
  Proc = {p1, p2, p3}
  MaxCalls = 1
  MaxMisses = 0
  StaleAge = 2
  Deadline = 1
  Crashes = TRUE
  Timely = TRUE
  Free = Free
  Orphan = Orphan
CHECK_DEADLOCK FALSE
SYMMETRY ProcSymmetry
INVARIANT NoLostUpdate
