SPECIFICATION FairSpec
CONSTANTS
  Proc = {p1, p2}
  MaxCalls = 2
  MaxMisses = 1
  StaleAge = 1
  Deadline = 0
  Crashes = TRUE
  Timely = FALSE
  Free = Free
  Orphan = Orphan
CHECK_DEADLOCK FALSE
INVARIANTS TypeOK SafeUnlessStolen
PROPERTIES StoreSteps CallsReturn
