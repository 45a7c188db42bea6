SPECIFICATION LogSpec
CONSTANTS
  Bridges = {b, c}
  Absent = Absent
  MaxLogLines = 1
  Back = 1
  MaxLines = 7
  MaxServes = 2
  MaxFollows = 1
CHECK_DEADLOCK FALSE
INVARIANTS LogTypeOK KeepsTheNewest CapHolds
PROPERTY FollowsTheLog
