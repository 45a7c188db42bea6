SPECIFICATION Spec
CONSTANTS
  Procs = {p, q}
  Own = {a, b}
  Pipes = {m, n}
  DefaultPipe = m
  Foreign = Foreign
  NoHost = NoHost
  NoName = NoName
  Torn = Torn
  Worlds <- AnyWorld
  MaxCommands = 5
  MaxFaulty = 3
  MaxEdits = 2
SYMMETRY Symmetry
CHECK_DEADLOCK FALSE
INVARIANTS TypeOK AutostartAgrees
PROPERTIES SwitchesBothWays UninstallLeavesOnlyTheUsers
