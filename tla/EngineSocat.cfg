SPECIFICATION Spec
CONSTANTS
  Procs = {p}
  NoProc = NoProc
  Orphan = Orphan
  Worlds <- CalmWorld
  MaxCommands = 1
  MaxEdits = 3
CHECK_DEADLOCK FALSE
PROPERTY FixRestoresPackages
