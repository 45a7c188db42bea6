SPECIFICATION Spec
CONSTANTS
  Procs = {p, q}
  NoProc = NoProc
  Orphan = Orphan
  Worlds <- AnyWorld
  MaxCommands = 3
  MaxEdits = 2
CHECK_DEADLOCK FALSE
INVARIANTS TypeOK StaysRepaired
PROPERTIES FixHeals CommandsEnd
