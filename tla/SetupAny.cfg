SPECIFICATION Spec
CONSTANTS
  Procs = {p, q}
  Paths = {c, d}
  NoPath = NoPath
  NoDistro = NoDistro
  Worlds <- AnyWorld
  MaxCommands = 5
  MaxAccidents = 1
SYMMETRY Symmetry
CHECK_DEADLOCK FALSE
INVARIANTS TypeOK InstalledIsEarned RecordMatchesDistro UninstallComplete
