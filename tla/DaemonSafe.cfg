SPECIFICATION Spec
CONSTANTS
  Pid = {a, b, c}
  Worlds <- SafeWorlds
  None = None
  Dead = Dead
CHECK_DEADLOCK FALSE
SYMMETRY PidSymmetry
INVARIANTS TypeOK RecordHonest NeverShootsForeign
PROPERTIES ReportsTrue SparesTheLiving
