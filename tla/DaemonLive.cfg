SPECIFICATION FairSpec
CONSTANTS
  Pid = {a, b, c}
  Worlds <- LiveWorlds
  None = None
  Dead = Dead
CHECK_DEADLOCK FALSE
PROPERTY CommandsEnd
