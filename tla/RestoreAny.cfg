SPECIFICATION Spec
CONSTANTS
  Base = {bash}
  Engine = {dockerce, socat}
  Tools = {curl}
  Extra = {cowsay, iptables}
  Needed = {iptables}
  Configs = {good, bad}
  Accepted = {good}
  NoFile = NoFile
  Worlds <- AnyWorld
  MaxEdits = 5
CHECK_DEADLOCK FALSE
INVARIANTS TypeOK KeepsYours
PROPERTIES SparesTheRest CompleteIsClean
