SPECIFICATION Spec
CONSTANTS
  Nodes = {x}
  Slots <- MCSlots
  max_clients = 1
  max_servers = 0
  ServerFlag = {TRUE, FALSE}
  PollFlag = {TRUE, FALSE}
  checkcfg_flag = TRUE
  NetTimeout = 2
  EobMin = 1
  EobMax = 3
  Faults = {"listen", "accept", "select"}
INVARIANTS CountsExact ConfigsLive EobBeforeTimeout
CONSTRAINT OneWhileReloading
