SPECIFICATION FairSpec
CONSTANTS
  v = v
  w = w
  Visitors = {}
  Workers = {w}
  Procs = {p1}
  Dispatchers = {d1}
  Prio <- MCPrio
  MaxPrio = 2
  MaxRoutines = 1
  MaxMsgs = 1
  MaxNotify = 1
  NONE = NONE

CHECK_DEADLOCK FALSE
PROPERTIES TaskRuns
