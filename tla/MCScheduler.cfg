SPECIFICATION FairSpec
CONSTANTS
  v = v
  w = w
  Visitors = {v}
  Workers = {w}
  Procs = {p1, p2}
  Dispatchers = {d1}
  Prio <- MCOnePrio
  MaxPrio = 1
  MaxRoutines = 1
  MaxMsgs = 1
  MaxNotify = 1
  NONE = NONE
CHECK_DEADLOCK FALSE
PROPERTIES Processed ShutdownEnds
INVARIANTS RunsAlone RemovedIsQuiet NoLostWakeup
