SPECIFICATION MCSpec
CONSTANTS
  p1 = p1
  p2 = p2
  w1 = w1
  w2 = w2
  r1 = r1
  r2 = r2
  n1 = n1
  n2 = n2
  n3 = n3
  b1 = b1
  b2 = b2
  Proc = {p1, p2}
  Writer = {w1, w2}
  Reader = {r1}
  ProcOf <- MCProcOf
  NodeOf <- MCNodeOf
  LowByte <- MCLowByte
  Keys = {"channel", "other", "zero"}
  MaxFaults = 2
  ZeroIds = {r1}
  MaxCloses = 2
  Exiting = {p1, p2}
  NONE = NONE
INVARIANTS OwnRoles EdgesAreBacked NoMissedWriter
PROPERTIES Discovered
CHECK_DEADLOCK FALSE
