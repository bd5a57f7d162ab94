SPECIFICATION MCSpec
CONSTANTS
  p1 = p1
  p2 = p2
  w1 = w1
  w2 = w2
  r1 = r1
  r2 = r2
  n1 = n1
  n2 = n2
  n3 = n3
  b1 = b1
  b2 = b2
  Proc = {p1}
  Writer = {w1}
  Reader = {r1, r2}
  ProcOf <- MCProcOfLocal
  NodeOf <- MCNodeOf
  LowByte <- MCLowByte
  Keys = {"channel", "other", "zero"}
  MaxFaults = 0
  ZeroIds = {}
  MaxCloses = 2
  Exiting = {}
  NONE = NONE
INVARIANT TransmitsToAll
CHECK_DEADLOCK FALSE
