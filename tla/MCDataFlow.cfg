SPECIFICATION Spec
CONSTANTS
  NULL = NULL
  known = known  plain = plain  c1 = c1  c2 = c2
  sub = sub  first = first  second = second  fused = fused
  Channels = {known, plain, c1, c2}
  Visitors = {sub, first, second, fused}
  Programs = {{sub}, {first, second}, {fused}}
  Owned = {sub}
  Open = {c1, c2}
  Inputs <- ConstInputs
  QueueSize <- ConstQueueSize
  KnowsSender = {known}
  Depth = 1
  Depths = {0, 2}
  Removable = {second, fused}
  MaxMsgs <- ConstMaxMsgs
  MaxSlots = 1
CHECK_DEADLOCK FALSE
INVARIANTS InOrder PairsAreLatest BlockerWindow
PROPERTIES FetchesNext CatchesUp
