SPECIFICATION MCSpec
CONSTANTS
  w1 = w1
  w2 = w2
  r1 = r1
  r2 = r2
  Writers = {w1, w2}
  Readers = {r1, r2}
  BlockNum <- MCBlockNum
  BufLength = 1
  MaxTryLockTimes = 2
  MaxMsgs = 1
  MaxDisables = 0
  None = None
INVARIANTS SafeAccess
CHECK_DEADLOCK FALSE
