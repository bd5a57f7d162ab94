SPECIFICATION MCSpec
CONSTANTS
  w1 = w1
  w2 = w2
  r1 = r1
  r2 = r2
  Writers = {w1, w2}
  Readers = {r1, r2}
  BlockNum <- MCBlockNum
  BufLength = 1
  MaxTryLockTimes = 2
  MaxMsgs = 2
  MaxDisables = 1
  None = None
INVARIANTS LockNumCounts ReadsWhole NeverStale BufFits
CHECK_DEADLOCK FALSE
PROPERTIES FindsBlock
