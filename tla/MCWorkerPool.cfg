SPECIFICATION FairSpec
CONSTANTS
  Users = {"ThreadPool", "PerfEventCache"}
  Workers = {w1, w2}
  Tasks = {t1, t2, t3}
  Capacity = 2
  NoTask = NoTask
INVARIANTS StopsPromptly OnePlace
PROPERTIES PollingShutdownEnds PollingDrains
\* Once the pool is destroyed nothing happens.
CHECK_DEADLOCK FALSE
