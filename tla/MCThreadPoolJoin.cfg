SPECIFICATION FairSpec
CONSTANTS
  Users = {"ThreadPool"}
  Workers = {w1, w2}
  Tasks = {t1}
  Capacity = 2
  NoTask = NoTask
PROPERTIES DestructorJoins
CHECK_DEADLOCK FALSE
