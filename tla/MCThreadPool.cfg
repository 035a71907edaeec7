SPECIFICATION Spec
CONSTANTS
  Workers = {w1, w2, w3}
  Callers = {c1, c2}
  Tasks = {t1, t2, t3}
  NoTask = NoTask
INVARIANTS
  TypeOK
  NoLostWakeup
  NobodySleepsThroughJoin
PROPERTIES
  DestructorReturns
  ImplementsTaskQueue
CHECK_DEADLOCK FALSE
