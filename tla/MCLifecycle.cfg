SPECIFICATION Spec
CONSTANTS
  Reactors = {"r1", "r2"}
  Handlers = {"main", "r1", "r2", "a worker"}
  Tasks = {t1, t2, t3}
  MaxSignals = 2
INVARIANTS
  TypeOK
  ReactorsGoFirst
  TasksHaveMySQL
PROPERTIES
  StopsUnlessAsleep
CHECK_DEADLOCK FALSE
