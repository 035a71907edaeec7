SPECIFICATION Spec
CONSTANTS
  Reactors = {"r1", "r2"}
  Handlers = {"main"}
  Tasks = {t1}
  MaxSignals = 1
PROPERTIES
  ShutdownCompletes
CHECK_DEADLOCK FALSE
