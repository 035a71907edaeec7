SPECIFICATION Spec
CONSTANTS
  Ids = {1, 2, 3}
  TIMEOUT = 4
  MS = 2
  MaxStep = 2
  NoDeadline = NoDeadline
  Lag = 1
INVARIANTS
  TypeOK
  IndexAgrees
PROPERTIES
  LateByStepsAlone
  ImplementsDeadlines
CHECK_DEADLOCK FALSE
