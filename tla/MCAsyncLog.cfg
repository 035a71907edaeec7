SPECIFICATION Spec
CONSTANTS
  Producers = {p1, p2, p3}
  Lines = {l1, l2, l3, l4}
  NoLine = NoLine
  capacity = 2
INVARIANTS
  TypeOK
  NoLostWakeup
  WrittenInOrder
PROPERTIES
  EveryLineWritten
  SleeperIsReleased
  ImplementsTaskQueue
CHECK_DEADLOCK FALSE
