SPECIFICATION Spec
CONSTANTS
  Requests <- MCRequests
  READ_BUFFER_SIZE = 6
  MaxRequests = 2
INVARIANTS
  PiecesDoNotMatter
CHECK_DEADLOCK FALSE
