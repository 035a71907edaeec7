SPECIFICATION Spec
CONSTANTS
  Requests <- MCRequests
  READ_BUFFER_SIZE = 6
  MaxRequests = 3
INVARIANTS
  TypeOK
  AnsweredAsAsked
PROPERTIES
  RequestServed
  ImplementsExchange
CHECK_DEADLOCK FALSE
