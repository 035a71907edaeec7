SPECIFICATION ServingSpec
CONSTANTS
  Conns = {z, v, a, b}
  NoConn = NoConn
  Free = Free
  Stdin = Stdin
  File = File
  Lost = z
  Served = v
  Workers = {w1}
  SUB_REACTOR_NUM = 1
  MaxFd = 2
  TIMEOUT_MS = 1
  MaxSends = 1
  Chunks = 1
  ServeFiles = FALSE
INVARIANTS
  TypeOK
  NoStranded
  WatchedHasTimer
PROPERTIES
  WatchedAreKicked
  HandsArePassedOn
CHECK_DEADLOCK FALSE
