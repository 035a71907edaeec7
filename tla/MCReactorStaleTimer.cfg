SPECIFICATION AgedSafeSpec
CONSTANTS
  Conns = {z, a, b}
  NoConn = NoConn
  Free = Free
  Stdin = Stdin
  File = File
  Lost = z
  Served = v
  Workers = {w1}
  SUB_REACTOR_NUM = 1
  MaxFd = 1
  TIMEOUT_MS = 1
  MaxSends = 1
  Chunks = 1
  ServeFiles = FALSE
PROPERTIES
  TimerHitsItsOwn
CHECK_DEADLOCK FALSE
