SPECIFICATION TalkSpec
CONSTANTS
  Conns = {z, a, b}
  NoConn = NoConn
  Free = Free
  Stdin = Stdin
  File = File
  Lost = z
  Served = v
  Workers = {w1}
  SUB_REACTOR_NUM = 1
  MaxFd = 2
  TIMEOUT_MS = 1
  MaxSends = 2
  Chunks = 1
  ServeFiles = TRUE
PROPERTIES
  RequestAnswered
  BacklogIsDrained
CHECK_DEADLOCK FALSE
