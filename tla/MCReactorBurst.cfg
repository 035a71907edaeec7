SPECIFICATION YoungBurstSafeSpec
CONSTANTS
  Conns = {z, a, b}
  NoConn = NoConn
  Free = Free
  Stdin = Stdin
  File = File
  Lost = z
  Served = v
  Workers = {w1, w2}
  SUB_REACTOR_NUM = 2
  MaxFd = 2
  TIMEOUT_MS = 1
  MaxSends = 2
  Chunks = 2
  ServeFiles = TRUE
SYMMETRY Symmetry
INVARIANTS
  ExclusiveSlot
  OwnRepliesOnly
  FilesHaveOneOwner
CHECK_DEADLOCK FALSE
