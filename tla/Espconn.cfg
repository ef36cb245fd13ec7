SPECIFICATION Spec
CONSTANTS
  NULL = NULL
  Server = Server
  Nodes = {n1}
  Clients = {c1}
  MaxConns = 2
  MaxCloses = 1
  MaxPackets = 2
  MaxLinks = 1
  MaxCon = 2
  Lens = {2}
  BufNum = 2
  SndBuf = 2
  SndQueueLen = 2
  Chunk = 2
  QueueLen = 15
  Timeout = 1
  MemFails = TRUE
CHECK_DEADLOCK FALSE
INVARIANT PacketsSound
PROPERTY NothingLeftBehind
