SPECIFICATION Spec
CHECK_DEADLOCK FALSE
CONSTANTS
  SeqSpace = 64
  WndSpace = 8
  MSSs = {1}
  TCP_WND = 3
  TCP_SND_BUF = 3
  WndUpdate = 1
  MAXRTX = 1
  SYNMAXRTX = 1
  DupAcks = 1
  Client = a
  Server = b
  Iss = 5
  IssStep = 10
  Bytes = 3
  Accepts = 1
  Keeping = {}
  Quitting = {a}
  Aborting = {}
  NetLen = 2
  Holds = TRUE
INVARIANT EofLast
