SPECIFICATION Spec
CHECK_DEADLOCK FALSE
CONSTANTS
  SeqSpace = 64
  WndSpace = 8
  MSSs = {2}
  TCP_WND = 2
  TCP_SND_BUF = 3
  WndUpdate = 1
  MAXRTX = 1
  SYNMAXRTX = 1
  DupAcks = 1
  Client = a
  Server = b
  Iss = 62
  IssStep = 10
  Bytes = 3
  Accepts = 1
  Keeping = {a}
  Quitting = {a}
  Aborting = {a}
  NetLen = 2
  Holds = FALSE
INVARIANT StreamSound
INVARIANT RetransmitArmed
