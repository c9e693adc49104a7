\* One handoff that nobody resumes, under fair scheduling.
CONSTANTS
  None = None
  Peers = {}
  Primaries = {}
  ReadOnly = {}
  Apis = {}
  Streams = {}
  Ops = {o1}
  Mode = "queue"
  LockTTL = 1
  MaxFrames = 1
  QueueCap = 1
  ControlCap = 1
  WriteTimeout = 1
  HandoffTTL = 3
  MaxLeases = 1
  MaxEpoch = 2
  Reconnect = TRUE
SPECIFICATION FairSpec
PROPERTIES
  HandoffWindowCloses
CHECK_DEADLOCK FALSE
