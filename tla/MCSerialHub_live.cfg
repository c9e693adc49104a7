\* Handoff and progress under fair scheduling: two control-plane requests (begin
\* against resume, command or another begin), an HTTP write and a lease, a stop at
\* any time.
CONSTANTS
  None = None
  Peers = {}
  Primaries = {}
  ReadOnly = {}
  Apis = {a1}
  Streams = {}
  Ops = {o1, o2}
  Mode = "exclusive"
  LockTTL = 1
  MaxFrames = 1
  QueueCap = 1
  ControlCap = 1
  WriteTimeout = 1
  HandoffTTL = 1
  MaxLeases = 1
  MaxEpoch = 1
  Reconnect = TRUE
SPECIFICATION FairSpec
INVARIANTS
  StoppedIsQuiescent
  HandoffExclusive
PROPERTIES
  NothingHangs
  OwnerReturns
CHECK_DEADLOCK FALSE
