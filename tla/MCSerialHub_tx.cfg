\* Transmit path: one HTTP write, one two-frame stream write of the
\* primary, leases, reconnects.
CONSTANTS
  None = None
  Peers = {p1}
  Primaries = {p1}
  ReadOnly = {}
  Apis = {a1}
  Streams = {s1}
  Ops = {}
  Mode = "primary_wins"
  LockTTL = 1
  MaxFrames = 2
  QueueCap = 2
  ControlCap = 1
  WriteTimeout = 1
  HandoffTTL = 2
  MaxLeases = 1
  MaxEpoch = 2
  Reconnect = TRUE
SPECIFICATION Spec
INVARIANTS
  TypeOK
  NoWriteLost
  ForeignWriteOnlyIfEarlier
  DefiniteAnswers
PROPERTIES
  NoOrphanWrite
  ImplementsDeviceAccess
CHECK_DEADLOCK FALSE
