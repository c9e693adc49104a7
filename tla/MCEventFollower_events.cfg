\* A ring of two, a live channel of one, pages of one event, over a session of four.
SPECIFICATION FairSpec
CONSTANTS
  c1 = c1
  Hit = hit
  Miss = miss
  Clients = {c1}
  Bounds = {0, 3}
  Stores = {"active", "disabled"}
  RingMax = 2
  ByteEvictions = 2
  StreamCapacity = 1
  PageLimit = 1
  SnapshotLimit = 2
  MaxEvents = 4
  MaxFaults = 1
INVARIANTS TypeOK FollowsExactly NoMoreMeansNoMore ExportComplete
PROPERTY Follows
\* every request has been answered and the session may be quiet for good
CHECK_DEADLOCK FALSE
