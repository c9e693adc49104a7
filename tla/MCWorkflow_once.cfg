\* Two requests with one id.
SPECIFICATION Spec
CONSTANTS
  r1 = r1
  r2 = r2
  k1 = k1
  None = None
  Runs = {r1, r2}
  Keys = {k1}
  Byte = {"a", "b"}
  Workflows <- Short
  Chunks <- Reads
  MaxLinks = 2
  Stores = {"disabled"}
  RingMax = 2
  ByteEvictions = 0
  StreamCapacity = 2
  MaxEvents = 3
  MaxFaults = 0
INVARIANTS SameAnswer
CHECK_DEADLOCK FALSE
