SPECIFICATION Spec
CONSTANTS
  r1 = r1
  r2 = r2
  k1 = k1
  None = None
  Runs = {r1, r2}
  Keys = {k1}
  Byte = {"a", "b"}
  Workflows <- Definitions
  Chunks <- Reads
  MaxLinks = 2
  Stores = {"disabled"}
  RingMax = 4
  ByteEvictions = 0
  StreamCapacity = 2
  MaxEvents = 4
  MaxFaults = 0
SYMMETRY Symmetry
INVARIANTS TypeOK ExpectSound ExpectMissesNothing OneRunPerKey
\* every run may have ended
CHECK_DEADLOCK FALSE
