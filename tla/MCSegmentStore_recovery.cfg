\* A crash, then a crash or an error in the recovery from it.
SPECIFICATION Spec
CONSTANTS
  p1 = p1
  p2 = p2
  Procs = {p1, p2}
  NoHash = NoHash
  SegmentMax = 2
  FlushEvery = 1
  MaxEvents = 3
  MaxFaults = 2
SYMMETRY Symmetry
INVARIANT RecoverySealsPrefix
