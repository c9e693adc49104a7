\* Five events in segments of two, flushed every second event, three crashes or I/O errors.
SPECIFICATION Spec
CONSTANTS
  p1 = p1
  p2 = p2
  Procs = {p1, p2}
  NoHash = NoHash
  SegmentMax = 2
  FlushEvery = 2
  MaxEvents = 5
  MaxFaults = 3
SYMMETRY Symmetry
INVARIANTS TypeOK ChainLinked EvidenceKept CheckpointSeals
