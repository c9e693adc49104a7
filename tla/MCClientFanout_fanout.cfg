\* Two readers, both blocking, or one awaiting, two-chunk queues, three chunks, all policies.
\* The system may stop: the device falls silent and the readers wait or are gone.
SPECIFICATION Spec
CONSTANTS
  c1 = c1
  c2 = c2
  Clients = {c1, c2}
  Awaiting = {{}, {c1, c2}}
  Capacity = 2
  HistoryCap = 1
  Chunks = 3
  SlowBlock = 1
  Policies <- MCPolicies
CHECK_DEADLOCK FALSE
SYMMETRY Swap
CONSTRAINT AwaitingAlone
INVARIANTS TypeOK StreamFaithful DropsExact GapsNameTheVictims StallBounded NoLostWakeup
