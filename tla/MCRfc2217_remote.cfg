\* Every short stream on one connection; two connections with requests and two faults.
\* The system may stop: peers fall silent or go.
SPECIFICATION FairSpec
CONSTANTS
  c1 = c1
  c2 = c2
  Conns = {c1, c2}
  Scenarios <- MCScenarios
  Initial <- MCInitial
  Baud <- MCBaud
  Signature <- MCSignature
  Delim = 10
  MaxFrame = 2
  ControlCap = 1
CHECK_DEADLOCK FALSE
INVARIANTS DecodesExactly RepliesMatch ConfirmedInForce
PROPERTY LeaseComesBack
