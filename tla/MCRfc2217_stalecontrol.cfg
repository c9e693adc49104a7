\* A control line asked for while the port is lost and opened again.
\* The system may stop: peers fall silent or go.
SPECIFICATION Spec
CONSTANTS
  c1 = c1
  c2 = c2
  Conns = {c1, c2}
  Scenarios <- MCReset
  Initial <- MCInitial
  Baud <- MCBaud
  Signature <- MCSignature
  Delim = 10
  MaxFrame = 2
  ControlCap = 1
CHECK_DEADLOCK FALSE
INVARIANT NoStaleControl
