SPECIFICATION Spec
CONSTANTS
  NoConn = NoConn
  Conn = {c1, c2, c3}
  Allowed = {c1, c2}
  Fd = {4, 5, 6, 7}
  ListenFd = 3
  MaxUp = 1
  MaxDown = 1
  Resets = FALSE
SYMMETRY ConnSymmetry
CONSTRAINT AtMostTwo
INVARIANTS
  UpstreamFifo
  DownstreamFifo
PROPERTY SessionEndsForCause
CHECK_DEADLOCK FALSE
