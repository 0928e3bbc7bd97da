SPECIFICATION FairSpec
CONSTANTS
  NoConn = NoConn
  Conn = {c1}
  Allowed = {c1}
  Fd = {4, 5}
  ListenFd = 3
  MaxUp = 2
  MaxDown = 2
  Resets = TRUE
INVARIANTS
  FdOwnership
PROPERTIES
  BackendEndClosesClient
  ClientEndClosesBackend
  Delivery
  StopHappens
  ImplementsRelay
CHECK_DEADLOCK FALSE
