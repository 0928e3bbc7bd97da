SPECIFICATION ZzzFairSpec
CONSTANTS
  NoConn = NoConn
  Conn = {c1, c2}
  Allowed = {c1,c2}
  Fd = {4,5,6}
  ListenFd = 3
  MaxUp = 1
  MaxDown = 1
  Resets = FALSE
  IdleTimeout = 1
  CommandsFail = TRUE
PROPERTIES
  StopOnlyAfterQuiet
  FailureSticks
  IdleServerIsStopped
CHECK_DEADLOCK FALSE
