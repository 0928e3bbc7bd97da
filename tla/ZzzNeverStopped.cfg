SPECIFICATION ZzzFairSpec
CONSTANTS
  NoConn = NoConn
  Conn = {c1}
  Allowed = {c1}
  Fd = {4, 5, 6, 7}
  ListenFd = 3
  MaxUp = 1
  MaxDown = 0
  Resets = FALSE
  IdleTimeout = 1
  CommandsFail = FALSE
PROPERTY UnusedServerIsStopped
CHECK_DEADLOCK FALSE
