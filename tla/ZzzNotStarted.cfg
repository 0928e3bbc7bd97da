SPECIFICATION ZzzSpec
CONSTANTS
  NoConn = NoConn
  Conn = {c1, c2}
  Allowed = {c1, c2}
  Fd = {4, 5, 6, 7}
  ListenFd = 3
  MaxUp = 1
  MaxDown = 0
  Resets = FALSE
  IdleTimeout = 1
  CommandsFail = FALSE
PROPERTY ServerStartedForClient
CHECK_DEADLOCK FALSE
