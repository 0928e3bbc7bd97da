SPECIFICATION Spec
CONSTANTS
  NoConn = NoConn
  Conn = {c1}
  Allowed = {c1}
  Fd = {4, 5}
  ListenFd = 3
  MaxUp = 2
  MaxDown = 1
  Resets = FALSE
PROPERTY ClientFlushedBeforeClose
CHECK_DEADLOCK FALSE
