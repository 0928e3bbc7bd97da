SPECIFICATION Spec
CONSTANTS
  NoConn = NoConn
  Conn = {c1}
  Fd = {4}
  Scripts <- Pairs
  onHttpRequest <- AnyHook
INVARIANT NothingAfterError
CHECK_DEADLOCK FALSE
