SPECIFICATION FairSpec
CONSTANTS
  NoConn = NoConn
  Conn = {c1}
  Fd = {4}
  Scripts <- Pairs
  onHttpRequest <- AnyHook
INVARIANTS
  TypeOK
  RequestsFramed
  AnswersInOrder
PROPERTIES
  ClosedAfterFlush
  CloseHappens
CHECK_DEADLOCK FALSE
