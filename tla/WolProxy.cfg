SPECIFICATION WolSpec
CONSTANTS
  NoConn = NoConn
  Conn = {c1, c2, c3}
  Allowed = {c1, c2}
  Fd = {4, 5, 6}
  ListenFd = 3
  MaxUp = 0
  MaxDown = 0
  Resets = FALSE
  Kinds <- MCKinds
  Retry = 1
  HealthRetry = 1
  MaxOutages = 1
  CommandsFail = TRUE
INVARIANTS
  WakeOwnership
  ReportedIsReady
PROPERTIES
  ReadinessIsFresh
  StartupOnlyAfterSilence
  WakeEnds
CHECK_DEADLOCK FALSE
