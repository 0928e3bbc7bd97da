SPECIFICATION Spec
CONSTANTS
  Fd = {3, 4}
  MaxSessions = 2
  MaxUp = 2
  MaxDown = 2
INVARIANTS
  OneSocket
  CleanWhenClosed
  WireFifo
  ReadFifo
PROPERTIES
  FlushBeforeClose
  PendingCloseHappens
