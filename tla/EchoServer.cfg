SPECIFICATION FairSpec
CONSTANTS
  NoConn = NoConn
  Client = {k1}
  MaxSessions <- MCSessions
  MaxLines <- MCLines
  Texts = {"hello", "shutdown"}
  Fd = {4, 5}
  MaxRuns = 2
  Files <- MCFiles
INVARIANTS
  TypeOK
  EchoConserved
  OwnEchoes
  DescriptorsOwned
PROPERTIES
  WhitelistHolds
  ReadEnds
  ShutdownHappens
  StopHappens
CHECK_DEADLOCK FALSE
