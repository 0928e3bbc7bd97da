SPECIFICATION HelloSpec
CONSTANTS
  NoConn = NoConn
  Conn = {c1, c2}
  Fd = {4, 5}
  Scripts <- MCScripts
INVARIANTS
  ParseStatesMatch
  PagesConserved
PROPERTIES
  FirstPageWhole
  ResponseEnds
CHECK_DEADLOCK FALSE
