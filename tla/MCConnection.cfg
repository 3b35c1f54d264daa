SPECIFICATION FairSpec
CONSTANTS
  first = first
  second = second
  Conns <- MCConns
  NoConn = NoConn
  SendBuffer = 1
  MaxVersion = 2
  MaxDrops = 1
INVARIANT TypeOK
PROPERTIES
  CatchesUp
  ConnectionEnds
  ClosedPhoneStops
CHECK_DEADLOCK FALSE
