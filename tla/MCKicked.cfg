SPECIFICATION FairSpec
CONSTANTS
  first = first
  second = second
  Conns <- MCConns
  NoConn = NoConn
  SendBuffer = 1
  MaxVersion = 1
  MaxDrops = 0
PROPERTY KickedPhoneStops
CHECK_DEADLOCK FALSE
