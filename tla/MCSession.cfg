SPECIFICATION Spec
CONSTANTS
  mine = mine
  yours = yours
  Phones <- MCPhones
  Names <- MCNames
  Links <- MCLinks
  MinPlayers = 2
  MaxPlayers = 3
  MaxTokens = 3
INVARIANTS
  TypeOK
  NamesDistinct
  LiveIsConnected
  OneHolder
PROPERTIES
  SeatKept
  CastFixed
CHECK_DEADLOCK FALSE
