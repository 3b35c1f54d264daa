SPECIFICATION FairSpec
CONSTANTS
  first = first
  again = again
  controller = controller
  joiner = joiner
  asker = asker
  player = player
  quizmaster = quizmaster
  Seats <- MCSeats
  Controllers <- MCControllers
  InboxSize = 1
  Conns <- MCConns
  Seat <- MCSeat
  Joiners = {}
  Askers <- MCAskers
INVARIANTS
  TypeOK
  OpenIsServed
  NoGhosts
PROPERTY Settles
CHECK_DEADLOCK FALSE
