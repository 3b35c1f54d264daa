SPECIFICATION FairSpec
CONSTANTS
  first = first
  again = again
  controller = controller
  joiner = joiner
  asker = asker
  player = player
  quizmaster = quizmaster
  Seats <- MCSeats
  Controllers <- MCControllers
  InboxSize = 2
  Conns <- MCTwoConns
  Seat <- MCTwoSeats
  Joiners <- MCJoiners
  Askers = {}
PROPERTY CallersAnswered
CHECK_DEADLOCK FALSE
