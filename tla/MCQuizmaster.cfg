SPECIFICATION QSpec
CONSTANTS
  RegulationRounds = 1
  MaxInFlight = 1
  MaxPlayers = 4
  MaxMarks = 1
  MaxBank = 1
  MaxVotes = 2
  MaxRound = 4
  MaxWaves = 2
  ChainValues <- MCLadder
INVARIANTS
  TypeOK
  OneEliminationPerRound
  QuestionsInPlay
  RevealInOrder
  FinalistsAlive
  RoundStartsClean
PROPERTIES
  PlaysTournament
CHECK_DEADLOCK FALSE
