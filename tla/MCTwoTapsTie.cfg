SPECIFICATION QSpec
CONSTANTS
  RegulationRounds = 1
  MaxInFlight = 2
  MaxPlayers = 3
  MaxMarks = 1
  MaxBank = 1
  MaxVotes = 1
  MaxRound = 2
  MaxWaves = 1
  ChainValues <- MCLadder
INVARIANT TwoRemain
CHECK_DEADLOCK FALSE
