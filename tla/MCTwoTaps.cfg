SPECIFICATION FairQSpec
CONSTANTS
  RegulationRounds = 1
  MaxInFlight = 2
  MaxPlayers = 3
  MaxMarks = 1
  MaxBank = 1
  MaxVotes = 1
  MaxRound = 1
  MaxWaves = 1
  ChainValues <- MCLadder
INVARIANTS
  ClockArmed
  LobbyIsFresh
PROPERTIES
  VoteRemovesWeakest
  BankOnlyInPlay
  ShootoutStands
  ClockCarriesOn
CHECK_DEADLOCK FALSE
