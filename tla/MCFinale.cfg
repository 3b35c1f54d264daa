SPECIFICATION FinaleSpec
CONSTANTS
  RegulationRounds = 5
  MaxWaves = 7
  Finalists <- MCFinalists
  s1 = s1
  s2 = s2
  s3 = s3
  u1 = u1
  u2 = u2
  Placeholder = Placeholder
  NoQuestion = NoQuestion
  Shared <- MCShared
  Uploads <- MCUploads
SYMMETRY MCSymmetry
INVARIANTS
  FinaleTypeOK
  WinnerIffDecided
  FairTurns
  NoRepeats
PROPERTIES
  RecordIsFinal
  AsksWhatItSays
CHECK_DEADLOCK FALSE
