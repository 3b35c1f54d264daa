SPECIFICATION ServerSpec
CONSTANTS
  one = one
  other = other
  boot = boot
  backup = backup
  Requests <- MCRequests
  Lines = 2
  MaxQuestions = 4
  MaxSubmissions = 1
  MaxBatches = 2
  Migrations = 2
  Repeatable <- MCRepeatable
  Passwords <- MCPasswords
INVARIANTS
  ServerTypeOK
  OnlyApproved
  ApprovedIsInserted
  BatchesWhole
  SchemaMatchesRecord
  NoSessionWithoutAccount
PROPERTIES
  ServesReady
CHECK_DEADLOCK FALSE
SYMMETRY Symmetry
