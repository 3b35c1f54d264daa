SPECIFICATION Spec
CONSTANTS
  one = one
  other = other
  boot = boot
  Requests <- MCRequests
  Lines = 2
  MaxQuestions = 5
  MaxSubmissions = 2
  MaxBatches = 2
INVARIANT ReviewedOnce
CHECK_DEADLOCK FALSE
