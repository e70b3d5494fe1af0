SPECIFICATION Spec
CONSTANTS
  Programs <- SubscribePrograms
  FailingSources = TRUE
  MaxRuns = 2
CHECK_DEADLOCK FALSE
INVARIANTS TokensUnique
