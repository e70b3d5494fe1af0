SPECIFICATION Spec
CONSTANTS
  Programs <- MCPrograms
  FailingSources = FALSE
  MaxRuns = 2
CHECK_DEADLOCK FALSE
INVARIANTS LanesInv ReadsOwnSource HandlesScoped IdsUnique
