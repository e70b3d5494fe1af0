SPECIFICATION Spec
CONSTANTS
  Programs <- MCPrograms
  MaxRuns = 2
  MaxHalts = 1
  Atomic = TRUE
CHECK_DEADLOCK FALSE
INVARIANTS LifecycleInv CleanupOrder NoUseAfterCleanup OwnerClosesLast
PROPERTIES EventuallyClosed
