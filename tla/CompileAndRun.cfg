SPECIFICATION Spec
CONSTANTS
  Programs <- KeptPrograms
  MaxAnswers = 4
INVARIANTS SameBehaviour HandlesUsedWell
CHECK_DEADLOCK FALSE
