SPECIFICATION Spec
CONSTANTS
  Programs <- TwoTransports
  MaxAnswers = 3
INVARIANTS SetupInAnyOrder
CHECK_DEADLOCK FALSE
