SPECIFICATION Spec
CONSTANTS
  Programs <- JoinedPair
  MaxAnswers = 3
INVARIANTS SameBehaviour
CHECK_DEADLOCK FALSE
