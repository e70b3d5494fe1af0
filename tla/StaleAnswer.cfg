SPECIFICATION Spec
CONSTANTS
  Kinds = {"sse"}
  MaxSessions <- TwoSessions
  MaxRequests <- TwoRequests
  MaxFaults = 1
  MaxProgress <- NoReport
CHECK_DEADLOCK FALSE
INVARIANTS OwnAnswer
