SPECIFICATION Spec
CONSTANTS
  Kinds = {"channel", "process", "sse"}
  MaxSessions <- SessionsPerKind
  MaxRequests <- TwoRequests
  MaxFaults = 1
  MaxProgress <- OneReport
CHECK_DEADLOCK FALSE
INVARIANTS SessionInv OwnAnswerOfOwnAgent NoProgressLost NoOrphans
PROPERTIES ImplementsLifecycle AnsweredWhileReceiving
