SPECIFICATION Spec
CONSTANTS
  Kinds = {"process"}
  MaxSessions <- OneSession
  MaxRequests <- OneRequest
  MaxFaults = 1
  MaxProgress <- NoReport
CHECK_DEADLOCK FALSE
PROPERTIES EveryRequestEnds
