SPECIFICATION Spec
CONSTANTS
  Programs = {"plain"}
  Ids <- MCIds
  Payloads <- MCPayloads
  RuntimeDirect <- MCRuntimeDirect
  NonCanonical <- MCNonCanonical
  Capabilities <- MCCapabilities
  Values <- MCValues
  Errors <- MCErrors
  KernelStep <- MCKernelStep
  MaxStep <- MCMaxStep
  Answers <- MCAnswers
  NoSha = NoSha
  Asynchronous = TRUE
  MaxRuns = 1
  MaxFaults = 0
  MaxDeploys = 0
CHECK_DEADLOCK FALSE
INVARIANT CloseIsLast
