SPECIFICATION Spec
CONSTANTS
  Programs = {"plain", "rewrite"}
  Ids <- MCIds
  Payloads <- MCPayloads
  RuntimeDirect <- MCRuntimeDirect
  NonCanonical <- MCNonCanonical
  Capabilities <- MCCapabilities
  Values <- MCValues
  Errors <- MCErrors
  KernelStep <- MCKernelStep
  MaxStep <- MCMaxStep
  Answers <- MCAnswers
  NoSha = NoSha
  Asynchronous = FALSE
  MaxRuns = 2
  MaxFaults = 0
  MaxDeploys = 1
CHECK_DEADLOCK FALSE
PROPERTY LaneDivergenceIsFatal
