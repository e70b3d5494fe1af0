SPECIFICATION FairSpec
CONSTANTS
  Programs = {"plain", "rewrite", "leak"}
  Ids <- MCIds
  Payloads <- MCPayloads
  RuntimeDirect <- MCRuntimeDirect
  NonCanonical <- MCNonCanonical
  Capabilities <- MCCapabilities
  Values <- MCValues
  Errors <- MCErrors
  KernelStep <- MCKernelStep
  MaxStep <- MCMaxStep
  Answers <- MCAnswers
  NoSha = NoSha
  Asynchronous = TRUE
  MaxRuns = 3
  MaxFaults = 1
  MaxDeploys = 0
CHECK_DEADLOCK FALSE
INVARIANTS ReplayInv OnlyAbandonedFollows
PROPERTY EventuallyClosed
