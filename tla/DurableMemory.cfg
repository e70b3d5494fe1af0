SPECIFICATION Spec
CONSTANTS
  Programs = {"plain", "rewrite", "rewriteOther", "cache", "noConfig", "early", "escape"}
  Ids <- MCIds
  Payloads <- MCPayloads
  RuntimeDirect <- MCRuntimeDirect
  NonCanonical <- MCNonCanonical
  Capabilities <- MCCapabilities
  Values <- MCValues
  Errors <- MCErrors
  KernelStep <- MCKernelStep
  MaxStep <- MCMaxStep
  Answers <- MCAnswers
  NoSha = NoSha
  Asynchronous = FALSE
  MaxRuns = 3
  MaxFaults = 1
  MaxDeploys = 1
CHECK_DEADLOCK FALSE
INVARIANTS PersistBeforeResume DurableYieldRule CloseIsLast
INVARIANTS ExactReplay ClosedResultReplayed NoFalseDivergence
PROPERTY ImplementsWorkflow
