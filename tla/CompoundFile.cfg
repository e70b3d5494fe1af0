SPECIFICATION Spec
CONSTANTS
  Programs = {"race", "all", "timebox", "spawnFails", "caught"}
  Tasks <- MCTasks
  KernelStep <- MCKernelStep
  Answers <- MCAnswers
  Asynchronous = TRUE
  CrashInHalt = TRUE
  MaxRuns = 3
  MaxHalts = 1
CHECK_DEADLOCK FALSE
INVARIANTS TreeInv SilentAfterClose BranchDecides
PROPERTY ChildrenCloseFirst
