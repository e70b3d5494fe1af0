SPECIFICATION Spec
CONSTANTS
  Programs = {"race", "all", "nested", "scope", "spawnFails", "twice", "empty"}
  Tasks <- MCTasks
  KernelStep <- MCKernelStep
  Answers <- MCAnswers
  Asynchronous = FALSE
  CrashInHalt = FALSE
  MaxRuns = 3
  MaxHalts = 1
CHECK_DEADLOCK FALSE
INVARIANTS ReplayConsistent NoDivergence
PROPERTIES JournalDecides EventuallyReturns
