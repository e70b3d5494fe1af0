SPECIFICATION Spec
CONSTANTS
  Programs = {"race"}
  Tasks <- MCTasks
  KernelStep <- MCKernelStep
  Answers <- MCAnswers
  Asynchronous = TRUE
  CrashInHalt = FALSE
  MaxRuns = 2
  MaxHalts = 0
CHECK_DEADLOCK FALSE
INVARIANT ReplayConsistent
