SPECIFICATION Spec
CONSTANTS
  Programs = {"race"}
  Tasks <- MCTasks
  KernelStep <- MCKernelStep
  Answers <- MCAnswers
  Asynchronous = FALSE
  CrashInHalt = TRUE
  MaxRuns = 2
  MaxHalts = 1
CHECK_DEADLOCK FALSE
PROPERTY EventuallyReturns
