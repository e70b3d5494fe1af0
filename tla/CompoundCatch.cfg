SPECIFICATION Spec
CONSTANTS
  Programs = {"all"}
  Tasks <- MCTasks
  KernelStep <- MCKernelStep
  Answers <- MCAnswers
  Asynchronous = FALSE
  CrashInHalt = FALSE
  MaxRuns = 1
  MaxHalts = 0
CHECK_DEADLOCK FALSE
INVARIANT ErrorsReachKernel
