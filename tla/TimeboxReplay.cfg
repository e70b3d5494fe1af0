SPECIFICATION Spec
CONSTANTS
  Programs = {"deadline"}
  Tasks <- MCTasks
  KernelStep <- MCKernelStep
  Answers <- MCAnswers
  Asynchronous = FALSE
  CrashInHalt = FALSE
  MaxRuns = 2
  MaxHalts = 0
CHECK_DEADLOCK FALSE
INVARIANT ReplayConsistent
