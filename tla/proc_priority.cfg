SPECIFICATION LiveSpec
CONSTANTS
  NPROC = 3
  NCPU = 1
  SCHEDFLAG = "P"
  SyscallTable <- PriorityCalls
  KillArgs = {}
  SleepArgs <- None
  PriorityArgs <- Priorities
  OutOfMemory = FALSE
  MaxPid = 4
  MaxTicks = 0
INVARIANT TypeOK
PROPERTY RunnableRuns
