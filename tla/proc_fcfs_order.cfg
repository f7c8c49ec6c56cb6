SPECIFICATION Spec
CONSTANTS
  NPROC = 3
  NCPU = 1
  SCHEDFLAG = "F"
  SyscallTable <- WaitxCalls
  KillArgs = {}
  SleepArgs <- None
  PriorityArgs <- None
  OutOfMemory = FALSE
  MaxPid = 4
  MaxTicks = 2
PROPERTY FcfsOrder
