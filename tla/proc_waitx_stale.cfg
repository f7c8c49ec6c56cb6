SPECIFICATION Spec
CONSTANTS
  NPROC = 4
  NCPU = 2
  SCHEDFLAG = "R"
  SyscallTable <- WaitxCalls
  KillArgs = {}
  SleepArgs <- None
  PriorityArgs <- None
  OutOfMemory = FALSE
  MaxPid = 5
  MaxTicks = 0
INVARIANT WaitxReadsItsChild
