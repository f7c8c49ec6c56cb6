SPECIFICATION Spec
CONSTANTS
  NPROC = 4
  NCPU = 2
  SCHEDFLAG = "F"
  SyscallTable <- WaitxCalls
  KillArgs = {}
  SleepArgs <- None
  PriorityArgs <- None
  OutOfMemory = FALSE
  MaxPid = 4
  MaxTicks = 1
INVARIANT ParentAlive
INVARIANT NoLostWakeup
 
 
