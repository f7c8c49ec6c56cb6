SPECIFICATION Spec
CONSTANTS
  NPROC = 3
  NCPU = 2
  SCHEDFLAG = "R"
  SyscallTable <- SleepCalls
  KillArgs = {2}
  SleepArgs <- ShortSleeps
  PriorityArgs <- None
  OutOfMemory = TRUE
  MaxPid = 3
  MaxTicks = 1
INVARIANT IInv
INVARIANT OneCpuPerProcess
INVARIANT SchedNeverPanics
INVARIANT StackOwned
INVARIANT NoLostWakeup
