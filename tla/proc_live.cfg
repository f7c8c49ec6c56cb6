SPECIFICATION LiveSpec
CONSTANTS
  NPROC = 3
  NCPU = 1
  SCHEDFLAG = "R"
  SyscallTable <- FaultCalls
  KillArgs = {2}
  SleepArgs <- ShortSleeps
  PriorityArgs <- None
  OutOfMemory = FALSE
  MaxPid = 3
  MaxTicks = 1
PROPERTY KilledExits
PROPERTY SleepReturns
PROPERTY OrphansReaped
