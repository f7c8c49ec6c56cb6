SPECIFICATION Spec
CONSTANTS
  Procs = {1, 2}
  ninodes = 4
  NINODE = 3
  Names <- MCNames
  Calls <- SameName
INVARIANT NoLockCycle
