SPECIFICATION PartsSpec
CONSTANTS
  Procs = {1, 2}
  ninodes = 4
  NINODE = 3
  Names <- MCNames
  Calls <- MCCalls
INVARIANT InodeRefsCounted
 
 
INVARIANT BlocksOwnedOnce
INVARIANT ReadsBackWrites
INVARIANT OpFits
CHECK_DEADLOCK FALSE
