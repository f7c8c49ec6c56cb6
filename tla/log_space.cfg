SPECIFICATION LiveSpec
CONSTANTS
  Procs = {p1, p2, p3}
  Blocks = {b1, b2, b3, b4, b5}
  Vals = {0}
  MAXOPBLOCKS = 2
  LOGSIZE = 6
  nlog = 6
  OpBlocks = 1
 
INVARIANT SleepersMustWait
PROPERTY SleepersWake
