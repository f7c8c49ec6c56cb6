SPECIFICATION PartsSpec
CONSTANTS
  Procs = {p1, p2}
  Blocks = {b1, b2, b3}
  Vals = {0, 1}
  MAXOPBLOCKS = 4
  LOGSIZE = 8
  nlog = 8
  OpBlocks = 2
  Hot = b0
  BufVals = {v0, v1}
INVARIANT QuietIsDurable
PROPERTY ImplementsAtomicDisk
INVARIANT ReadsLastWrite
 
INVARIANT SleepersServed
SYMMETRY BothSymmetry
