SPECIFICATION Spec
CONSTANTS
  NPROC = 6
  NFILE = 5
  NOFILE = 5
  Pages = {1, 2}
  PIPESIZE = 2
  UintMod = 4
  BufSize = 2
  EchoBytes = 3
  Sessions <- MCSessions
INVARIANT RefsCounted
 
INVARIANT PipeSleepersMustWait
PROPERTY CommandEnds
