SPECIFICATION PartsSpec
CONSTANTS
  CPUs = {"cpu0", "cpu1"}
  Locks = {1, 2}
INVARIANT LockExclusive
INVARIANT HandlerNeverSpinsOnOwn
INVARIANT FramesConserved
INVARIANT SizeIsMapped
INVARIANT RingIsText
INVARIANT ConsoleSleepersMustWait
INVARIANT ParsesTheGrammar
INVARIANT HeapIsPartitioned
CHECK_DEADLOCK FALSE
