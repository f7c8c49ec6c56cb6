----------------------------- MODULE MCStorage ------------------------------
(***************************************************************************)
(* The log, and the buffer cache with the disk driver under it, for TLC:   *)
(* Init picks Log or BufCache, and the other one stays as it is.           *)
(***************************************************************************)
EXTENDS MCLog

CONSTANTS Hot, BufVals    \* the block that is modified in BufCache, and contents

VARIABLES part, blockno, valid, bdirty, refcnt, data, lock, lru, idequeue, cmd, irq, bdisk,
          pc, pb, want, content, bad, bpanicked
bufVars == <<blockno, valid, bdirty, refcnt, data, lock, lru, idequeue, cmd, irq, bdisk,
             pc, pb, want, content, bad, bpanicked>>
partsVars == <<part, vars, bufVars>>

\* Three buffers, so that the third is recycled while a dirty one is pinned and
\* another is in use, for four blocks of which the processes modify one.
BC == INSTANCE BufCache WITH
  Blocks <- Blocks \cup {Hot}, Vals <- BufVals, Written <- {Hot}, NBUF <- 3,
  MaxPinned <- 1, dirty <- bdirty, disk <- bdisk, panicked <- bpanicked

\* The part that does not run has the same contents in all of its blocks.
PartsInit ==
  /\ part \in {"Log", "BufCache"} /\ Init /\ BC!Init
  /\ part = "Log" => data[1] = bdisk[Hot]
  /\ part = "BufCache" => \A b \in Blocks : disk[b] = 0 /\ logdata[1] = 0
PartsNext ==
  \/ part = "Log" /\ Next /\ UNCHANGED <<part, bufVars>>
  \/ part = "BufCache" /\ BC!Next /\ UNCHANGED <<part, vars>>
PartsSpec == PartsInit /\ [][PartsNext]_partsVars

BothSymmetry == Symmetry \cup Permutations(BufVals)

-----------------------------------------------------------------------------
\* QuietIsDurable and ImplementsAtomicDisk are Log's; the properties
\* below are BufCache's, explained there.

\* bread() returns what was last put into a locked buffer of the block.
ReadsLastWrite == part = "BufCache" => BC!ReadsLastWrite
\* Nobody sleeps in iderw() or acquiresleep() after what it waits for.
SleepersServed == part = "BufCache" => BC!SleepersServed
=============================================================================
