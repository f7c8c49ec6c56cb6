------------------------------ MODULE MCFiles -------------------------------
(***************************************************************************)
(* The tree of files and their contents, for TLC: Init picks FsTree or     *)
(* FileData, and the other one stays as it is.                             *)
(***************************************************************************)
EXTENDS MCFsTree

VARIABLES part, bit, blk, din, opened, todo, ref, wrote, halted
dataVars == <<bit, blk, din, opened, todo, ref, wrote, halted>>
partsVars == <<part, vars, dataVars>>

\* mkfs with one file.  A write takes three transactions and reaches the indirect
\* block, after a read it is not aligned and fills a file, and a second write
\* fails; the second process shares a file with the first, which is unlinked
\* while it is open, so that blocks are used again.
FD == INSTANCE FileData WITH
  FSSIZE <- 17, nlog <- 1, ninodeblocks <- 1, NINODES <- 4, BSIZE <- 2, BPB <- 12,
  NDIRECT <- 1, MAXOPBLOCKS <- 6, FileSizes <- <<1>>, Opens <- <<{2, 3}, {3}>>,
  Unlinked <- {3}, WriteSizes <- {5}, ReadSizes <- {7}, file <- opened, panicked <- halted

PartsInit == part \in {"FsTree", "FileData"} /\ Init /\ FD!Init
PartsNext ==
  \/ part = "FsTree" /\ Next /\ UNCHANGED <<part, dataVars>>
  \/ part = "FileData" /\ FD!Next /\ UNCHANGED <<part, vars>>
PartsSpec == PartsInit /\ [][PartsNext]_partsVars

-----------------------------------------------------------------------------
\* balloc(), bfree(), bmap() and itrunc(): a block in use belongs to one file,
\* once, and the free map says so.
BlocksOwnedOnce == part = "FileData" => FD!BlocksOwnedOnce
\* readi() returns what writei() put there, and nothing of a block's earlier life.
ReadsBackWrites == part = "FileData" => FD!ReadsBackWrites
\* A round of filewrite() and an itrunc() fit into what begin_op() reserves.
OpFits == part = "FileData" => FD!OpFits
=============================================================================
