------------------------------ MODULE FileData ------------------------------
(***************************************************************************)
(* Blocks and the contents of files: balloc, bfree, bmap, itrunc, readi    *)
(* and writei of fs.c, fileread and filewrite of file.c, on the disk that  *)
(* mkfs.c makes.                                                           *)
(*                                                                         *)
(* A process holds the inode's lock over one readi() or writei() and the   *)
(* buffer lock of a bitmap block over its update, so a step is one such    *)
(* call; filewrite() makes several of them, and other processes run in     *)
(* between.  Sizes are in units of a uint: a block holds BSIZE of them.    *)
(***************************************************************************)
EXTENDS Integers, Sequences, FiniteSets, SequencesExt

CONSTANTS
  Procs,
  FSSIZE, nlog, ninodeblocks, NINODES, BSIZE, BPB, NDIRECT, MAXOPBLOCKS,
  FileSizes,    \* sizes of the files mkfs is given
  Opens,        \* per process: the inodes of the files it opens
  Unlinked,     \* inodes of files that are removed
  WriteSizes, ReadSizes

NINDIRECT == BSIZE
MAXFILE == NDIRECT + NINDIRECT
Inums == 1..(NINODES - 1)
ROOTINO == 1

VARIABLES
  bit,      \* the free map: is the block in use?
  blk,      \* contents of blocks
  din,      \* inodes: in use, size, addrs
  file,     \* per process: inode and offset of its open file
  todo,     \* per process: how much filewrite() still has to write
  ref,      \* per inode: what was written to it, unit by unit
  wrote,    \* blocks the latest transaction wrote
  panicked
disk == <<bit, blk, din>>
vars == <<disk, file, todo, ref, wrote, panicked>>

Zeroes == [k \in 0..(BSIZE - 1) |-> 0]
Leftover == [k \in 0..(BSIZE - 1) |-> 1]
FreeInode == [used |-> FALSE, size |-> 0, addrs |-> [k \in 0..NDIRECT |-> 0]]

\* The superblock: [ boot | sb | log | inode blocks | free bit map | data ].
nbitmap == (FSSIZE \div BPB) + 1
nmeta == 2 + nlog + ninodeblocks + nbitmap
inodestart == 2 + nlog
bmapstart == 2 + nlog + ninodeblocks
IBLOCK(i) == ((i * ninodeblocks) \div NINODES) + inodestart
BBLOCK(b) == (b \div BPB) + bmapstart
Blocks == 0..(FSSIZE - 1)

-----------------------------------------------------------------------------
\* Disk states s: bit, blk, din, wrote, bad (a panic), and addr (a result).
Wrote(s, b) == [s EXCEPT !.wrote = @ \cup {b}]

\* Mutant: the new block keeps what it held before.
ballocDirty(s) ==
  LET b == Min({c \in Blocks : ~s.bit[c]}) IN
  Wrote([s EXCEPT !.bit[b] = TRUE, !.addr = b], BBLOCK(b))
balloc(s) ==
  LET free == {c \in Blocks : ~s.bit[c]}
      b == Min(free)
  IN IF free = {} THEN [s EXCEPT !.full = TRUE, !.addr = 0]
     ELSE Wrote(Wrote([s EXCEPT !.bit[b] = TRUE, !.blk[b] = Zeroes, !.addr = b], BBLOCK(b)), b)

\* A free block keeps its contents; Leftover stands for whatever it held.
bfree(s, b) ==
  Wrote([s EXCEPT !.bit[b] = FALSE, !.blk[b] = Leftover, !.bad = @ \/ ~s.bit[b]], BBLOCK(b))

\* bmap(): the result is in addr.
bmap(s, i, bn) ==
  LET a == s.din[i].addrs
      direct == balloc(s)
      ind == IF a[NDIRECT] # 0 THEN [s EXCEPT !.addr = a[NDIRECT]]
             ELSE LET n == balloc(s) IN [n EXCEPT !.din[i].addrs[NDIRECT] = n.addr]
      k == bn - NDIRECT
      leaf == balloc(ind)
  IN CASE bn < NDIRECT /\ a[bn] # 0 -> [s EXCEPT !.addr = a[bn]]
       [] bn < NDIRECT /\ a[bn] = 0 -> [direct EXCEPT !.din[i].addrs[bn] = direct.addr]
       [] bn >= NDIRECT /\ k < NINDIRECT ->
            IF ind.full THEN ind
            ELSE IF ind.blk[ind.addr][k] # 0 THEN [ind EXCEPT !.addr = ind.blk[ind.addr][k]]
            ELSE Wrote([leaf EXCEPT !.blk[ind.addr][k] = leaf.addr], ind.addr)
       [] OTHER -> [s EXCEPT !.bad = TRUE]

\* Mutant: the blocks that the indirect block lists are not freed.
itruncDirect(s, i) ==
  LET addrs == SelectSeq([k \in 1..(NDIRECT + 1) |-> s.din[i].addrs[k - 1]], LAMBDA b : b # 0)
  IN Wrote([FoldLeft(bfree, s, addrs) EXCEPT !.din[i].size = 0, !.din[i].addrs = FreeInode.addrs],
           IBLOCK(i))
itrunc(s, i) ==
  LET a == s.din[i].addrs
      direct == [k \in 1..NDIRECT |-> a[k - 1]]
      indirect == IF a[NDIRECT] = 0 THEN <<>>
                  ELSE [k \in 1..NINDIRECT |-> s.blk[a[NDIRECT]][k - 1]] \o <<a[NDIRECT]>>
      freed == FoldLeft(bfree, s, SelectSeq(direct \o indirect, LAMBDA b : b # 0))
  IN Wrote([freed EXCEPT !.din[i].size = 0, !.din[i].addrs = FreeInode.addrs], IBLOCK(i))

\* writei() of n units of value v, or -1: the loop writes unit after unit.
writeiFails(s, i, off, n) == off > s.din[i].size \/ off + n > MAXFILE * BSIZE
writei(s, i, off, n, v) ==
  LET w == FoldLeft(LAMBDA r, o :
                      LET m == bmap(r, i, o \div BSIZE) IN
                      IF r.full \/ m.full THEN m
                      ELSE Wrote([m EXCEPT !.blk[m.addr][o % BSIZE] = v], m.addr),
                    s, [k \in 1..n |-> off + k - 1])
  IN IF off + n > s.din[i].size THEN Wrote([w EXCEPT !.din[i].size = off + n], IBLOCK(i)) ELSE w

\* What readi() reads at off: bmap() gives the block, or allocates one.
readi(s, i, off) == LET m == bmap(s, i, off \div BSIZE) IN m.blk[m.addr][off % BSIZE]
readiCount(s, i, off, n) ==
  IF off > s.din[i].size THEN -1
  ELSE IF off + n > s.din[i].size THEN s.din[i].size - off ELSE n

-----------------------------------------------------------------------------
\* mkfs: blocks are handed out in order from freeblock; the map comes last.
fresh(s) == [s EXCEPT !.addr = s.freeblock, !.freeblock = @ + 1]
iappend1(s, i, v) ==
  LET off == s.din[i].size
      fbn == off \div BSIZE
      a == s.din[i].addrs
      d == fresh(s)
      ind == IF a[NDIRECT] # 0 THEN [s EXCEPT !.addr = a[NDIRECT]]
             ELSE [d EXCEPT !.din[i].addrs[NDIRECT] = d.addr]
      leaf == fresh(ind)
      k == fbn - NDIRECT
      m == IF fbn < NDIRECT
           THEN IF a[fbn] # 0 THEN [s EXCEPT !.addr = a[fbn]]
                ELSE [d EXCEPT !.din[i].addrs[fbn] = d.addr]
           ELSE IF ind.blk[ind.addr][k] # 0 THEN [ind EXCEPT !.addr = ind.blk[ind.addr][k]]
                ELSE [leaf EXCEPT !.blk[ind.addr][k] = leaf.addr]
  IN [m EXCEPT !.blk[m.addr][off % BSIZE] = v, !.din[i].size = off + 1]
iappend(s, i, data) == FoldLeft(LAMBDA r, v : iappend1(r, i, v), s, data)

\* ialloc(), and for every file an entry in the root and its contents.
mkfsFile(s, k) ==
  LET i == k + 1
      a == [s EXCEPT !.din[i].used = TRUE]
  IN iappend(iappend1(a, ROOTINO, i), i, [u \in 1..FileSizes[k] |-> 9])
mkfs ==
  LET s0 == [bit |-> [b \in Blocks |-> FALSE], blk |-> [b \in Blocks |-> Zeroes],
             din |-> [i \in Inums |-> FreeInode], wrote |-> {}, bad |-> FALSE, full |-> FALSE,
             addr |-> 0, freeblock |-> nmeta]
      root == iappend([s0 EXCEPT !.din[ROOTINO].used = TRUE], ROOTINO, <<ROOTINO, ROOTINO>>)
      s == FoldLeft(mkfsFile, root, [k \in 1..Len(FileSizes) |-> k])
  IN [s EXCEPT !.din[ROOTINO].size = ((@ \div BSIZE) + 1) * BSIZE,
               !.bit = [b \in Blocks |-> b < s.freeblock],
               !.bad = s.freeblock >= BPB]

-----------------------------------------------------------------------------
NoFile == [ip |-> 0, off |-> 0]
Contents(s, i) == [o \in 0..(s.din[i].size - 1) |-> readi(s, i, o)]

Init ==
  LET s == mkfs IN
  /\ bit = s.bit /\ blk = s.blk /\ din = s.din /\ panicked = s.bad
  /\ ref = [i \in Inums |-> Contents(s, i)]
  /\ file = [p \in Procs |-> NoFile] /\ todo = [p \in Procs |-> 0] /\ wrote = {}

Disk == [bit |-> bit, blk |-> blk, din |-> din, wrote |-> {}, bad |-> FALSE, full |-> FALSE,
         addr |-> 0]
\* The transaction ends; "balloc: out of blocks" stops the machine before it.
Becomes(s) ==
  /\ ~s.full
  /\ bit' = s.bit /\ blk' = s.blk /\ din' = s.din /\ wrote' = s.wrote /\ panicked' = s.bad
Reads == wrote' = {} /\ UNCHANGED disk
Idle(p) == ~panicked /\ todo[p] = 0

\* open() of a file, or creating one; a process has one file at a time.
open(p, i) ==
  /\ Idle(p) /\ file[p] = NoFile
  /\ file' = [file EXCEPT ![p] = [ip |-> i, off |-> 0]]
  /\ din' = [din EXCEPT ![i].used = TRUE]
  /\ wrote' = {}
  /\ UNCHANGED <<bit, blk, todo, ref, panicked>>

close(p) ==
  /\ Idle(p) /\ file[p] # NoFile
  /\ file' = [file EXCEPT ![p] = NoFile]
  /\ Reads
  /\ UNCHANGED <<todo, ref, panicked>>

\* iput() of an inode that no name and no process has: itrunc(), type 0.
iput(i) ==
  LET s == itrunc(Disk, i) IN
  /\ ~panicked /\ din[i].used /\ \A p \in Procs : file[p].ip # i
  /\ Becomes([s EXCEPT !.din[i].used = FALSE])
  /\ ref' = [ref EXCEPT ![i] = <<>>]
  /\ UNCHANGED <<file, todo>>

\* One round of the loop in filewrite(), between begin_op() and end_op(), with
\* n units left to write; a write that fails ends the loop.
\* Mutant: no room for the indirect block and the slop.
maxBlind == MAXOPBLOCKS - 1 - 1
max == (MAXOPBLOCKS - 1 - 1 - 2) \div 2
Chunk(n) == IF n > max * BSIZE THEN max * BSIZE ELSE n
Round(p, n) ==
  LET i == file[p].ip
      off == file[p].off
      n1 == Chunk(n)
      written == off..(off + n1 - 1)
  IN IF writeiFails(Disk, i, off, n1)
     THEN todo' = [todo EXCEPT ![p] = 0] /\ Reads /\ UNCHANGED <<file, ref, panicked>>
     ELSE /\ Becomes(writei(Disk, i, off, n1, p))
          /\ file' = [file EXCEPT ![p].off = off + n1]
          /\ todo' = [todo EXCEPT ![p] = n - n1]
          /\ ref' = [ref EXCEPT ![i] = [o \in DOMAIN @ \cup written |->
                                         IF o \in written THEN p ELSE @[o]]]

filewrite(p, n) == Idle(p) /\ file[p] # NoFile /\ Round(p, n)
filewrite_more(p) == ~panicked /\ todo[p] > 0 /\ Round(p, todo[p])

\* fileread(), outside any transaction: log_write() of a new block would panic.
fileread(p, n) ==
  LET i == file[p].ip
      off == file[p].off
      r == readiCount(Disk, i, off, n)
  IN
  /\ Idle(p) /\ file[p] # NoFile
  /\ file' = [file EXCEPT ![p].off = IF r > 0 THEN off + r ELSE off]
  /\ panicked' = \E o \in off..(off + r - 1) : bmap(Disk, i, o \div BSIZE).wrote # {}
  /\ Reads
  /\ UNCHANGED <<todo, ref>>

Next ==
  \/ \E p \in Procs :
       \/ \E i \in Opens[p] : open(p, i)
       \/ close(p)
       \/ \E n \in WriteSizes : filewrite(p, n)
       \/ filewrite_more(p)
       \/ \E n \in ReadSizes : fileread(p, n)
  \/ \E i \in Unlinked : iput(i)
Spec == Init /\ [][Next]_vars

-----------------------------------------------------------------------------
\* The blocks inode i uses: <<where it is named, block>>.
BlocksOf(i) ==
  LET a == din[i].addrs IN
  {<<i, "direct", k, a[k]>> : k \in 0..NDIRECT}
    \cup (IF a[NDIRECT] = 0 THEN {}
          ELSE {<<i, "indirect", k, blk[a[NDIRECT]][k]>> : k \in 0..(NINDIRECT - 1)})

\* The free map is right at the end of every transaction: a block is in use if
\* and only if it is one of mkfs's metadata blocks or has exactly one place in
\* exactly one inode; none is lost, and none belongs to two files.
BlocksOwnedOnce ==
  LET named == UNION {BlocksOf(i) : i \in Inums} IN
  \A b \in Blocks :
    Cardinality({x \in named : x[4] = b /\ b # 0}) = (IF bit[b] /\ b >= nmeta THEN 1 ELSE 0)

\* What a file holds is what was written to it, across the boundary between
\* direct and indirect blocks, with another process writing the same file in
\* between, and after blocks of removed files were used again; and bmap() never
\* has to allocate a block for a read.
ReadsBackWrites ==
  /\ ~panicked
  /\ \A i \in Inums : din[i].size = Cardinality(DOMAIN ref[i])
                      /\ \A o \in 0..(din[i].size - 1) : readi(Disk, i, o) = ref[i][o]

\* filewrite()'s comment: a few blocks at a time "to avoid exceeding the maximum
\* log transaction size, including i-node, indirect block, allocation blocks,
\* and 2 blocks of slop for non-aligned writes".  No transaction writes more
\* than MAXOPBLOCKS blocks, which is what begin_op() reserves.
OpFits == Cardinality(wrote) <= MAXOPBLOCKS
=============================================================================
