------------------------------ MODULE BufCache ------------------------------
(***************************************************************************)
(* The buffer cache and the disk driver under it: bio.c, sleeplock.c and   *)
(* ide.c, with the disk itself as an external device.                      *)
(*                                                                         *)
(* A step is one critical section of bcache.lock, idelock or a sleep       *)
(* lock's own spin lock; sleep() releases that lock and sleeps in the same *)
(* step (Proc!NoLostWakeup is about how).  A process holds one buffer.     *)
(***************************************************************************)
EXTENDS Integers, Sequences, FiniteSets

CONSTANTS
  Procs, Blocks,
  Vals,        \* contents of a block
  Written,     \* bound: the blocks that processes modify
  NBUF,
  MaxPinned    \* bound: buffers the log keeps dirty between transactions

Bufs == 1..NBUF
None == "none"

VARIABLES
  blockno, valid, dirty, refcnt, data,  \* struct buf
  lock,                                 \* its sleep lock: the holder
  lru,                                  \* bcache list, head.next first
  idequeue,
  cmd, irq,                             \* the disk: its command if any, its interrupt
  disk,
  pc, pb,                               \* per process: place, its buffer
  want,                                 \* per process: the block it asked for
  content,   \* history: per block, what was last put into its locked buffer
  bad,       \* history: buffers whose read failed
  panicked

bufVars == <<blockno, valid, dirty, refcnt, data, lock>>
ideVars == <<idequeue, cmd, irq, disk>>
procVars == <<pc, pb, want>>
vars == <<bufVars, lru, ideVars, procVars, content, bad, panicked>>

\* binit(): every buffer is inserted at the head; static memory is zero, so no
\* buffer holds a block of a disk that is in use.
Init ==
  /\ blockno = [b \in Bufs |-> None]
  /\ valid = [b \in Bufs |-> FALSE] /\ dirty = [b \in Bufs |-> FALSE]
  /\ refcnt = [b \in Bufs |-> 0]
  /\ \E v \in Vals : data = [b \in Bufs |-> v]
  /\ lock = [b \in Bufs |-> None]
  /\ lru = [i \in Bufs |-> NBUF + 1 - i]
  /\ idequeue = <<>> /\ cmd = {} /\ irq = FALSE
  /\ \E v \in Vals : disk = [k \in Blocks |-> v]
  /\ content = disk
  /\ pc = [p \in Procs |-> "idle"] /\ pb = [p \in Procs |-> 0]
  /\ want = [p \in Procs |-> None]
  /\ bad = {} /\ panicked = FALSE

Goto(p, place) == pc' = [pc EXCEPT ![p] = place]

\* wakeup() of the processes that sleep at place from for buffer b, while p
\* goes to its next place.
WakeAnd(from, to, b, p, place) ==
  pc' = [q \in Procs |-> IF q = p THEN place
                         ELSE IF pc[q] = from /\ pb[q] = b THEN to ELSE pc[q]]

-----------------------------------------------------------------------------
\* bget(): the buffer that holds block k, or the least recently used one that
\* is not in use, B_DIRTY counting as use.
Unused == {b \in Bufs : refcnt[b] = 0 /\ ~dirty[b]}
Position(b) == CHOOSE i \in Bufs : lru[i] = b
LeastRecent(S) == CHOOSE b \in S : \A c \in S : Position(c) <= Position(b)

bget_cached(p, k, b) ==
  /\ blockno[b] = k
  /\ refcnt' = [refcnt EXCEPT ![b] = @ + 1]
  /\ UNCHANGED <<blockno, valid, bad>>

bget_recycle(p, k, b) ==
  /\ \A c \in Bufs : blockno[c] # k
  /\ Unused # {} /\ b = LeastRecent(Unused)
  /\ blockno' = [blockno EXCEPT ![b] = k]
  /\ valid' = [valid EXCEPT ![b] = FALSE]
  /\ refcnt' = [refcnt EXCEPT ![b] = 1]
  /\ bad' = bad \ {b}

bget(p, k) ==
  /\ pc[p] = "idle" /\ ~panicked
  /\ want' = [want EXCEPT ![p] = k]
  /\ \/ \E b \in Bufs :
          /\ bget_cached(p, k, b) \/ bget_recycle(p, k, b)
          /\ pb' = [pb EXCEPT ![p] = b]
          /\ Goto(p, "lock")
          /\ UNCHANGED panicked
     \/ /\ \A c \in Bufs : blockno[c] # k
        /\ Unused = {} /\ panicked' = TRUE
        /\ UNCHANGED <<blockno, valid, refcnt, bad, pc, pb>>
  /\ UNCHANGED <<dirty, data, lock, lru, ideVars, content>>

\* acquiresleep(), and what bread() does next: iderw() unless B_VALID.
\* Mutant: the lock is not tested again after the sleep.
LockFreeOrWoken(p) == lock[pb[p]] = None \/ pc[p] = "lock_woken"
LockFree(p) == lock[pb[p]] = None

acquiresleep(p) ==
  /\ pc[p] \in {"lock", "lock_woken"} /\ ~panicked
  /\ IF LockFree(p)
     THEN /\ lock' = [lock EXCEPT ![pb[p]] = p]
          /\ Goto(p, IF valid[pb[p]] THEN "have" ELSE "rw")
     ELSE Goto(p, "lock_sleep") /\ UNCHANGED lock
  /\ UNCHANGED <<blockno, valid, dirty, refcnt, data, lru, ideVars, pb, want,
                 content, bad, panicked>>

holdingsleep(p) == lock[pb[p]] = p

\* brelse(): releasesleep() first ...
releasesleep(p) ==
  /\ pc[p] = "have" /\ ~panicked
  /\ IF holdingsleep(p)
     THEN /\ lock' = [lock EXCEPT ![pb[p]] = None]
          /\ WakeAnd("lock_sleep", "lock_woken", pb[p], p, "brelse")
          /\ UNCHANGED panicked
     ELSE panicked' = TRUE /\ UNCHANGED <<lock, pc>>
  /\ UNCHANGED <<blockno, valid, dirty, refcnt, data, lru, ideVars, pb, want,
                 content, bad>>

unref(p) == [refcnt EXCEPT ![pb[p]] = @ - 1]

brelse(p) ==
  /\ pc[p] = "brelse" /\ ~panicked
  /\ refcnt' = unref(p)
  /\ lru' = IF unref(p)[pb[p]] = 0
            THEN <<pb[p]>> \o SelectSeq(lru, LAMBDA c : c # pb[p])
            ELSE lru
  /\ pb' = [pb EXCEPT ![p] = 0] /\ want' = [want EXCEPT ![p] = None]
  /\ Goto(p, "idle")
  /\ UNCHANGED <<blockno, valid, dirty, data, lock, ideVars, content, bad,
                 panicked>>

-----------------------------------------------------------------------------
\* The holder changes the block and calls bwrite(), or log_write(), which sets
\* B_DIRTY and leaves the writing to a later bwrite() of the commit.
Fill(p, v) ==
  /\ data' = [data EXCEPT ![pb[p]] = v]
  /\ dirty' = [dirty EXCEPT ![pb[p]] = TRUE]
  /\ content' = [content EXCEPT ![blockno[pb[p]]] = v]
  /\ bad' = bad \ {pb[p]}

bwrite(p, v) ==
  /\ pc[p] = "have" /\ ~panicked /\ blockno[pb[p]] \in Written
  /\ IF holdingsleep(p)
     THEN Fill(p, v) /\ Goto(p, "rw") /\ UNCHANGED panicked
     ELSE panicked' = TRUE /\ UNCHANGED <<data, dirty, content, bad, pc>>
  /\ UNCHANGED <<blockno, valid, refcnt, lock, lru, ideVars, pb, want>>

log_write(p, v) ==
  /\ pc[p] = "have" /\ ~panicked /\ blockno[pb[p]] \in Written
  /\ Cardinality({b \in Bufs : dirty[b]} \cup {pb[p]}) <= MaxPinned
  /\ Fill(p, v)
  /\ UNCHANGED <<blockno, valid, refcnt, lock, lru, ideVars, procVars, panicked>>

-----------------------------------------------------------------------------
\* idestart(): the command for buffer b, its data already sent for a write.
idestart(b) ==
  cmd' = {[blockno |-> blockno[b], write |-> dirty[b], data |-> data[b]]}

\* iderw(): append to the queue, start the disk if it is the only request, and
\* sleep: the flags cannot change while idelock is held.
StartIfFirst(p) == IF idequeue = <<>> THEN idestart(pb[p]) ELSE UNCHANGED cmd

iderw(p) ==
  /\ pc[p] = "rw" /\ ~panicked
  /\ IF holdingsleep(p) /\ ~(valid[pb[p]] /\ ~dirty[pb[p]])
     THEN /\ idequeue' = Append(idequeue, pb[p])
          /\ StartIfFirst(p)
          /\ Goto(p, "rw_sleep") /\ UNCHANGED panicked
     ELSE panicked' = TRUE /\ UNCHANGED <<idequeue, cmd, pc>>
  /\ UNCHANGED <<bufVars, lru, irq, disk, pb, want, content, bad>>

\* The while loop of iderw(), after a wakeup.
iderw_woken(p) ==
  /\ pc[p] = "rw_woken" /\ ~panicked
  /\ Goto(p, IF valid[pb[p]] /\ ~dirty[pb[p]] THEN "have" ELSE "rw_sleep")
  /\ UNCHANGED <<bufVars, lru, ideVars, pb, want, content, bad, panicked>>

\* The disk carries out its command and raises IRQ 14.
disk_done ==
  /\ ~irq /\ irq' = TRUE
  /\ \E c \in cmd :
       disk' = IF c.write THEN [disk EXCEPT ![c.blockno] = c.data] ELSE disk
  /\ UNCHANGED <<bufVars, lru, idequeue, cmd, procVars, content, bad, panicked>>

\* ideintr() for the head of the queue.  After a failed read (idewait(1) < 0) the
\* data stays what it was, and B_VALID is set all the same.
\* Mutant: the next request is not started.
StartNextNever == cmd' = {}
StartNext == IF Len(idequeue) > 1 THEN idestart(idequeue[2]) ELSE cmd' = {}

\* An interrupt with nothing queued: the early return.
ideintr_spurious == idequeue = <<>> /\ ~irq /\ UNCHANGED vars

ideintr ==
  /\ irq /\ idequeue # <<>> /\ ~panicked
  /\ irq' = FALSE
  /\ idequeue' = Tail(idequeue)
  /\ LET b == Head(idequeue) IN
       /\ \/ /\ dirty[b]
             /\ UNCHANGED <<data, bad>>
          \/ /\ ~dirty[b]
             /\ \E c \in cmd : data' = [data EXCEPT ![b] = disk[c.blockno]]
             /\ UNCHANGED bad
          \/ /\ ~dirty[b]
             /\ bad' = bad \cup {b}
             /\ UNCHANGED data
       /\ valid' = [valid EXCEPT ![b] = TRUE]
       /\ dirty' = [dirty EXCEPT ![b] = FALSE]
       /\ WakeAnd("rw_sleep", "rw_woken", b, None, None)
  /\ StartNext
  /\ UNCHANGED <<blockno, refcnt, lock, lru, disk, pb, want, content, panicked>>

-----------------------------------------------------------------------------
Kernel(p) == acquiresleep(p) \/ brelse(p) \/ iderw(p) \/ iderw_woken(p)

Next ==
  \/ disk_done \/ ideintr \/ ideintr_spurious
  \/ \E p \in Procs :
       \/ Kernel(p) \/ releasesleep(p)
       \/ \E k \in Blocks : bget(p, k)
       \/ \E v \in Vals : bwrite(p, v) \/ log_write(p, v)

Spec == Init /\ [][Next]_vars

-----------------------------------------------------------------------------
\* What bread() returns is the block that was asked for, not recycled between
\* bget() and acquiresleep(), held by nobody else, with the contents last put
\* into it by whatever process and in whatever buffer, unless the disk reported
\* a read error: there is one copy of a block, and B_DIRTY keeps what the disk
\* does not have yet.
ReadsLastWrite ==
  \A p \in Procs : pc[p] = "have" =>
    /\ blockno[pb[p]] = want[p]
    /\ \A q \in Procs : q # p /\ pc[q] = "have" => pb[q] # pb[p]
    /\ pb[p] \notin bad => data[pb[p]] = content[want[p]]


\* Nobody sleeps for good: who sleeps in iderw() has its buffer in the queue
\* and the disk works on the head of the queue; who sleeps in acquiresleep()
\* waits for a process that has the lock and is not itself waiting for one.
SleepersServed ==
  /\ \A p \in Procs : pc[p] = "rw_sleep" => \E i \in DOMAIN idequeue : idequeue[i] = pb[p]
  /\ idequeue # <<>> =>
       LET b == Head(idequeue) IN
       cmd = {[blockno |-> blockno[b], write |-> dirty[b], data |-> data[b]]}
  /\ \A p \in Procs : pc[p] = "lock_sleep" =>
       \E q \in Procs : /\ lock[pb[p]] = q /\ pb[q] = pb[p]
                        /\ pc[q] \in {"have", "rw", "rw_sleep", "rw_woken"}
=============================================================================
