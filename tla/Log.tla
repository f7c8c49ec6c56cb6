-------------------------------- MODULE Log ---------------------------------
(***************************************************************************)
(* The write-ahead log of the file system: log.c, with the buffer cache    *)
(* under it reduced to what the log needs of bio.c and ide.c: a block is   *)
(* read from the disk when it is not cached, a dirty buffer is not         *)
(* recycled, and bwrite returns when one whole block is on the disk.       *)
(* A crash may come at any step, during recovery included.                 *)
(***************************************************************************)
EXTENDS Integers, Sequences, FiniteSets

CONSTANTS
  Procs,        \* processes making file system calls
  Blocks,       \* home blocks of the file system
  Vals,         \* contents of a block
  MAXOPBLOCKS, LOGSIZE,
  nlog,         \* superblock: log blocks on the disk, the header included
  OpBlocks      \* blocks a system call modifies at most

ASSUME LogAssumption ==
  /\ MAXOPBLOCKS \in Nat \ {0} /\ LOGSIZE \in Nat /\ nlog \in Nat
  /\ OpBlocks \in Nat /\ OpBlocks <= MAXOPBLOCKS
  /\ IsFiniteSet(Blocks)

VARIABLES
  disk, logdata, loghead,    \* on the disk: home blocks, log blocks, header
  cache, dirty,              \* buffer cache: contents, and buffers with B_DIRTY
  lh, outstanding, committing,                     \* struct log
  step, tail,                \* the place in commit() or recover_from_log()
  call,                      \* per process: place in its system call
  wrote,                     \* per process: blocks its system call has modified
  held,                      \* per process: the buffer it has in log_write()
  recovering, panicked

diskVars == <<disk, logdata, loghead>>
memVars == <<cache, dirty>>
logVars == <<lh, outstanding, committing>>
procVars == <<call, wrote, held>>
vars == <<diskVars, memVars, logVars, step, tail, procVars, recovering, panicked>>

Range(s) == {s[i] : i \in 1..Len(s)}

\* A freshly made file system, before the first boot has run initlog().
Init ==
  /\ disk \in [Blocks -> Vals]
  /\ \E v \in Vals : logdata = [i \in 1..LOGSIZE |-> v]
  /\ loghead = <<>>
  /\ cache = disk /\ dirty = {}
  /\ lh = <<>> /\ outstanding = 0 /\ committing = FALSE
  /\ step = "read_head" /\ tail = 1
  /\ call = [p \in Procs |-> "idle"] /\ wrote = [p \in Procs |-> {}]
  /\ held = [p \in Procs |-> {}]
  /\ recovering = TRUE /\ panicked = FALSE

Up == ~recovering /\ ~panicked

\* wakeup(&log)
\* Mutant: nobody is woken.
wakeupNobody == call
wakeup == [p \in Procs |-> IF call[p] = "asleep" THEN "woken" ELSE call[p]]

-----------------------------------------------------------------------------
LogFull == Len(lh) + (outstanding + 1) * MAXOPBLOCKS > LOGSIZE

begin_op(p) ==
  /\ Up /\ call[p] \in {"idle", "woken"}
  /\ \/ /\ committing \/ LogFull
        /\ call' = [call EXCEPT ![p] = "asleep"]
        /\ UNCHANGED outstanding
     \/ /\ ~committing /\ ~LogFull
        /\ outstanding' = outstanding + 1
        /\ call' = [call EXCEPT ![p] = "op"]
  /\ UNCHANGED <<diskVars, memVars, lh, committing, step, tail, wrote, held,
                 recovering, panicked>>

\* The panic of log_write(): tested before it looks whether b is logged already.
TooBig == Len(lh) >= LOGSIZE \/ Len(lh) >= nlog - 1

absorb(b) == IF b \in Range(lh) THEN lh ELSE Append(lh, b)

\* The caller modifies block b in its locked buffer and calls log_write(), which
\* makes the test before it takes log.lock ...
log_write(p, b, v) ==
  /\ Up /\ call[p] = "op" /\ held[p] = {} /\ \A q \in Procs : b \notin held[q]
  /\ Cardinality(wrote[p] \cup {b}) <= OpBlocks
  /\ cache' = [cache EXCEPT ![b] = v]
  /\ \/ TooBig /\ panicked' = TRUE /\ UNCHANGED <<wrote, held>>
     \/ /\ ~TooBig
        /\ wrote' = [wrote EXCEPT ![p] = @ \cup {b}]
        /\ held' = [held EXCEPT ![p] = {b}]
        /\ UNCHANGED panicked
  /\ UNCHANGED <<diskVars, dirty, logVars, step, tail, call, recovering>>

\* ... and records b with log.lock held; brelse() then lets the buffer go.
log_record(p, b) ==
  /\ Up /\ b \in held[p]
  /\ lh' = absorb(b)
  /\ dirty' = dirty \cup {b}
  /\ held' = [held EXCEPT ![p] = {}]
  /\ UNCHANGED <<diskVars, cache, outstanding, committing, step, tail, call,
                 wrote, recovering, panicked>>

\* Mutant: a transaction of one block is not committed.
commit_startsOne == IF Len(lh) <= 1 THEN "done" ELSE "write_log"
commit_starts == IF lh = <<>> THEN "done" ELSE "write_log"

\* Mutant: end_op() wakes nobody when others are still in a system call.
wakeup_end_opNobody == call
wakeup_end_op == wakeup

\* end_op() up to commit(): the last one out commits.
end_op(p) ==
  /\ Up /\ call[p] = "op" /\ held[p] = {}
  /\ outstanding' = outstanding - 1
  /\ wrote' = [wrote EXCEPT ![p] = {}]
  /\ IF outstanding = 1
     THEN /\ committing' = TRUE
          /\ call' = [call EXCEPT ![p] = "commit"]
          /\ step' = commit_starts /\ tail' = 1
     ELSE /\ call' = [wakeup_end_op EXCEPT ![p] = "idle"]
          /\ UNCHANGED <<committing, step, tail>>
  /\ UNCHANGED <<diskVars, memVars, lh, held, recovering, panicked>>

\* bget() recycles the buffer of a block that is neither dirty nor in use; the
\* next bread fetches it from the disk again.
\* Mutant: B_DIRTY does not keep a buffer in the cache.
recyclableAll(b) == \A p \in Procs : b \notin held[p]
recyclable(b) == b \notin dirty /\ \A p \in Procs : b \notin held[p]

bget_recycle(b) ==
  /\ ~panicked /\ recyclable(b)
  /\ cache' = [cache EXCEPT ![b] = disk[b]]
  /\ UNCHANGED <<diskVars, dirty, logVars, step, tail, procVars, recovering,
                 panicked>>

-----------------------------------------------------------------------------
\* commit(), one block write at a time.  A step after the last block goes on to
\* the next function.
Enter(s) == step' = s /\ tail' = 1

write_log ==
  /\ ~panicked /\ step = "write_log"
  /\ IF tail <= Len(lh)
     THEN /\ logdata' = [logdata EXCEPT ![tail] = cache[lh[tail]]]
          /\ tail' = tail + 1 /\ UNCHANGED step
     ELSE Enter("write_head") /\ UNCHANGED logdata
  /\ UNCHANGED <<disk, loghead, memVars, logVars, procVars, recovering, panicked>>

write_head ==
  /\ ~panicked /\ step = "write_head"
  /\ loghead' = lh
  /\ Enter("install_trans")
  /\ UNCHANGED <<disk, logdata, memVars, logVars, procVars, recovering, panicked>>

\* install_trans(), of a commit or of recovery; then log.lh.n = 0.
install_trans ==
  /\ ~panicked /\ step = "install_trans"
  /\ IF tail <= Len(lh)
     THEN /\ disk' = [disk EXCEPT ![lh[tail]] = logdata[tail]]
          /\ cache' = [cache EXCEPT ![lh[tail]] = logdata[tail]]
          /\ dirty' = dirty \ {lh[tail]}
          /\ tail' = tail + 1 /\ UNCHANGED <<step, lh>>
     ELSE Enter("clear") /\ lh' = <<>> /\ UNCHANGED <<disk, memVars>>
  /\ UNCHANGED <<logdata, loghead, outstanding, committing, procVars,
                 recovering, panicked>>

\* write_head() of the empty header.
clear_head ==
  /\ ~panicked /\ step = "clear"
  /\ loghead' = lh
  /\ Enter(IF recovering THEN "none" ELSE "done")
  /\ recovering' = FALSE
  /\ UNCHANGED <<disk, logdata, memVars, logVars, procVars, panicked>>

\* The end of end_op(), after commit() has returned.
end_commit(p) ==
  /\ Up /\ step = "done" /\ call[p] = "commit"
  /\ committing' = FALSE
  /\ call' = [wakeup EXCEPT ![p] = "idle"]
  /\ Enter("none")
  /\ UNCHANGED <<diskVars, memVars, lh, outstanding, wrote, held, recovering,
                 panicked>>

-----------------------------------------------------------------------------
\* Power fails: the disk keeps its blocks, memory is lost.
crash ==
  /\ cache' = disk /\ dirty' = {}
  /\ lh' = <<>> /\ outstanding' = 0 /\ committing' = FALSE
  /\ Enter("read_head")
  /\ call' = [p \in Procs |-> "idle"] /\ wrote' = [p \in Procs |-> {}]
  /\ held' = [p \in Procs |-> {}]
  /\ recovering' = TRUE /\ panicked' = FALSE
  /\ UNCHANGED diskVars

\* initlog() of the next boot: recover_from_log() starts with read_head().
read_head ==
  /\ step = "read_head"
  /\ lh' = loghead
  /\ Enter("install_trans")
  /\ UNCHANGED <<diskVars, memVars, outstanding, committing, procVars,
                 recovering, panicked>>

CommitStep ==
  write_log \/ write_head \/ install_trans \/ clear_head \/ read_head
  \/ \E p \in Procs : end_commit(p)

Next ==
  \/ CommitStep \/ crash
  \/ \E b \in Blocks : bget_recycle(b)
  \/ \E p \in Procs :
       \/ begin_op(p) \/ end_op(p)
       \/ \E b \in Blocks :
            log_record(p, b) \/ \E v \in Vals : log_write(p, b, v)

Spec == Init /\ [][Next]_vars

-----------------------------------------------------------------------------
\* What recovery would make of the disk as it is now.
Durable ==
  [b \in Blocks |->
     IF b \in Range(loghead)
     THEN logdata[CHOOSE i \in 1..Len(loghead) : loghead[i] = b]
     ELSE disk[b]]

\* The log implements an atomic disk: after a crash at any point of a system
\* call, of commit() or of recover_from_log() itself, recovery yields the
\* blocks as of the last commit, and a commit never takes in a system call
\* that has not reached its end_op().
Atomic == INSTANCE AtomicDisk WITH
            store <- Durable,
            pending <- IF recovering THEN Durable ELSE cache,
            open <- {p \in Procs : call[p] = "op"}
ImplementsAtomicDisk == Atomic!Spec

\* end_op() of the last system call returns only when everything is durable:
\* when no call is active and no commit is running, a crash loses nothing.
QuietIsDurable ==
  Up /\ outstanding = 0 /\ ~committing => Durable = cache

\* A process asleep in begin_op() has a reason to: whatever made it sleep still
\* holds, and somebody is active who will wake it (end_op, after its commit
\* or when it gives back reserved space).
SleepersMustWait ==
  Up /\ (\E p \in Procs : call[p] = "asleep") =>
    committing \/ (LogFull /\ outstanding > 0)


\* The disk answers, so a commit goes on (weak fairness); a system call makes
\* finitely many writes, so it does not write forever instead of reaching
\* end_op() (strong fairness).  A crash need not come.
Fairness ==
  /\ WF_vars(CommitStep)
  /\ \A p \in Procs :
       SF_vars(end_op(p)) /\ WF_vars(\E b \in Blocks : log_record(p, b))

LiveSpec == Spec /\ Fairness

\* A process that sleeps in begin_op() is woken.
SleepersWake == \A p \in Procs : call[p] = "asleep" ~> call[p] # "asleep"
=============================================================================
