------------------------------ MODULE Spinlock ------------------------------
(***************************************************************************)
(* Spin locks and the nesting of interrupt disabling: spinlock.c.  Each    *)
(* CPU runs kernel code, and an interrupt handler on top of it while       *)
(* interrupts are enabled; both take and release locks.  A step is one     *)
(* access to the lock word, to lk->cpu or to the CPU's own state.          *)
(***************************************************************************)
EXTENDS Integers, FiniteSets

CONSTANTS
  CPUs,
  Locks       \* numbers: locks are taken in increasing order

Levels == {0, 1}              \* 0: kernel code, 1: the interrupt handler
Threads == CPUs \X Levels
NoCpu == "none"

ASSUME SpinAssumption == Locks \subseteq Nat /\ Locks # {} /\ NoCpu \notin CPUs

VARIABLES
  locked, lkcpu,          \* per lock: lk->locked and lk->cpu
  ncli, intena, FL_IF,    \* per CPU: the depth of pushcli, and the interrupt flag
  level,                  \* per CPU: what it runs
  pc, want, eflags,       \* per thread: its place, the lock it deals with, a local
  held,                   \* per thread: locks between the xchg and the movl
  panicked
lockVars == <<locked, lkcpu, held>>
cpuVars == <<ncli, intena, FL_IF>>
vars == <<lockVars, cpuVars, level, pc, want, eflags, panicked>>

PCs == {"run", "cli", "xchg", "setcpu", "movl", "popcli"}
AnyLock == CHOOSE l \in Locks : TRUE

Init ==
  /\ locked = [l \in Locks |-> 0] /\ lkcpu = [l \in Locks |-> NoCpu]
  /\ ncli = [c \in CPUs |-> 0] /\ intena = [c \in CPUs |-> 0]
  /\ FL_IF = [c \in CPUs |-> 1] /\ level = [c \in CPUs |-> 0]
  /\ pc = [x \in Threads |-> "run"] /\ want = [x \in Threads |-> AnyLock]
  /\ eflags = [x \in Threads |-> 0] /\ held = [x \in Threads |-> {}]
  /\ panicked = "no"

Me(c) == <<c, level[c]>>
At(c, place) == pc[Me(c)] = place /\ panicked = "no"
Goto(c, place) == pc' = [pc EXCEPT ![Me(c)] = place]
panicIf(bad) == IF bad THEN "yes" ELSE "no"
HeldBy(c) == {l \in Locks : \E x \in Threads : x[1] = c /\ l \in held[x]}
holding(c, l) == locked[l] = 1 /\ lkcpu[l] = c

\* acquire(): pushcli() reads eflags, then turns interrupts off.
acquire(c, l) ==
  /\ At(c, "run") /\ \A k \in HeldBy(c) : k < l
  /\ Goto(c, "cli")
  /\ want' = [want EXCEPT ![Me(c)] = l]
  /\ eflags' = [eflags EXCEPT ![Me(c)] = FL_IF[c]]
  /\ UNCHANGED <<lockVars, cpuVars, level, panicked>>

\* Mutant: interrupts stay on.
cliNot(c) == FL_IF
cli(c) == [FL_IF EXCEPT ![c] = 0]

pushcli(c) ==
  /\ At(c, "cli")
  /\ FL_IF' = cli(c)
  /\ intena' = IF ncli[c] = 0 THEN [intena EXCEPT ![c] = eflags[Me(c)]] ELSE intena
  /\ ncli' = [ncli EXCEPT ![c] = @ + 1]
  /\ panicked' = panicIf(holding(c, want[Me(c)]))
  /\ Goto(c, "xchg")
  /\ UNCHANGED <<lockVars, level, want, eflags>>

\* Mutant: the test and the set are two accesses, and the test is stale.
FreeStale(c) == TRUE
Free(c) == locked[want[Me(c)]] = 0

xchg(c) ==
  /\ At(c, "xchg") /\ Free(c)
  /\ locked' = [locked EXCEPT ![want[Me(c)]] = 1]
  /\ held' = [held EXCEPT ![Me(c)] = @ \cup {want[Me(c)]}]
  /\ Goto(c, "setcpu")
  /\ UNCHANGED <<lkcpu, cpuVars, level, want, eflags, panicked>>

setcpu(c) ==
  /\ At(c, "setcpu")
  /\ lkcpu' = [lkcpu EXCEPT ![want[Me(c)]] = c]
  /\ Goto(c, "run")
  /\ UNCHANGED <<locked, held, cpuVars, level, want, eflags, panicked>>

\* release(): lk->cpu is cleared before the lock word.
release(c, l) ==
  /\ At(c, "run") /\ l \in held[Me(c)]
  /\ panicked' = panicIf(~holding(c, l))
  /\ want' = [want EXCEPT ![Me(c)] = l]
  /\ lkcpu' = [lkcpu EXCEPT ![l] = NoCpu]
  /\ Goto(c, "movl")
  /\ UNCHANGED <<locked, held, cpuVars, level, eflags>>

movl(c) ==
  /\ At(c, "movl")
  /\ locked' = [locked EXCEPT ![want[Me(c)]] = 0]
  /\ held' = [held EXCEPT ![Me(c)] = @ \ {want[Me(c)]}]
  /\ Goto(c, "popcli")
  /\ UNCHANGED <<lkcpu, cpuVars, level, want, eflags, panicked>>

popcli(c) ==
  /\ At(c, "popcli")
  /\ panicked' = panicIf(FL_IF[c] = 1 \/ ncli[c] < 1)
  /\ ncli' = [ncli EXCEPT ![c] = @ - 1]
  /\ FL_IF' = IF ncli[c] = 1 /\ intena[c] = 1 THEN [FL_IF EXCEPT ![c] = 1] ELSE FL_IF
  /\ Goto(c, "run")
  /\ UNCHANGED <<lockVars, intena, level, want, eflags>>

\* An interrupt gate turns interrupts off; iret brings the flag back.
interrupt(c) ==
  /\ level[c] = 0 /\ FL_IF[c] = 1 /\ panicked = "no"
  /\ level' = [level EXCEPT ![c] = 1]
  /\ FL_IF' = [FL_IF EXCEPT ![c] = 0]
  /\ UNCHANGED <<lockVars, ncli, intena, pc, want, eflags, panicked>>

iret(c) ==
  /\ level[c] = 1 /\ At(c, "run") /\ held[Me(c)] = {}
  /\ level' = [level EXCEPT ![c] = 0]
  /\ FL_IF' = [FL_IF EXCEPT ![c] = 1]
  /\ UNCHANGED <<lockVars, ncli, intena, pc, want, eflags, panicked>>

Next ==
  \E c \in CPUs :
    \/ \E l \in Locks : acquire(c, l) \/ release(c, l)
    \/ pushcli(c) \/ xchg(c) \/ setcpu(c) \/ movl(c) \/ popcli(c)
    \/ interrupt(c) \/ iret(c)
Spec == Init /\ [][Next]_vars

-----------------------------------------------------------------------------
\* A lock is held by at most one thread of one CPU at a time.
LockExclusive ==
  \A x, y \in Threads : \A l \in Locks : l \in held[x] /\ l \in held[y] => x = y

\* acquire()'s comment: "disable interrupts to avoid deadlock."  No interrupt
\* comes while a CPU holds a lock or waits for one, so a handler never spins for
\* a lock of the code it interrupted; and none of the panics of spinlock.c
\* ("acquire", "release", "popcli", "popcli - interruptible") is reached.
HandlerNeverSpinsOnOwn ==
  /\ panicked = "no"
  /\ \A c \in CPUs : HeldBy(c) # {} => FL_IF[c] = 0
  /\ \A x \in Threads : x[2] = 0 /\ level[x[1]] = 1 => held[x] = {}

-----------------------------------------------------------------------------
\* The inductive invariant.
TypeOK ==
  /\ locked \in [Locks -> {0, 1}] /\ lkcpu \in [Locks -> CPUs \cup {NoCpu}]
  /\ ncli \in [CPUs -> Int] /\ intena \in [CPUs -> {0, 1}] /\ FL_IF \in [CPUs -> {0, 1}]
  /\ level \in [CPUs -> Levels]
  /\ pc \in [Threads -> PCs] /\ want \in [Threads -> Locks]
  /\ eflags \in [Threads -> {0, 1}] /\ held \in [Threads -> SUBSET Locks]
  /\ panicked \in {"no", "yes"}

\* How often the thread has called pushcli() without the matching popcli().
Pushed(x) == Cardinality(held[x]) + (IF pc[x] \in {"xchg", "popcli"} THEN 1 ELSE 0)

HeldLocked == \A x \in Threads : IsFiniteSet(held[x]) /\ \A l \in held[x] : locked[l] = 1
WantHeld ==
  \A x \in Threads : /\ pc[x] \in {"setcpu", "movl"} => want[x] \in held[x]
                     /\ pc[x] \in {"cli", "xchg"} => want[x] \notin held[x]
                     /\ pc[x] = "movl" => lkcpu[want[x]] = NoCpu
\* lk->cpu names the holder's CPU, but for the two accesses next to the lock word's.
CpuHolds == \A l \in Locks : lkcpu[l] # NoCpu => l \in HeldBy(lkcpu[l])
HolderCpu ==
  \A x \in Threads : \A l \in held[x] :
    lkcpu[l] = x[1] \/ (pc[x] \in {"setcpu", "movl"} /\ want[x] = l)
NcliCounts ==
  /\ \A x, y \in Threads : x[1] = y[1] /\ x # y => ncli[x[1]] = Pushed(x) + Pushed(y)
  /\ \A c \in CPUs : ncli[c] > 0 => FL_IF[c] = 0
\* A handler leaves nothing behind, and what it interrupts holds no lock.
LevelInv ==
  \A x \in Threads : x[2] # level[x[1]] =>
    held[x] = {} /\ (pc[x] = "run" \/ (pc[x] = "cli" /\ x[2] = 0))

SpinInv ==
  /\ TypeOK /\ panicked = "no" /\ HeldLocked /\ LockExclusive /\ WantHeld
  /\ CpuHolds /\ HolderCpu /\ NcliCounts /\ LevelInv
=============================================================================
