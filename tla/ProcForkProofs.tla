--------------------------- MODULE ProcForkProofs ---------------------------
(***************************************************************************)
(* The trap and the steps of fork preserve the safety invariant SInv of    *)
(* Proc. Each lemma first reads off what the step requires and assigns,    *)
(* then what SInv says of the state before, and then takes the conjuncts   *)
(* of SInv one by one.                                                     *)
(***************************************************************************)
EXTENDS ProcTypeProofs

\* The types the safety argument needs.
Types ==
  /\ state \in [Slots -> ProcStates]
  /\ pc \in [Slots -> Places]
  /\ rpc \in [Slots -> Places]
  /\ np \in [Slots -> Slots \cup {NoProc}]
  /\ kstack \in [Slots -> BOOLEAN]
  /\ cproc \in [CPUs -> Slots \cup {NoProc}]
  /\ stage \in [CPUs -> {"idle", "fcfs", "prio", "rr"}]
  /\ intr \in [CPUs -> {"no", "tick", "resched", "panic"}]

\* TypeOK gives the types the safety proofs use.
LEMMA TypesHold == TypeOK => Types
BY Constants DEF TypeOK, Types, TableTypes, CpuTypes, ThreadTypes

\* The variables SInv is about.
safetyVars ==
  <<state, pc, rpc, np, kstack, cproc, stage, intr, ptlock, tickslock>>

\* A step that touches none of these variables keeps SInv.
LEMMA Stutter_SInv ==
  ASSUME SInv, UNCHANGED safetyVars
  PROVE  SInv'
BY DEF SInv, safetyVars, CpuUnique, CpuRunning, CpuBusy, CpuIdle, PlaceInv,
       ForkOwns, ForkUnique, ForkStack, StackInv

\* A running thread may move between places outside sched(), tickslock and
\* fork.
LEMMA Move_SInv ==
  ASSUME Types, SInv, NEW c \in CPUs, NEW p \in Slots, NEW loc,
         cproc[c] = p, state[p] = "RUNNING",
         pc[p] \notin InSched \cup TicksHeld,
         loc \notin InSched \cup TicksHeld \cup ForkPlaces,
         pc' = [pc EXCEPT ![p] = loc],
         UNCHANGED <<state, rpc, np, kstack, cproc, stage, intr, ptlock,
                     tickslock>>
  PROVE  SInv'
<1>1. CpuUnique' /\ CpuRunning' /\ CpuIdle' /\ ForkUnique' /\ StackInv'
  BY DEF SInv, CpuUnique, CpuRunning, CpuIdle, ForkUnique, StackInv
<1>2. CpuBusy'
  BY DEF Types, SInv, CpuBusy
<1>3. PlaceInv'
  BY DEF Types, SInv, PlaceInv, InSched
<1>4. ForkOwns'
  BY DEF Types, SInv, ForkOwns
<1>5. ForkStack'
  BY DEF Types, SInv, ForkStack
<1> QED BY <1>1, <1>2, <1>3, <1>4, <1>5 DEF SInv

\* System call entry, faults, setpriority and the return from waitx only move
\* the thread.
LEMMA trap_SInv ==
  ASSUME Types, SInv, NEW c \in CPUs, NEW p \in Slots,
         \/ trap_syscall(c, p) \/ trap_fault(c, p)
         \/ waitx_ret(c, p) \/ setpriority(c, p)
  PROVE  SInv'
<1>1. /\ UNCHANGED <<state, rpc, np, kstack, cproc, stage, intr, ptlock,
                     tickslock>>
      /\ cproc[c] = p /\ state[p] = "RUNNING"
      /\ pc[p] \notin InSched \cup TicksHeld
  BY DEF trap_syscall, trap_fault, waitx_ret, setpriority, At, InSched,
     TicksHeld,
         tableVars, schedVars, callVars
<1>2. \E loc \in Calls \cup {"user", "setpriority_yield"} :
        pc' = [pc EXCEPT ![p] = loc]
  BY DEF trap_syscall, trap_fault, waitx_ret, setpriority, Goto, Calls
<1>3. PICK loc \in Calls \cup {"user", "setpriority_yield"} :
        pc' = [pc EXCEPT ![p] = loc]
  BY Zenon, <1>2
<1>4. loc \notin InSched \cup TicksHeld \cup ForkPlaces
  BY <1>3 DEF Calls, InSched, TicksHeld, ForkPlaces
<1> QED BY <1>1, <1>3, <1>4, Move_SInv, Zenon

\* allocproc: a full table fails the fork; otherwise a free slot becomes the
\* EMBRYO of p.
LEMMA allocproc_SInv ==
  ASSUME Types, SInv, NEW c \in CPUs, NEW p \in Slots, allocproc(c, p)
  PROVE  SInv'
<1>1. /\ UNCHANGED <<rpc, kstack, cproc, stage, intr, ptlock, tickslock>>
      /\ cproc[c] = p /\ state[p] = "RUNNING" /\ pc[p] = "fork"
  BY DEF allocproc, Locked, At, schedVars
<1>2. pc[p] \notin InSched \cup TicksHeld
  BY <1>1 DEF InSched, TicksHeld
<1>3. CASE /\ pc' = [pc EXCEPT ![p] = fork_failed(p)]
           /\ UNCHANGED <<state, np>>
  <2>1. fork_failed(p) \notin InSched \cup TicksHeld \cup ForkPlaces
    BY DEF fork_failed, InSched, TicksHeld, ForkPlaces
  <2> QED BY <1>1, <1>2, <1>3, <2>1, Move_SInv, Zenon
<1>4. ASSUME NEW q \in Slots, state[q] = "UNUSED",
             state' = [state EXCEPT ![q] = "EMBRYO"],
             np' = [np EXCEPT ![p] = q],
             pc' = [pc EXCEPT ![p] = "fork_kstack"]
      PROVE  SInv'
  <2>1. /\ q # p /\ ~kstack[q] /\ rpc[p] = "user"
        /\ \A r \in Slots : np[r] # q
        /\ \A d \in CPUs : cproc[d] # q
    BY <1>1, <1>4, Constants DEF SInv, CpuBusy, PlaceInv, ForkOwns, StackInv
  <2>2. CpuUnique' /\ CpuIdle'
    BY <1>1 DEF SInv, CpuUnique, CpuIdle
  <2>3. CpuRunning' /\ StackInv'
    BY <1>1, <1>4, <2>1 DEF Types, SInv, CpuRunning, StackInv
  <2>4. CpuBusy'
    BY <1>1, <1>2, <1>4, <2>1 DEF Types, SInv, CpuBusy, InSched, TicksHeld
  <2>5. PlaceInv'
    BY <1>1, <1>4, <2>1 DEF Types, SInv, PlaceInv, InSched
  <2>6. ForkOwns' /\ ForkUnique'
    BY <1>1, <1>4, <2>1, Constants DEF Types, SInv, ForkOwns, ForkUnique
  <2>7. ForkStack'
    BY <1>1, <1>4, <2>1, Constants DEF Types, SInv, ForkStack, ForkPlaces
  <2> QED BY <2>2, <2>3, <2>4, <2>5, <2>6, <2>7 DEF SInv
<1> QED BY <1>3, <1>4 DEF allocproc, Goto, IsFirst, Unused

\* What SInv says of the child a process in fork() is building: nobody else
\* builds it and no CPU runs it.
LEMMA ForkSlot ==
  ASSUME Types, SInv, NEW c \in CPUs, NEW p \in Slots, NEW loc \in ForkPlaces,
         At(c, p, loc)
  PROVE  /\ np[p] \in Slots /\ np[p] # p /\ state[np[p]] = "EMBRYO"
         /\ rpc[p] = "user" /\ rpc[np[p]] = "user"
         /\ kstack[np[p]] <=> loc \in {"fork_copy", "fork_ready"}
         /\ kstack[np[p]] => pc[np[p]] = "forkret"
         /\ pc[np[p]] \in {"forkret", "zombie"}
         /\ \A r \in Slots : r # p => np[r] # np[p]
         /\ \A d \in CPUs : cproc[d] # np[p]
         /\ loc \notin InSched \cup TicksHeld
<1>1. pc[p] = loc /\ state[p] = "RUNNING" /\ loc \notin InSched \cup TicksHeld
  BY DEF At, ForkPlaces, InSched, TicksHeld
<1>2. /\ np[p] \in Slots /\ state[np[p]] = "EMBRYO" /\ np[p] # NoProc
      /\ kstack[np[p]] <=> loc \in {"fork_copy", "fork_ready"}
      /\ kstack[np[p]] => pc[np[p]] = "forkret"
  BY <1>1 DEF SInv, ForkOwns, ForkStack
<1>3. /\ \A r \in Slots : r # p => np[r] # np[p]
      /\ \A d \in CPUs : cproc[d] # np[p]
  BY <1>2 DEF SInv, ForkUnique, CpuBusy
<1>4. /\ pc[np[p]] \in {"forkret", "zombie"}
      /\ rpc[p] = "user" /\ rpc[np[p]] = "user"
  BY <1>1, <1>2 DEF SInv, PlaceInv, InSched, ForkPlaces
<1> QED BY <1>1, <1>2, <1>3, <1>4

\* A failed fork gives its slot back, without ptable.lock.
LEMMA SlotFreed ==
  ASSUME Types, SInv, NEW c \in CPUs, NEW p \in Slots, NEW q \in Slots,
         q = np[p], q # p, ~kstack[q], state[q] = "EMBRYO",
         cproc[c] = p, state[p] = "RUNNING", rpc[p] = "user",
         pc[p] \notin InSched \cup TicksHeld,
         \A r \in Slots : r # p => np[r] # q,
         \A d \in CPUs : cproc[d] # q,
         state' = [state EXCEPT ![q] = "UNUSED"],
         np' = [np EXCEPT ![p] = NoProc],
         pc' = [pc EXCEPT ![p] = fork_failed(p)],
         UNCHANGED <<rpc, kstack, cproc, stage, intr, ptlock, tickslock>>
  PROVE  SInv'
<1>1. fork_failed(p) \notin InSched \cup TicksHeld \cup ForkPlaces
  BY DEF fork_failed, InSched, TicksHeld, ForkPlaces
<1>2. CpuUnique' /\ CpuIdle'
  BY DEF SInv, CpuUnique, CpuIdle
<1>3. CpuRunning' /\ StackInv'
  BY DEF Types, SInv, CpuRunning, StackInv
<1>4. CpuBusy'
  BY <1>1 DEF Types, SInv, CpuBusy
<1>5. PlaceInv'
  BY <1>1 DEF Types, SInv, PlaceInv, InSched
<1>6. ForkOwns' /\ ForkUnique'
  BY Constants DEF Types, SInv, ForkOwns, ForkUnique
<1>7. ForkStack'
  BY <1>1, Constants DEF Types, SInv, ForkStack, ForkPlaces
<1> QED BY <1>2, <1>3, <1>4, <1>5, <1>6, <1>7 DEF SInv

\* The rest of allocproc: the child gets a kernel stack, or its slot is given
\* back.
LEMMA fork_kstack_SInv ==
  ASSUME Types, SInv, NEW c \in CPUs, NEW p \in Slots, fork_kstack(c, p)
  PROVE  SInv'
<1>1. /\ UNCHANGED <<rpc, cproc, stage, intr, ptlock, tickslock>>
      /\ At(c, p, "fork_kstack")
      /\ cproc[c] = p /\ state[p] = "RUNNING" /\ pc[p] = "fork_kstack"
  BY DEF fork_kstack, At, schedVars
<1> DEFINE q == np[p]
<1>2. /\ q \in Slots /\ q # p /\ state[q] = "EMBRYO" /\ ~kstack[q]
      /\ rpc[p] = "user" /\ rpc[q] = "user" /\ pc[q] \in {"forkret", "zombie"}
      /\ \A r \in Slots : r # p => np[r] # q
      /\ \A d \in CPUs : cproc[d] # q
      /\ pc[p] \notin InSched \cup TicksHeld
  BY <1>1, ForkSlot DEF ForkPlaces
<1> HIDE DEF q
<1>3. CASE /\ kstack' = [kstack EXCEPT ![q] = TRUE]
           /\ pc' = [pc EXCEPT ![q] = "forkret", ![p] = "fork_copy"]
           /\ UNCHANGED <<state, np>>
  <2>1. CpuUnique' /\ CpuRunning' /\ CpuIdle' /\ ForkUnique'
    BY <1>1, <1>3 DEF SInv, CpuUnique, CpuRunning, CpuIdle, ForkUnique
  <2>2. CpuBusy'
    BY <1>1, <1>2, <1>3 DEF Types, SInv, CpuBusy, InSched, TicksHeld
  <2>3. PlaceInv'
    BY <1>1, <1>2, <1>3 DEF Types, SInv, PlaceInv, InSched
  <2>4. ForkOwns' /\ StackInv'
    BY <1>1, <1>2, <1>3 DEF Types, SInv, ForkOwns, StackInv, q
  <2>5. ForkStack'
    BY SMTT(20), <1>1, <1>2, <1>3, Constants
       DEF Types, SInv, ForkOwns, ForkStack, ForkPlaces, q
  <2> QED BY <2>1, <2>2, <2>3, <2>4, <2>5 DEF SInv
<1>4. CASE /\ state' = [state EXCEPT ![q] = "UNUSED"]
           /\ np' = [np EXCEPT ![p] = NoProc]
           /\ pc' = [pc EXCEPT ![p] = fork_failed(p)]
           /\ UNCHANGED kstack
  BY <1>1, <1>2, <1>4, SlotFreed, Zenon DEF q
<1> QED BY <1>3, <1>4 DEF fork_kstack, Goto, q

\* fork copies the memory of the parent, or frees the stack of the child.
LEMMA fork_copy_SInv ==
  ASSUME Types, SInv, NEW c \in CPUs, NEW p \in Slots, fork_copy(c, p)
  PROVE  SInv'
<1>1. /\ UNCHANGED <<state, rpc, np, cproc, stage, intr, ptlock, tickslock>>
      /\ At(c, p, "fork_copy")
      /\ cproc[c] = p /\ state[p] = "RUNNING" /\ pc[p] = "fork_copy"
  BY DEF fork_copy, At, schedVars, callVars
<1> DEFINE q == np[p]
<1>2. /\ q \in Slots /\ q # p /\ state[q] = "EMBRYO" /\ kstack[q]
      /\ rpc[p] = "user" /\ rpc[q] = "user" /\ pc[q] = "forkret"
      /\ \A r \in Slots : r # p => np[r] # q
      /\ \A d \in CPUs : cproc[d] # q
      /\ pc[p] \notin InSched \cup TicksHeld
  BY <1>1, ForkSlot DEF ForkPlaces
<1>3. \/ pc' = [pc EXCEPT ![p] = "fork_ready"] /\ kstack' = kstack
      \/ /\ pc' = [pc EXCEPT ![p] = "fork_undo"]
         /\ kstack' = [kstack EXCEPT ![q] = FALSE]
  BY DEF fork_copy, Goto
<1> HIDE DEF q
<1>4. CpuUnique' /\ CpuRunning' /\ CpuIdle' /\ ForkUnique'
  BY ZenonT(20), <1>1 DEF SInv, CpuUnique, CpuRunning, CpuIdle, ForkUnique
<1>5. CpuBusy'
  BY <1>1, <1>2, <1>3 DEF Types, SInv, CpuBusy, InSched, TicksHeld
<1>6. PlaceInv'
  BY <1>1, <1>2, <1>3 DEF Types, SInv, PlaceInv, InSched
<1>7. ForkOwns' /\ StackInv'
  BY <1>1, <1>2, <1>3 DEF Types, SInv, ForkOwns, StackInv
<1>8. ForkStack'
  BY SMTT(20), <1>1, <1>2, <1>3, Constants
     DEF Types, SInv, ForkOwns, ForkStack, ForkPlaces, q
<1> QED BY <1>4, <1>5, <1>6, <1>7, <1>8 DEF SInv

\* The error path of fork ends by giving the slot back.
LEMMA fork_undo_SInv ==
  ASSUME Types, SInv, NEW c \in CPUs, NEW p \in Slots, fork_undo(c, p)
  PROVE  SInv'
<1>1. /\ UNCHANGED <<rpc, kstack, cproc, stage, intr, ptlock, tickslock>>
      /\ At(c, p, "fork_undo")
      /\ cproc[c] = p /\ state[p] = "RUNNING" /\ pc[p] = "fork_undo"
      /\ state' = [state EXCEPT ![np[p]] = "UNUSED"]
      /\ np' = [np EXCEPT ![p] = NoProc]
      /\ pc' = [pc EXCEPT ![p] = fork_failed(p)]
  BY DEF fork_undo, At, Goto, schedVars
<1>2. /\ np[p] \in Slots /\ np[p] # p /\ state[np[p]] = "EMBRYO"
      /\ ~kstack[np[p]]
      /\ rpc[p] = "user" /\ pc[p] \notin InSched \cup TicksHeld
      /\ \A r \in Slots : r # p => np[r] # np[p]
      /\ \A d \in CPUs : cproc[d] # np[p]
  <2>0. At(c, p, "fork_undo")
    BY <1>1
  <2>1. /\ "fork_undo" \in ForkPlaces
        /\ "fork_undo" \notin {"fork_copy", "fork_ready"}
    BY DEF ForkPlaces
  <2>2. /\ np[p] \in Slots /\ np[p] # p /\ state[np[p]] = "EMBRYO"
        /\ rpc[p] = "user"
        /\ kstack[np[p]] <=> "fork_undo" \in {"fork_copy", "fork_ready"}
        /\ \A r \in Slots : r # p => np[r] # np[p]
        /\ \A d \in CPUs : cproc[d] # np[p]
        /\ "fork_undo" \notin InSched \cup TicksHeld
    BY <2>0, <2>1, ForkSlot
  <2> QED BY <1>1, <2>1, <2>2
<1> QED BY <1>1, <1>2, SlotFreed, Zenon

\* fork makes the child RUNNABLE, with its stack.
LEMMA fork_ready_SInv ==
  ASSUME Types, SInv, NEW c \in CPUs, NEW p \in Slots, fork_ready(c, p)
  PROVE  SInv'
<1>1. /\ UNCHANGED <<rpc, kstack, cproc, stage, intr, ptlock, tickslock>>
      /\ At(c, p, "fork_ready")
      /\ cproc[c] = p /\ state[p] = "RUNNING" /\ pc[p] = "fork_ready"
      /\ np' = [np EXCEPT ![p] = NoProc]
      /\ pc' = [pc EXCEPT ![p] = "user"]
  BY Zenon DEF fork_ready, Locked, At, Goto, schedVars
<1> DEFINE q == np[p]
<1>2. /\ q \in Slots /\ q # p /\ state[q] = "EMBRYO" /\ kstack[q]
      /\ rpc[p] = "user" /\ pc[q] = "forkret"
      /\ \A r \in Slots : r # p => np[r] # q
      /\ \A d \in CPUs : cproc[d] # q
      /\ pc[p] \notin InSched \cup TicksHeld
  <2>0. At(c, p, "fork_ready")
    BY <1>1
  <2>1. "fork_ready" \in ForkPlaces
    BY DEF ForkPlaces
  <2>2. /\ np[p] \in Slots /\ np[p] # p /\ state[np[p]] = "EMBRYO"
        /\ rpc[p] = "user"
        /\ kstack[np[p]] <=> "fork_ready" \in {"fork_copy", "fork_ready"}
        /\ kstack[np[p]] => pc[np[p]] = "forkret"
        /\ \A r \in Slots : r # p => np[r] # np[p]
        /\ \A d \in CPUs : cproc[d] # np[p]
        /\ "fork_ready" \notin InSched \cup TicksHeld
    BY <2>0, <2>1, ForkSlot
  <2> QED BY <1>1, <2>2
<1>3. state' = [state EXCEPT ![q] = "RUNNABLE"]
  BY DEF fork_ready
<1> HIDE DEF q
<1>4. CpuUnique' /\ CpuIdle'
  BY <1>1 DEF SInv, CpuUnique, CpuIdle
<1>5. CpuRunning' /\ StackInv'
  BY <1>1, <1>2, <1>3 DEF Types, SInv, CpuRunning, StackInv
<1>6. CpuBusy'
  BY <1>1, <1>2, <1>3 DEF Types, SInv, CpuBusy, InSched, TicksHeld
<1>7. PlaceInv'
  BY <1>1, <1>2, <1>3 DEF Types, SInv, PlaceInv, InSched
<1>a. ForkOwns'
  <2>1. \A r \in Slots : np'[r] # NoProc => r # p /\ np[r] # q /\ np'[r] = np[r]
    BY <1>1, <1>2 DEF Types
  <2> QED BY <1>1, <1>2, <1>3, <2>1 DEF Types, SInv, ForkOwns
<1>8. ForkUnique'
  BY <1>1 DEF Types, SInv, ForkUnique
<1>9. ForkStack'
  <2>1. pc'[p] \notin ForkPlaces /\ rpc[p] \notin ForkPlaces
    BY <1>1, <1>2 DEF Types, ForkPlaces
  <2>2. ASSUME NEW r \in Slots, r # p
        PROVE  pc'[r] = pc[r] /\ np'[r] = np[r]
    BY <1>1, <2>2 DEF Types
  <2>3. rpc' = rpc /\ kstack' = kstack
    BY <1>1
  <2> QED BY <2>1, <2>2, <2>3 DEF SInv, ForkStack
<1> QED BY <1>a, <1>4, <1>5, <1>6, <1>7, <1>8, <1>9 DEF SInv
=============================================================================
