----------------------------- MODULE ProcProofs -----------------------------
(***************************************************************************)
(* With the types and the lemmas of the steps, IInv is an inductive        *)
(* invariant of Spec, and its consequences are theorems.                   *)
(***************************************************************************)
EXTENDS ProcSwitchProofs

\* The initial state: init is RUNNABLE and every CPU is in scheduler().
LEMMA Init_SInv ==
  ASSUME Init
  PROVE  SInv
<1>1. /\ state \in [Slots -> {"RUNNABLE", "UNUSED"}]
      /\ \A p \in Slots : /\ pc[p] = "forkret" /\ rpc[p] = "user"
                          /\ np[p] = NoProc
                          /\ state[p] = "RUNNABLE" => p = initproc
                          /\ state[p] = "UNUSED" => p # initproc
                          /\ kstack[p] <=> p = initproc
      /\ \A c \in CPUs : /\ cproc[c] = NoProc /\ stage[c] = "idle"
                         /\ intr[c] = "no"
      /\ ptlock = NoCpu /\ tickslock = NoCpu
  BY Zenon DEF Init
<1>2. CpuUnique /\ CpuRunning /\ CpuBusy /\ CpuIdle
  BY <1>1, Constants DEF CpuUnique, CpuRunning, CpuBusy, CpuIdle
<1>3. PlaceInv /\ ForkOwns /\ ForkUnique
  BY <1>1 DEF PlaceInv, ForkOwns, ForkUnique, InSched, TicksHeld
<1>4. ForkStack /\ StackInv
  BY <1>1 DEF ForkStack, StackInv, ForkPlaces
<1> QED BY <1>2, <1>3, <1>4 DEF SInv

\* Every step preserves SInv.
LEMMA Next_SInv ==
  ASSUME Types, SInv, [Next]_vars
  PROVE  SInv'
<1>1. ASSUME NEW c \in CPUs, NEW p \in Slots, ThreadStep(c, p)
      PROVE  SInv'
  BY <1>1, trap_SInv, allocproc_SInv, fork_kstack_SInv, fork_copy_SInv,
     fork_undo_SInv, fork_ready_SInv, exit_SInv, scan_children_SInv, kill_SInv,
     sys_sleep_SInv, sleep_check_SInv, sleep_SInv, sleep_resume_SInv, Zenon
     DEF ThreadStep
<1>2. ASSUME NEW c \in CPUs, NEW p \in Slots, SwitchStep(c, p)
      PROVE  SInv'
  BY <1>2, yield_SInv, yield_resume_SInv, sched_SInv, Zenon DEF SwitchStep
<1>3. ASSUME NEW c \in CPUs, CpuStep(c) \/ timer(c) \/ scheduler(c)
      PROVE  SInv'
  BY <1>3, timer_wakeup_SInv, exit_panic_SInv, scheduler_run_SInv,
     scheduler_next_SInv, timer_SInv, scheduler_SInv, Zenon DEF CpuStep
<1>4. CASE UNCHANGED vars
  BY <1>4, Stutter_SInv
     DEF vars, tableVars, schedVars, callVars, safetyVars
<1> QED BY <1>1, <1>2, <1>3, <1>4, Zenon DEF Next

\* The inductive invariant: whatever the numbers of slots and CPUs, what SInv
\* says of CPUs, kernel threads, locks and half-built children holds in every
\* state the kernel reaches.
THEOREM Inductive == Spec => []IInv
<1>1. Init => IInv
  BY Init_Type, Init_SInv DEF IInv
<1>2. IInv /\ [Next]_vars => IInv'
  BY Type_Inv, Clock_Inv, Next_SInv, TypesHold DEF IInv
<1> QED BY <1>1, <1>2, PTL DEF Spec

\* No process ever runs on two CPUs, and one that has stopped running keeps its
\* CPU only inside sched() with ptable.lock held (scheduler, sched).
THEOREM OneCpu == Spec => []OneCpuPerProcess
<1>1. IInv => OneCpuPerProcess
  <2> SUFFICES ASSUME IInv PROVE OneCpuPerProcess
    OBVIOUS
  <2>1. Types /\ SInv
    BY TypesHold DEF IInv
  <2>2. \A c, d \in CPUs : cproc[c] = cproc[d] /\ cproc[c] # NoProc => c = d
    BY <2>1 DEF Types, SInv, CpuUnique
  <2>3. \A p \in Slots : state[p] = "RUNNING" => \E c \in CPUs : cproc[c] = p
    BY <2>1 DEF SInv, CpuRunning
  <2>4. \A c \in CPUs : cproc[c] # NoProc /\ state[cproc[c]] # "RUNNING" =>
          ptlock = c /\ pc[cproc[c]] \in InSched
    BY <2>1 DEF Types, SInv, CpuBusy, PlaceInv
  <2> QED BY <2>2, <2>3, <2>4 DEF OneCpuPerProcess
<1> QED BY <1>1, Inductive, PTL

\* sched() never panics, forkret, yield and sleep release a lock that their CPU
\* holds, and no process that has exited runs again.
THEOREM NoSchedPanic == Spec => []SchedNeverPanics
<1>1. IInv => SchedNeverPanics
  <2> SUFFICES ASSUME IInv, NEW c \in CPUs, cproc[c] # NoProc,
                      pc[cproc[c]] \in InSched
               PROVE  /\ ptlock = c /\ tickslock # c
                      /\ pc[cproc[c]] = "zombie" => state[cproc[c]] = "ZOMBIE"
    BY DEF SchedNeverPanics
  <2>1. Types /\ SInv
    BY TypesHold DEF IInv
  <2> DEFINE p == cproc[c]
  <2>2. p \in Slots
    BY <2>1 DEF Types
  <2>3. /\ ptlock = c /\ intr[c] = "no" /\ state[p] \notin {"UNUSED", "EMBRYO"}
        /\ pc[p] \in TicksHeld \/ intr[c] = "tick" <=> tickslock = c
    BY <2>1, <2>2 DEF SInv, CpuBusy
  <2>4. pc[p] \notin TicksHeld
    BY DEF InSched, TicksHeld
  <2>5. pc[p] = "zombie" => state[p] = "ZOMBIE"
    BY <2>1, <2>2, <2>3 DEF SInv, PlaceInv
  <2> QED BY <2>3, <2>4, <2>5
<1> QED BY <1>1, Inductive, PTL

\* A CPU never runs a process on a freed kernel stack, a process keeps its stack
\* until wait() reaps it, and a free slot holds none (fork, wait, waitx).
THEOREM StacksOwned == Spec => []StackOwned
<1>1. IInv => StackOwned
  <2> SUFFICES ASSUME IInv PROVE StackOwned
    OBVIOUS
  <2>1. Types /\ SInv
    BY TypesHold DEF IInv
  <2>2. \A p \in Slots :
          state[p] \in {"SLEEPING", "RUNNABLE", "RUNNING", "ZOMBIE"}
            => kstack[p]
    BY <2>1 DEF SInv, StackInv
  <2>3. \A c \in CPUs : cproc[c] # NoProc => kstack[cproc[c]]
    BY <2>1, <2>2 DEF Types, SInv, CpuBusy, ProcStates
  <2> QED BY <2>1, <2>2, <2>3 DEF SInv, StackInv, StackOwned
<1> QED BY <1>1, Inductive, PTL
=============================================================================
