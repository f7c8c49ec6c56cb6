-------------------------- MODULE ProcSwitchProofs --------------------------
(***************************************************************************)
(* The clock interrupt, the context switches and the steps of scheduler()  *)
(* preserve the safety invariant SInv of Proc.                             *)
(***************************************************************************)
EXTENDS ProcWaitProofs

\* After a timer interrupt a CPU goes on or yields; in scheduler() it goes on.
LEMMA AfterTickValue ==
  ASSUME NEW c \in CPUs
  PROVE  /\ AfterTick(c) \in {"no", "resched"}
         /\ cproc[c] = NoProc => AfterTick(c) = "no"
BY DEF AfterTick

\* The clock interrupts only a CPU that holds neither lock.
LEMMA timer_SInv ==
  ASSUME Types, SInv, NEW c \in CPUs, timer(c)
  PROVE  SInv'
<1>1. /\ UNCHANGED <<state, pc, rpc, np, kstack, cproc, stage, ptlock>>
      /\ intr[c] = "no" /\ ptlock # c /\ tickslock # c
  BY DEF timer, Interruptible, tableVars, schedVars, callVars
<1>2. \/ /\ tickslock = NoCpu /\ tickslock' = c
         /\ intr' = [intr EXCEPT ![c] = "tick"]
      \/ /\ cproc[c] # NoProc /\ tickslock' = tickslock
         /\ intr' = [intr EXCEPT ![c] = "resched"]
  BY AfterTickValue DEF timer
<1>3. CpuUnique' /\ CpuRunning' /\ ForkUnique' /\ StackInv'
  BY <1>1 DEF SInv, CpuUnique, CpuRunning, ForkUnique, StackInv
<1>p. PlaceInv'
  BY <1>1 DEF SInv, PlaceInv
<1>f. ForkOwns' /\ ForkStack'
  BY <1>1 DEF SInv, ForkOwns, ForkStack
<1>4. CpuBusy'
  BY <1>1, <1>2, Constants DEF Types, SInv, CpuUnique, CpuBusy
<1>5. CpuIdle'
  BY <1>1, <1>2, Constants DEF Types, SInv, CpuBusy, CpuIdle
<1> QED BY <1>3, <1>f, <1>p, <1>4, <1>5 DEF SInv

\* CPU 0 wakes the sleepers on ticks and releases tickslock.
LEMMA timer_wakeup_SInv ==
  ASSUME Types, SInv, NEW c \in CPUs, timer_wakeup(c)
  PROVE  SInv'
<1>1. /\ UNCHANGED <<pc, rpc, np, kstack, cproc, stage, ptlock>>
      /\ intr[c] = "tick" /\ ptlock = NoCpu /\ tickslock' = NoCpu
      /\ intr' = [intr EXCEPT ![c] = AfterTick(c)]
  BY DEF timer_wakeup, Locked, schedVars, callVars
<1>2. /\ \A q \in Slots : \/ state'[q] = state[q]
                          \/ state[q] = "SLEEPING" /\ state'[q] = "RUNNABLE"
  BY DEF timer_wakeup, wakeup, wakeup1, Types
<1>3. tickslock = c
  BY <1>1, Constants DEF Types, SInv, CpuBusy, CpuIdle
<1>4. CpuUnique' /\ ForkUnique' /\ ForkStack'
  BY <1>1 DEF SInv, CpuUnique, ForkUnique, ForkStack
<1>5. CpuRunning' /\ PlaceInv' /\ ForkOwns' /\ StackInv'
  BY <1>1, <1>2 DEF SInv, CpuRunning, PlaceInv, ForkOwns, StackInv
<1>6. CpuBusy'
  BY <1>1, <1>2, <1>3, AfterTickValue, Constants DEF Types, SInv, CpuBusy
<1>7. CpuIdle'
  BY <1>1, <1>3, AfterTickValue, Constants DEF Types, SInv, CpuIdle
<1> QED BY <1>4, <1>5, <1>6, <1>7 DEF SInv

\* yield takes ptable.lock and enters sched().
LEMMA yield_SInv ==
  ASSUME Types, SInv, NEW c \in CPUs, NEW p \in Slots, yield(c, p)
  PROVE  SInv'
<1>1. /\ UNCHANGED <<np, kstack, cproc, stage, tickslock>>
      /\ cproc[c] = p /\ intr[c] \in {"resched", "no"}
      /\ ptlock = NoCpu /\ ptlock' = c
      /\ state' = [state EXCEPT ![p] = "RUNNABLE"]
      /\ intr' = [intr EXCEPT ![c] = "no"]
      /\ pc' = [pc EXCEPT ![p] = "yield"]
      /\ rpc' = [rpc EXCEPT ![p] = IF intr[c] = "resched"
                                   THEN pc[p] ELSE "user"]
      /\ intr[c] = "no" => pc[p] = "setpriority_yield"
  BY DEF yield, At, Goto, Acquire, schedVars, callVars
<1>2. /\ pc[p] \notin InSched \cup TicksHeld /\ tickslock # c
      /\ state[p] = "RUNNING" /\ kstack[p]
  BY <1>1, Constants
     DEF Types, SInv, CpuBusy, PlaceInv, StackInv, InSched, TicksHeld
<1>3. CpuUnique' /\ ForkUnique'
  BY <1>1 DEF SInv, CpuUnique, ForkUnique
<1>4. CpuRunning' /\ StackInv'
  BY <1>1, <1>2 DEF Types, SInv, CpuRunning, StackInv
<1>5. CpuBusy'
  BY <1>1, <1>2, Constants
     DEF Types, SInv, CpuUnique, CpuBusy, InSched, TicksHeld
<1>6. CpuIdle'
  BY <1>1, <1>2, Constants DEF Types, SInv, CpuIdle
<1>7. PlaceInv'
  BY <1>1, <1>2 DEF Types, SInv, PlaceInv, InSched, TicksHeld
<1>8. ForkOwns'
  BY <1>1, <1>2 DEF Types, SInv, ForkOwns
<1>9. ForkStack'
  BY <1>1, <1>2 DEF Types, SInv, ForkStack, ForkPlaces
<1> QED BY <1>3, <1>4, <1>5, <1>6, <1>7, <1>8, <1>9 DEF SInv

\* A thread back in yield or forkret releases ptable.lock.
LEMMA yield_resume_SInv ==
  ASSUME Types, SInv, NEW c \in CPUs, NEW p \in Slots, yield_resume(c, p)
  PROVE  SInv'
<1>1. /\ UNCHANGED <<state, np, kstack, cproc, stage, intr, tickslock>>
      /\ cproc[c] = p /\ state[p] = "RUNNING" /\ intr[c] = "no"
      /\ ptlock = c /\ ptlock' = NoCpu
      /\ rpc' = [rpc EXCEPT ![p] = "user"]
      /\ pc[p] \in {"yield", "forkret"}
      /\ pc' = [pc EXCEPT ![p] = IF pc[p] = "yield" THEN rpc[p] ELSE "user"]
  BY DEF yield_resume, Resumed, Release, At, Goto, tableVars, schedVars,
     callVars
<1>2. /\ rpc[p] \notin InSched \cup TicksHeld
      /\ \A d \in CPUs : cproc[d] = p => d = c
      /\ tickslock # c /\ stage[c] # "idle"
  BY <1>1 DEF SInv, PlaceInv, CpuUnique, CpuBusy, TicksHeld
<1>3. CpuUnique' /\ CpuRunning' /\ ForkUnique' /\ StackInv'
  BY <1>1 DEF SInv, CpuUnique, CpuRunning, ForkUnique, StackInv
<1>4. CpuBusy'
  <2>1. /\ pc'[p] \notin InSched \cup TicksHeld
        /\ \A r \in Slots : r # p => pc'[r] = pc[r]
    BY <1>1, <1>2 DEF Types, InSched, TicksHeld
  <2> QED BY <1>1, <1>2, <2>1, Constants DEF SInv, CpuBusy
<1>5. CpuIdle'
  BY <1>1, <1>2, Constants DEF SInv, CpuIdle
<1>6. PlaceInv'
  BY <1>1, <1>2 DEF Types, SInv, PlaceInv, InSched, TicksHeld
<1>7. ForkOwns'
  <2>1. \A r \in Slots : np[r] # p
    BY <1>1, Constants DEF SInv, ForkOwns
  <2> QED BY <1>1, <2>1 DEF Types, SInv, ForkOwns
<1>8. ForkStack'
  BY <1>1, <1>2 DEF Types, SInv, ForkStack, ForkPlaces
<1> QED BY <1>3, <1>4, <1>5, <1>6, <1>7, <1>8 DEF SInv

\* The switch to the scheduler hands ptable.lock over to it.
LEMMA sched_SInv ==
  ASSUME Types, SInv, NEW c \in CPUs, NEW p \in Slots, sched(c, p)
  PROVE  SInv'
<1>1. /\ UNCHANGED <<state, pc, rpc, np, kstack, stage, intr, ptlock,
                     tickslock>>
      /\ cproc[c] = p /\ state[p] # "RUNNING" /\ ptlock = c
      /\ pc[p] \in InSched
      /\ cproc' = [cproc EXCEPT ![c] = NoProc]
  BY DEF sched, tableVars, schedVars, callVars
<1>2. /\ stage[c] # "idle" /\ intr[c] = "no" /\ tickslock # c
  BY <1>1 DEF SInv, CpuBusy, InSched, TicksHeld
<1>3. PlaceInv' /\ ForkOwns' /\ ForkUnique' /\ ForkStack' /\ StackInv'
  BY SMTT(20), <1>1
     DEF SInv, PlaceInv, ForkOwns, ForkUnique, ForkStack, StackInv
<1>4. CpuUnique' /\ CpuRunning'
  BY SMTT(20), <1>1, Constants DEF Types, SInv, CpuUnique, CpuRunning
<1>5. CpuBusy'
  BY <1>1, Constants DEF Types, SInv, CpuBusy
<1>6. CpuIdle'
  BY <1>1, <1>2, Constants DEF Types, SInv, CpuIdle
<1> QED BY <1>3, <1>4, <1>5, <1>6 DEF SInv

\* scheduler() starts in one of its cases, and falls through or ends.
LEMMA StageValues ==
  /\ FirstStage \in {"fcfs", "prio", "rr"}
  /\ \A s \in {"fcfs", "prio", "rr"} : NextStage(s) \in {"idle", "prio", "rr"}
BY DEF FirstStage, NextStage

\* The scheduler takes ptable.lock and enters the switch.
LEMMA scheduler_SInv ==
  ASSUME Types, SInv, NEW c \in CPUs, scheduler(c)
  PROVE  SInv'
<1>1. /\ UNCHANGED <<state, pc, rpc, np, kstack, cproc, intr, tickslock>>
      /\ stage[c] = "idle" /\ intr[c] = "no" /\ tickslock # c
      /\ ptlock = NoCpu /\ ptlock' = c
      /\ stage' = [stage EXCEPT ![c] = FirstStage]
  BY DEF scheduler, Interruptible, Acquire, tableVars, callVars
<1>2. cproc[c] = NoProc
  BY <1>1 DEF Types, SInv, CpuBusy
<1>3. CpuUnique' /\ CpuRunning' /\ ForkUnique' /\ StackInv'
  BY <1>1 DEF SInv, CpuUnique, CpuRunning, ForkUnique, StackInv
<1>p. PlaceInv'
  BY <1>1 DEF SInv, PlaceInv
<1>f. ForkOwns' /\ ForkStack'
  BY <1>1 DEF SInv, ForkOwns, ForkStack
<1>4. CpuBusy'
  BY <1>1, <1>2, Constants DEF Types, SInv, CpuBusy
<1>5. CpuIdle'
  BY <1>1, <1>2, StageValues, Constants DEF Types, SInv, CpuIdle
<1> QED BY <1>f, <1>p, <1>3, <1>4, <1>5 DEF SInv

\* The switch to a RUNNABLE process, which is on no CPU, hands the lock over to
\* it.
LEMMA scheduler_run_SInv ==
  ASSUME Types, SInv, NEW c \in CPUs, scheduler_run(c)
  PROVE  SInv'
<1>1. /\ UNCHANGED <<pc, rpc, np, kstack, stage, intr, ptlock, tickslock>>
      /\ stage[c] # "idle" /\ cproc[c] = NoProc /\ ptlock = c
  BY DEF scheduler_run, callVars
<1>2. PICK q \in Slots :
        /\ q \in Candidates(c)
        /\ cproc' = [cproc EXCEPT ![c] = q]
        /\ state' = [state EXCEPT ![q] = "RUNNING"]
  BY Zenon DEF scheduler_run, IsFirst
<1>3. state[q] = "RUNNABLE"
  BY <1>2 DEF Candidates, Runnable
<1>4. /\ pc[q] \in InSched /\ pc[q] # "zombie" /\ kstack[q]
      /\ intr[c] = "no" /\ tickslock # c
      /\ \A r \in Slots : np[r] # q
  BY <1>1, <1>3, Constants
     DEF SInv, PlaceInv, StackInv, CpuIdle, ForkOwns
<1>5. \A d \in CPUs : cproc[d] # q
  BY <1>1, <1>4, Constants DEF SInv, CpuBusy
<1>6. ForkUnique' /\ ForkStack'
  BY <1>1 DEF SInv, ForkUnique, ForkStack
<1>7. CpuUnique' /\ CpuRunning'
  BY <1>1, <1>2, <1>5, Constants DEF Types, SInv, CpuUnique, CpuRunning
<1>8. CpuBusy'
  BY <1>1, <1>2, <1>4, <1>5, Constants
     DEF Types, SInv, CpuBusy, InSched, TicksHeld
<1>9. CpuIdle'
  BY <1>1, <1>2, Constants DEF Types, SInv, CpuIdle
<1>10. PlaceInv'
  BY <1>1, <1>2, <1>4 DEF Types, SInv, PlaceInv
<1>11. ForkOwns' /\ StackInv'
  BY <1>1, <1>2, <1>4 DEF Types, SInv, ForkOwns, StackInv
<1> QED BY <1>6, <1>7, <1>8, <1>9, <1>10, <1>11 DEF SInv

\* At the end of a case the scheduler keeps the lock or releases it.
LEMMA scheduler_next_SInv ==
  ASSUME Types, SInv, NEW c \in CPUs, scheduler_next(c)
  PROVE  SInv'
<1>1. /\ UNCHANGED <<state, pc, rpc, np, kstack, cproc, intr, tickslock>>
      /\ stage[c] # "idle" /\ cproc[c] = NoProc /\ ptlock = c
      /\ stage' = [stage EXCEPT ![c] = NextStage(stage[c])]
      /\ ptlock' = IF NextStage(stage[c]) = "idle" THEN NoCpu ELSE c
  BY DEF scheduler_next, tableVars, callVars
<1>2. CpuUnique' /\ CpuRunning' /\ ForkUnique' /\ StackInv'
  BY <1>1 DEF SInv, CpuUnique, CpuRunning, ForkUnique, StackInv
<1>p. PlaceInv'
  BY <1>1 DEF SInv, PlaceInv
<1>f. ForkOwns' /\ ForkStack'
  BY <1>1 DEF SInv, ForkOwns, ForkStack
<1>3. CpuBusy'
  BY SMTT(20), <1>1, Constants DEF Types, SInv, CpuBusy
<1>4. CpuIdle'
  BY <1>1, Constants DEF Types, SInv, CpuIdle
<1> QED BY <1>f, <1>p, <1>2, <1>3, <1>4 DEF SInv

\* A CPU that panics in exit() of init stops where it is.
LEMMA exit_panic_SInv ==
  ASSUME Types, SInv, NEW c \in CPUs, exit_panic(c)
  PROVE  SInv'
<1>1. /\ UNCHANGED <<state, pc, rpc, np, kstack, cproc, stage, ptlock,
                     tickslock>>
      /\ cproc[c] = initproc /\ pc[initproc] = "exit" /\ intr[c] = "no"
      /\ intr' = [intr EXCEPT ![c] = "panic"]
  BY Zenon DEF exit_panic, At, tableVars, schedVars, callVars
<1>2. pc[initproc] \notin InSched \cup TicksHeld
  BY <1>1 DEF InSched, TicksHeld
<1>3. CpuUnique' /\ CpuRunning' /\ ForkUnique' /\ StackInv'
  BY <1>1 DEF SInv, CpuUnique, CpuRunning, ForkUnique, StackInv
<1>p. PlaceInv'
  BY <1>1 DEF SInv, PlaceInv
<1>f. ForkOwns' /\ ForkStack'
  BY <1>1 DEF SInv, ForkOwns, ForkStack
<1>4. CpuBusy'
  BY <1>1, <1>2 DEF Types, SInv, CpuUnique, CpuBusy
<1>5. CpuIdle'
  BY <1>1, Constants DEF Types, SInv, CpuIdle
<1> QED BY <1>3, <1>f, <1>p, <1>4, <1>5 DEF SInv
=============================================================================
