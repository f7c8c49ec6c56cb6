--------------------------- MODULE ProcWaitProofs ---------------------------
(***************************************************************************)
(* exit, kill, wait, waitx and the steps of sys_sleep preserve the safety  *)
(* invariant SInv of Proc.                                                 *)
(***************************************************************************)
EXTENDS ProcForkProofs

\* exit makes the process a zombie that holds ptable.lock, and wakes sleepers
\* only.
LEMMA exit_SInv ==
  ASSUME Types, SInv, NEW c \in CPUs, NEW p \in Slots, exit(c, p)
  PROVE  SInv'
<1>1. /\ UNCHANGED <<rpc, np, kstack, cproc, stage, intr, tickslock>>
      /\ cproc[c] = p /\ state[p] = "RUNNING" /\ pc[p] = "exit"
      /\ intr[c] = "no"
      /\ ptlock = NoCpu /\ ptlock' = c
      /\ pc' = [pc EXCEPT ![p] = "zombie"]
  BY DEF exit, Acquire, At, Goto, schedVars, callVars
<1>2. /\ state'[p] = "ZOMBIE"
      /\ \A q \in Slots \ {p} :
           \/ state'[q] = state[q]
           \/ state[q] = "SLEEPING" /\ state'[q] = "RUNNABLE"
  BY DEF exit, wakeup1, Types
<1>3. pc[p] \notin InSched \cup TicksHeld /\ kstack[p]
  BY <1>1 DEF SInv, StackInv, InSched, TicksHeld
<1>4. CpuUnique' /\ ForkUnique'
  BY <1>1 DEF SInv, CpuUnique, ForkUnique
<1>5. CpuRunning' /\ StackInv'
  BY <1>1, <1>2, <1>3 DEF SInv, CpuRunning, StackInv
<1>6. CpuBusy'
  BY <1>1, <1>2, <1>3, Constants
     DEF Types, SInv, CpuUnique, CpuBusy, InSched, TicksHeld
<1>7. CpuIdle'
  BY <1>1, <1>3, Constants DEF SInv, CpuIdle
<1>8. PlaceInv'
  BY <1>1, <1>2 DEF Types, SInv, PlaceInv, InSched
<1>9. ForkOwns' /\ ForkStack'
  BY <1>1, <1>2 DEF Types, SInv, ForkOwns, ForkStack, ForkPlaces
<1> QED BY <1>4, <1>5, <1>6, <1>7, <1>8, <1>9 DEF SInv

\* kill wakes a sleeper at most.
LEMMA kill_SInv ==
  ASSUME Types, SInv, NEW c \in CPUs, NEW p \in Slots, kill(c, p)
  PROVE  SInv'
<1>1. /\ UNCHANGED <<rpc, np, kstack, cproc, stage, intr, ptlock, tickslock>>
      /\ cproc[c] = p /\ state[p] = "RUNNING" /\ pc[p] = "kill"
      /\ pc' = [pc EXCEPT ![p] = "user"]
  BY Zenon DEF kill, Locked, At, Goto, schedVars, callVars
<1>2. \A q \in Slots : \/ state'[q] = state[q]
                       \/ state[q] = "SLEEPING" /\ state'[q] = "RUNNABLE"
  BY Zenon DEF kill, after_kill, Types
<1>3. pc[p] \notin InSched \cup TicksHeld
  BY <1>1 DEF InSched, TicksHeld
<1>4. CpuUnique' /\ CpuIdle' /\ ForkUnique'
  BY <1>1 DEF SInv, CpuUnique, CpuIdle, ForkUnique
<1>5. CpuRunning' /\ StackInv'
  BY <1>1, <1>2 DEF SInv, CpuRunning, StackInv
<1>6. CpuBusy'
  BY <1>1, <1>2, <1>3 DEF Types, SInv, CpuBusy, InSched, TicksHeld
<1>7. PlaceInv'
  BY <1>1, <1>2 DEF Types, SInv, PlaceInv, InSched
<1>8. ForkOwns' /\ ForkStack'
  BY <1>1, <1>2 DEF Types, SInv, ForkOwns, ForkStack, ForkPlaces
<1> QED BY <1>4, <1>5, <1>6, <1>7, <1>8 DEF SInv

\* wait and waitx reap a zombie that no CPU runs any more, return, or go to
\* sleep.
LEMMA scan_children_SInv ==
  ASSUME Types, SInv, NEW c \in CPUs, NEW p \in Slots,
         wait(c, p) \/ waitx(c, p)
  PROVE  SInv'
<1>1. /\ UNCHANGED <<rpc, np, cproc, stage, intr, tickslock>>
      /\ cproc[c] = p /\ state[p] = "RUNNING" /\ intr[c] = "no"
      /\ pc[p] \in {"wait", "wait_sleep", "waitx", "waitx_sleep"}
      /\ ptlock = NoCpu \/ ptlock = c
  BY Zenon DEF wait, waitx, At, Resumed, schedVars
<1>a. pc[p] \notin TicksHeld /\ \A r \in Slots : np[r] # p
  BY <1>1, Constants DEF SInv, ForkOwns, TicksHeld
<1>b. rpc[p] = "user" /\ kstack[p] /\ stage[c] # "idle" /\ tickslock # c
  BY <1>1, <1>a, Constants DEF SInv, CpuBusy, PlaceInv, StackInv
<1>2. /\ \A d \in CPUs : cproc[d] = p => d = c
      /\ \A d \in CPUs : d # c => ptlock # d
      /\ pc[p] \notin TicksHeld /\ rpc[p] = "user" /\ kstack[p]
      /\ stage[c] # "idle" /\ tickslock # c
      /\ \A r \in Slots : np[r] # p
  BY <1>1, <1>a, <1>b, Constants DEF SInv, CpuUnique
<1>3. ASSUME NEW ret \in {"user", "waitx_ret"}, pc' = [pc EXCEPT ![p] = ret],
             ptlock' = NoCpu, UNCHANGED <<state, kstack>>
      PROVE  SInv'
  <2>1. CpuUnique' /\ CpuRunning' /\ ForkUnique' /\ StackInv'
    BY <1>1, <1>3
       DEF SInv, CpuUnique, CpuRunning, ForkUnique, StackInv
  <2>2. CpuBusy'
    BY <1>1, <1>2, <1>3, Constants
       DEF Types, SInv, CpuBusy, InSched, TicksHeld
  <2>3. CpuIdle'
    BY ZenonT(20), <1>1, <1>2, <1>3, Constants DEF SInv, CpuIdle
  <2>4. PlaceInv'
    BY <1>1, <1>2, <1>3 DEF Types, SInv, PlaceInv, InSched
  <2>5. ForkOwns' /\ ForkStack'
    BY <1>1, <1>2, <1>3 DEF Types, SInv, ForkOwns, ForkStack, ForkPlaces
  <2> QED BY <2>1, <2>2, <2>3, <2>4, <2>5 DEF SInv
<1>4. ASSUME NEW ret \in {"user", "waitx_ret"}, pc' = [pc EXCEPT ![p] = ret],
             ptlock' = NoCpu, NEW q \in Slots, state[q] = "ZOMBIE",
             state' = [state EXCEPT ![q] = "UNUSED"],
             kstack' = [kstack EXCEPT ![q] = FALSE]
      PROVE  SInv'
  <2>1. /\ q # p /\ \A r \in Slots : np[r] # q
        /\ pc[q] = "zombie"
    BY <1>1, <1>4, Constants DEF SInv, ForkOwns, PlaceInv
  <2>2. \A d \in CPUs : cproc[d] # q
    BY ZenonT(20), <1>1, <1>2, <2>1 DEF SInv, CpuBusy, InSched
  <2>3. CpuUnique' /\ ForkUnique'
    BY <1>1 DEF SInv, CpuUnique, ForkUnique
  <2>4. CpuRunning' /\ StackInv'
    BY <1>1, <1>4, <2>1 DEF Types, SInv, CpuRunning, StackInv
  <2>5. CpuBusy'
    BY SMTT(20), <1>1, <1>2, <1>4, <2>1, <2>2, Constants
       DEF Types, SInv, CpuBusy, InSched, TicksHeld
  <2>6. CpuIdle'
    BY <1>1, <1>2, <1>4, Constants DEF SInv, CpuIdle
  <2>7. PlaceInv'
    BY <1>1, <1>2, <1>4, <2>1, <2>2
       DEF Types, SInv, PlaceInv, InSched
  <2>8. ForkOwns' /\ ForkStack'
    BY <1>1, <1>2, <1>4, <2>1 DEF Types, SInv, ForkOwns, ForkStack, ForkPlaces
  <2> QED BY <2>3, <2>4, <2>5, <2>6, <2>7, <2>8 DEF SInv
<1>5. ASSUME NEW loc \in {"wait_sleep", "waitx_sleep"},
             pc' = [pc EXCEPT ![p] = loc], ptlock' = c,
             state' = [state EXCEPT ![p] = "SLEEPING"], UNCHANGED kstack
      PROVE  SInv'
  <2>1. CpuUnique' /\ ForkUnique'
    BY <1>1 DEF SInv, CpuUnique, ForkUnique
  <2>2. CpuRunning' /\ StackInv'
    BY <1>1, <1>2, <1>5 DEF Types, SInv, CpuRunning, StackInv
  <2>3. CpuBusy'
    BY <1>1, <1>2, <1>5, Constants
       DEF Types, SInv, CpuBusy, InSched, TicksHeld
  <2>4. CpuIdle'
    BY <1>1, <1>2, <1>5, Constants DEF SInv, CpuIdle
  <2>5. PlaceInv'
    BY <1>1, <1>2, <1>5 DEF Types, SInv, PlaceInv, InSched
  <2>6. ForkOwns' /\ ForkStack'
    BY SMTT(20), <1>1, <1>2, <1>5
       DEF Types, SInv, ForkOwns, ForkStack, ForkPlaces
  <2> QED BY <2>1, <2>2, <2>3, <2>4, <2>5, <2>6 DEF SInv
<1>6. \/ \E ret \in {"user", "waitx_ret"} :
           /\ pc' = [pc EXCEPT ![p] = ret] /\ ptlock' = NoCpu
           /\ UNCHANGED <<state, kstack>>
      \/ \E ret \in {"user", "waitx_ret"}, q \in Slots :
           /\ pc' = [pc EXCEPT ![p] = ret] /\ ptlock' = NoCpu
           /\ state[q] = "ZOMBIE" /\ state' = [state EXCEPT ![q] = "UNUSED"]
           /\ kstack' = [kstack EXCEPT ![q] = FALSE]
      \/ \E loc \in {"wait_sleep", "waitx_sleep"} :
           /\ pc' = [pc EXCEPT ![p] = loc] /\ ptlock' = c
           /\ state' = [state EXCEPT ![p] = "SLEEPING"] /\ UNCHANGED kstack
  BY Zenon DEF wait, waitx, scan_children, IsFirst, Goto
<1> QED BY <1>3, <1>4, <1>5, <1>6

\* sys_sleep, and its loop after a wakeup, take tickslock.
LEMMA sys_sleep_SInv ==
  ASSUME Types, SInv, NEW c \in CPUs, NEW p \in Slots,
         sys_sleep(c, p) \/ sleep_relock(c, p)
  PROVE  SInv'
<1>1. /\ UNCHANGED <<state, rpc, np, kstack, cproc, stage, intr, ptlock>>
      /\ cproc[c] = p /\ state[p] = "RUNNING" /\ intr[c] = "no"
      /\ pc[p] \in {"sleep", "sleep_wake"}
      /\ tickslock = NoCpu /\ tickslock' = c
      /\ pc' = [pc EXCEPT ![p] = "sleep_check"]
  BY DEF sys_sleep, sleep_relock, At, Goto, tableVars, schedVars, callVars
<1>2. CpuUnique' /\ CpuRunning' /\ ForkUnique' /\ StackInv'
  BY <1>1 DEF SInv, CpuUnique, CpuRunning, ForkUnique, StackInv
<1>3. CpuBusy'
  BY SMTT(20), <1>1, Constants
     DEF Types, SInv, CpuUnique, CpuBusy, InSched, TicksHeld
<1>4. CpuIdle'
  BY <1>1, Constants DEF SInv, CpuIdle
<1>5. PlaceInv'
  BY <1>1 DEF Types, SInv, PlaceInv, InSched
<1>6. ForkOwns' /\ ForkStack'
  BY <1>1 DEF Types, SInv, ForkOwns, ForkStack, ForkPlaces
<1> QED BY <1>2, <1>3, <1>4, <1>5, <1>6 DEF SInv

\* The test of the loop of sys_sleep is made with tickslock held.
LEMMA sleep_check_SInv ==
  ASSUME Types, SInv, NEW c \in CPUs, NEW p \in Slots, sleep_check(c, p)
  PROVE  SInv'
<1>1. /\ UNCHANGED <<state, rpc, np, kstack, cproc, stage, intr, ptlock>>
      /\ cproc[c] = p /\ state[p] = "RUNNING" /\ intr[c] = "no"
      /\ pc[p] = "sleep_check"
      /\ \/ tickslock' = NoCpu /\ pc' = [pc EXCEPT ![p] = "user"]
         \/ tickslock' = tickslock /\ pc' = [pc EXCEPT ![p] = "sleep_go"]
  BY DEF sleep_check, At, Goto, tableVars, schedVars, callVars
<1>2. tickslock = c
  BY <1>1 DEF SInv, CpuBusy, TicksHeld
<1>3. CpuUnique' /\ CpuRunning' /\ ForkUnique' /\ StackInv'
  BY <1>1 DEF SInv, CpuUnique, CpuRunning, ForkUnique, StackInv
<1>4. CpuBusy'
  BY <1>1, <1>2, Constants
     DEF Types, SInv, CpuUnique, CpuBusy, InSched, TicksHeld
<1>5. CpuIdle'
  BY <1>1, <1>2, Constants DEF SInv, CpuIdle
<1>6. PlaceInv'
  BY <1>1 DEF Types, SInv, PlaceInv, InSched
<1>7. ForkOwns' /\ ForkStack'
  BY <1>1 DEF Types, SInv, ForkOwns, ForkStack, ForkPlaces
<1> QED BY <1>3, <1>4, <1>5, <1>6, <1>7 DEF SInv

\* sleep takes ptable.lock before it releases tickslock.
LEMMA sleep_SInv ==
  ASSUME Types, SInv, NEW c \in CPUs, NEW p \in Slots, sleep(c, p)
  PROVE  SInv'
<1>1. /\ UNCHANGED <<rpc, np, kstack, cproc, stage, intr>>
      /\ cproc[c] = p /\ state[p] = "RUNNING" /\ intr[c] = "no"
      /\ pc[p] = "sleep_go"
      /\ ptlock = NoCpu /\ ptlock' = c /\ tickslock' = NoCpu
      /\ state' = [state EXCEPT ![p] = "SLEEPING"]
      /\ pc' = [pc EXCEPT ![p] = "sleep_sleep"]
  BY DEF sleep, Acquire, At, Goto, schedVars, callVars
<1>a. tickslock = c
  BY <1>1 DEF SInv, CpuBusy, TicksHeld
<1>b. kstack[p]
  BY <1>1 DEF SInv, StackInv
<1>c. \A r \in Slots : np[r] # p
  BY <1>1, Constants DEF SInv, ForkOwns
<1>2. tickslock = c /\ kstack[p] /\ \A r \in Slots : np[r] # p
  BY <1>a, <1>b, <1>c
<1>3. CpuUnique' /\ ForkUnique'
  BY <1>1 DEF SInv, CpuUnique, ForkUnique
<1>4. CpuRunning' /\ StackInv'
  BY <1>1, <1>2 DEF Types, SInv, CpuRunning, StackInv
<1>5. CpuBusy'
  <2>1. ASSUME NEW d \in CPUs, NEW q \in Slots, cproc[d] = q
        PROVE  IF q = p THEN d = c
               ELSE d # c /\ pc[q] \notin InSched \cup TicksHeld
                    /\ intr[d] # "tick"
    BY <1>1, <1>2, <2>1, Constants DEF SInv, CpuUnique, CpuBusy
  <2> QED
    BY <1>1, <2>1, Constants
       DEF Types, SInv, CpuBusy, InSched, TicksHeld
<1>6. CpuIdle'
  BY <1>1, <1>2, Constants DEF SInv, CpuIdle
<1>7. PlaceInv'
  BY SMTT(20), <1>1 DEF Types, SInv, PlaceInv, InSched
<1>8. ForkOwns' /\ ForkStack'
  BY <1>1, <1>2 DEF Types, SInv, ForkOwns, ForkStack, ForkPlaces
<1> QED BY <1>3, <1>4, <1>5, <1>6, <1>7, <1>8 DEF SInv

\* A woken sleeper releases the ptable.lock it was switched to with.
LEMMA sleep_resume_SInv ==
  ASSUME Types, SInv, NEW c \in CPUs, NEW p \in Slots, sleep_resume(c, p)
  PROVE  SInv'
<1>1. /\ UNCHANGED <<state, rpc, np, kstack, cproc, stage, intr, tickslock>>
      /\ cproc[c] = p /\ state[p] = "RUNNING" /\ intr[c] = "no"
      /\ pc[p] = "sleep_sleep"
      /\ ptlock = c /\ ptlock' = NoCpu
      /\ pc' = [pc EXCEPT ![p] = "sleep_wake"]
  BY Zenon DEF sleep_resume, Resumed, Release, At, Goto, schedVars, callVars
<1>2. CpuUnique' /\ CpuRunning' /\ ForkUnique' /\ StackInv'
  BY <1>1 DEF SInv, CpuUnique, CpuRunning, ForkUnique, StackInv
<1>3. CpuBusy'
  <2>1. ASSUME NEW d \in CPUs, NEW q \in Slots, cproc[d] = q
        PROVE  IF q = p THEN d = c ELSE d # c /\ pc[q] \notin InSched
    BY <1>1, <2>1, Constants DEF SInv, CpuUnique, CpuBusy
  <2> QED
    BY <1>1, <2>1, Constants
       DEF Types, SInv, CpuBusy, InSched, TicksHeld
<1>4. CpuIdle'
  BY <1>1, Constants DEF SInv, CpuIdle
<1>5. PlaceInv'
  BY <1>1 DEF Types, SInv, PlaceInv, InSched
<1>6. ForkOwns' /\ ForkStack'
  BY <1>1 DEF Types, SInv, ForkOwns, ForkStack, ForkPlaces
<1> QED BY <1>2, <1>3, <1>4, <1>5, <1>6 DEF SInv
=============================================================================
