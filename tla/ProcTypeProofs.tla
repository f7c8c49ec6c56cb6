--------------------------- MODULE ProcTypeProofs ---------------------------
(***************************************************************************)
(* Every step of Proc keeps every variable in its type, whatever the       *)
(* number of slots and CPUs, the scheduler of the build and the arguments  *)
(* of the calls. One lemma per operation: what the operation assigns is in *)
(* the type of the variable, the rest is unchanged.                        *)
(***************************************************************************)
EXTENDS Proc, TLAPS

\* The special values are outside the sets of CPUs and slots.
LEMMA Constants ==
  /\ NoCpu \notin CPUs /\ NoProc \notin Slots /\ initproc \in Slots
  /\ Slots \cup {NoProc} = 0..NPROC
BY ProcAssumption DEF NoCpu, CPUs, NoProc, Slots, initproc

\* Assigning a value of its range to an entry of a function keeps its type.
LEMMA ExceptType ==
  ASSUME NEW D, NEW R, NEW f \in [D -> R], NEW x, NEW v \in R
  PROVE  [f EXCEPT ![x] = v] \in [D -> R]
BY Zenon

\* What a process can sleep on is a channel.
LEMMA Chans ==
  /\ NoChan \in 0..TicksChan /\ TicksChan \in 0..TicksChan
  /\ \A p \in Slots : p \in 0..TicksChan
BY ProcAssumption DEF NoChan, TicksChan, Slots

\* Types after trap_syscall.
LEMMA trap_syscall_TypeOK ==
  ASSUME TypeOK, NEW c \in CPUs, NEW p \in Slots, trap_syscall(c, p)
  PROVE  TypeOK'
<1>1. TableTypes' /\ TimeTypes' /\ CpuTypes'
  BY DEF TypeOK, TableTypes, TimeTypes, CpuTypes, tableVars, timeVars,
     schedVars, trap_syscall
<1>2. ThreadTypes'
  BY ExceptType, Constants
     DEF TypeOK, ThreadTypes, Places, Calls, InSched, callVars, trap_syscall,
     Goto
<1> QED BY <1>1, <1>2 DEF TypeOK

\* Types after trap_fault.
LEMMA trap_fault_TypeOK ==
  ASSUME TypeOK, NEW c \in CPUs, NEW p \in Slots, trap_fault(c, p)
  PROVE  TypeOK'
<1>1. TimeTypes' /\ CpuTypes'
  BY DEF TypeOK, TimeTypes, CpuTypes, timeVars, schedVars, trap_fault
<1>2. TableTypes'
  BY ExceptType, Chans, Constants
     DEF TypeOK, TableTypes, ProcStates, tableVars, trap_fault
<1>3. ThreadTypes'
  BY ExceptType, Constants
     DEF TypeOK, ThreadTypes, Places, Calls, InSched, callVars, trap_fault,
     Goto
<1> QED BY <1>1, <1>2, <1>3 DEF TypeOK

\* Types after allocproc.
LEMMA allocproc_TypeOK ==
  ASSUME TypeOK, NEW c \in CPUs, NEW p \in Slots, allocproc(c, p)
  PROVE  TypeOK'
<1>1. CpuTypes'
  BY DEF TypeOK, CpuTypes, schedVars, allocproc, Locked
<1>2. TableTypes'
  BY ExceptType, Chans, Constants
     DEF TypeOK, TableTypes, ProcStates, tableVars, allocproc, take_pid,
     DefaultPriority
<1>3. TimeTypes'
  <2>1. CASE UNCHANGED <<timeVars, nextpid>>
    BY <2>1 DEF TypeOK, TimeTypes, timeVars, allocproc
  <2>2. ASSUME NEW q \in Slots, take_pid(q), start_times(q)
        PROVE  TimeTypes'
    BY <2>2, ExceptType
       DEF TypeOK, TimeTypes, allocproc, take_pid, start_times
  <2> QED BY <2>1, <2>2, Zenon DEF allocproc
<1>4. ThreadTypes'
  BY ExceptType, Constants
     DEF TypeOK, ThreadTypes, Places, Calls, InSched, callVars, allocproc,
     Goto, fork_failed
<1> QED BY <1>1, <1>2, <1>3, <1>4 DEF TypeOK

\* Types after fork_kstack.
LEMMA fork_kstack_TypeOK ==
  ASSUME TypeOK, NEW c \in CPUs, NEW p \in Slots, fork_kstack(c, p)
  PROVE  TypeOK'
<1>1. TimeTypes' /\ CpuTypes'
  BY DEF TypeOK, TimeTypes, CpuTypes, timeVars, schedVars, fork_kstack
<1>2. TableTypes'
  BY ExceptType, Chans, Constants
     DEF TypeOK, TableTypes, ProcStates, tableVars, fork_kstack
<1>3. ThreadTypes'
  BY ExceptType, Constants
     DEF TypeOK, ThreadTypes, Places, Calls, InSched, callVars, fork_kstack,
     Goto, fork_failed
<1> QED BY <1>1, <1>2, <1>3 DEF TypeOK

\* Types after fork_copy.
LEMMA fork_copy_TypeOK ==
  ASSUME TypeOK, NEW c \in CPUs, NEW p \in Slots, fork_copy(c, p)
  PROVE  TypeOK'
<1>1. TimeTypes' /\ CpuTypes'
  BY DEF TypeOK, TimeTypes, CpuTypes, timeVars, schedVars, fork_copy
<1>2. TableTypes'
  BY ExceptType, Chans, Constants
     DEF TypeOK, TableTypes, ProcStates, tableVars, fork_copy
<1>3. ThreadTypes'
  BY ExceptType, Constants
     DEF TypeOK, ThreadTypes, Places, Calls, InSched, callVars, fork_copy, Goto
<1> QED BY <1>1, <1>2, <1>3 DEF TypeOK

\* Types after fork_undo.
LEMMA fork_undo_TypeOK ==
  ASSUME TypeOK, NEW c \in CPUs, NEW p \in Slots, fork_undo(c, p)
  PROVE  TypeOK'
<1>1. TimeTypes' /\ CpuTypes'
  BY DEF TypeOK, TimeTypes, CpuTypes, timeVars, schedVars, fork_undo
<1>2. TableTypes'
  BY ExceptType, Chans, Constants
     DEF TypeOK, TableTypes, ProcStates, tableVars, fork_undo
<1>3. ThreadTypes'
  BY ExceptType, Constants
     DEF TypeOK, ThreadTypes, Places, Calls, InSched, callVars, fork_undo,
     Goto, fork_failed
<1> QED BY <1>1, <1>2, <1>3 DEF TypeOK

\* Types after fork_ready.
LEMMA fork_ready_TypeOK ==
  ASSUME TypeOK, NEW c \in CPUs, NEW p \in Slots, fork_ready(c, p)
  PROVE  TypeOK'
<1>1. TimeTypes' /\ CpuTypes'
  BY DEF TypeOK, TimeTypes, CpuTypes, timeVars, schedVars, fork_ready, Locked
<1>2. TableTypes'
  BY ExceptType, Chans, Constants
     DEF TypeOK, TableTypes, ProcStates, tableVars, fork_ready
<1>3. ThreadTypes'
  BY ExceptType, Constants
     DEF TypeOK, ThreadTypes, Places, Calls, InSched, callVars, fork_ready,
     Goto
<1> QED BY <1>1, <1>2, <1>3 DEF TypeOK

\* Types after exit_panic.
LEMMA exit_panic_TypeOK ==
  ASSUME TypeOK, NEW c \in CPUs, exit_panic(c)
  PROVE  TypeOK'
<1>1. TableTypes' /\ TimeTypes' /\ ThreadTypes'
  BY DEF TypeOK, TableTypes, TimeTypes, ThreadTypes, tableVars, timeVars,
     callVars, exit_panic
<1>2. CpuTypes'
  BY ExceptType, Constants DEF TypeOK, CpuTypes, schedVars, exit_panic
<1> QED BY <1>1, <1>2 DEF TypeOK

\* Types after exit.
LEMMA exit_TypeOK ==
  ASSUME TypeOK, NEW c \in CPUs, NEW p \in Slots, exit(c, p)
  PROVE  TypeOK'
<1>1. TimeTypes'
  BY DEF TypeOK, TimeTypes, timeVars, exit
<1>2. TableTypes'
  BY ExceptType, Chans, Constants
     DEF TypeOK, TableTypes, ProcStates, tableVars, exit, wakeup1, abandon
<1>3. CpuTypes'
  BY ExceptType, Constants DEF TypeOK, CpuTypes, schedVars, exit, Acquire
<1>4. ThreadTypes'
  BY ExceptType, Constants
     DEF TypeOK, ThreadTypes, Places, Calls, InSched, callVars, exit, Goto
<1> QED BY <1>1, <1>2, <1>3, <1>4 DEF TypeOK

\* Types after waitx_ret.
LEMMA waitx_ret_TypeOK ==
  ASSUME TypeOK, NEW c \in CPUs, NEW p \in Slots, waitx_ret(c, p)
  PROVE  TypeOK'
<1>1. TableTypes' /\ TimeTypes' /\ CpuTypes'
  BY DEF TypeOK, TableTypes, TimeTypes, CpuTypes, tableVars, timeVars,
     schedVars, waitx_ret
<1>2. ThreadTypes'
  BY ExceptType, Constants
     DEF TypeOK, ThreadTypes, Places, Calls, InSched, callVars, waitx_ret, Goto
<1> QED BY <1>1, <1>2 DEF TypeOK

\* Types after kill.
LEMMA kill_TypeOK ==
  ASSUME TypeOK, NEW c \in CPUs, NEW p \in Slots, kill(c, p)
  PROVE  TypeOK'
<1>1. TimeTypes' /\ CpuTypes'
  BY DEF TypeOK, TimeTypes, CpuTypes, timeVars, schedVars, kill, Locked
<1>2. TableTypes'
  BY ExceptType, Chans, Constants
     DEF TypeOK, TableTypes, ProcStates, tableVars, kill, after_kill
<1>3. ThreadTypes'
  BY ExceptType, Constants
     DEF TypeOK, ThreadTypes, Places, Calls, InSched, callVars, kill, Goto
<1> QED BY <1>1, <1>2, <1>3 DEF TypeOK

\* Types after setpriority.
LEMMA setpriority_TypeOK ==
  ASSUME TypeOK, NEW c \in CPUs, NEW p \in Slots, setpriority(c, p)
  PROVE  TypeOK'
<1>1. TimeTypes' /\ CpuTypes'
  BY DEF TypeOK, TimeTypes, CpuTypes, timeVars, schedVars, setpriority
<1>2. TableTypes'
  BY SMTT(20), ProcAssumption DEF TypeOK, TableTypes, setpriority, bad_priority
<1>3. ThreadTypes'
  BY ExceptType, Constants
     DEF TypeOK, ThreadTypes, Places, Calls, InSched, callVars, setpriority,
     Goto
<1> QED BY <1>1, <1>2, <1>3 DEF TypeOK

\* Types after sys_sleep.
LEMMA sys_sleep_TypeOK ==
  ASSUME TypeOK, NEW c \in CPUs, NEW p \in Slots, sys_sleep(c, p)
  PROVE  TypeOK'
<1>1. TableTypes' /\ TimeTypes'
  BY DEF TypeOK, TableTypes, TimeTypes, tableVars, timeVars, sys_sleep
<1>2. CpuTypes'
  BY ExceptType, Constants DEF TypeOK, CpuTypes, schedVars, sys_sleep
<1>3. ThreadTypes'
  BY ExceptType, Constants
     DEF TypeOK, ThreadTypes, Places, Calls, InSched, callVars, sys_sleep, Goto
<1> QED BY <1>1, <1>2, <1>3 DEF TypeOK

\* Types after sleep_check.
LEMMA sleep_check_TypeOK ==
  ASSUME TypeOK, NEW c \in CPUs, NEW p \in Slots, sleep_check(c, p)
  PROVE  TypeOK'
<1>1. TableTypes' /\ TimeTypes'
  BY DEF TypeOK, TableTypes, TimeTypes, tableVars, timeVars, sleep_check
<1>2. CpuTypes'
  BY ExceptType, Constants DEF TypeOK, CpuTypes, schedVars, sleep_check
<1>3. ThreadTypes'
  BY ExceptType, Constants
     DEF TypeOK, ThreadTypes, Places, Calls, InSched, callVars, sleep_check,
     Goto
<1> QED BY <1>1, <1>2, <1>3 DEF TypeOK

\* Types after sleep.
LEMMA sleep_TypeOK ==
  ASSUME TypeOK, NEW c \in CPUs, NEW p \in Slots, sleep(c, p)
  PROVE  TypeOK'
<1>1. TimeTypes'
  BY DEF TypeOK, TimeTypes, timeVars, sleep
<1>2. TableTypes'
  BY ExceptType, Chans, Constants
     DEF TypeOK, TableTypes, ProcStates, tableVars, sleep
<1>3. CpuTypes'
  BY ExceptType, Constants DEF TypeOK, CpuTypes, schedVars, sleep, Acquire
<1>4. ThreadTypes'
  BY ExceptType, Constants
     DEF TypeOK, ThreadTypes, Places, Calls, InSched, callVars, sleep, Goto
<1> QED BY <1>1, <1>2, <1>3, <1>4 DEF TypeOK

\* Types after sleep_resume.
LEMMA sleep_resume_TypeOK ==
  ASSUME TypeOK, NEW c \in CPUs, NEW p \in Slots, sleep_resume(c, p)
  PROVE  TypeOK'
<1>1. TimeTypes'
  BY DEF TypeOK, TimeTypes, timeVars, sleep_resume
<1>2. TableTypes'
  BY ExceptType, Chans, Constants
     DEF TypeOK, TableTypes, ProcStates, tableVars, sleep_resume
<1>3. CpuTypes'
  BY ExceptType, Constants
     DEF TypeOK, CpuTypes, schedVars, sleep_resume, Release
<1>4. ThreadTypes'
  BY ExceptType, Constants
     DEF TypeOK, ThreadTypes, Places, Calls, InSched, callVars, sleep_resume,
     Goto
<1> QED BY <1>1, <1>2, <1>3, <1>4 DEF TypeOK

\* Types after sleep_relock.
LEMMA sleep_relock_TypeOK ==
  ASSUME TypeOK, NEW c \in CPUs, NEW p \in Slots, sleep_relock(c, p)
  PROVE  TypeOK'
<1>1. TableTypes' /\ TimeTypes'
  BY DEF TypeOK, TableTypes, TimeTypes, tableVars, timeVars, sleep_relock
<1>2. CpuTypes'
  BY ExceptType, Constants DEF TypeOK, CpuTypes, schedVars, sleep_relock
<1>3. ThreadTypes'
  BY ExceptType, Constants
     DEF TypeOK, ThreadTypes, Places, Calls, InSched, callVars, sleep_relock,
     Goto
<1> QED BY <1>1, <1>2, <1>3 DEF TypeOK

\* Types after timer.
LEMMA timer_TypeOK ==
  ASSUME TypeOK, NEW c \in CPUs, timer(c)
  PROVE  TypeOK'
<1>1. TableTypes' /\ ThreadTypes'
  BY DEF TypeOK, TableTypes, ThreadTypes, tableVars, callVars, timer
<1>2. TimeTypes'
  BY ExceptType DEF TypeOK, TimeTypes, timeVars, timer
<1>3. CpuTypes'
  BY ExceptType, Constants
     DEF TypeOK, CpuTypes, schedVars, timer, Interruptible, AfterTick
<1> QED BY <1>1, <1>2, <1>3 DEF TypeOK

\* Types after timer_wakeup.
LEMMA timer_wakeup_TypeOK ==
  ASSUME TypeOK, NEW c \in CPUs, timer_wakeup(c)
  PROVE  TypeOK'
<1>1. TimeTypes' /\ ThreadTypes'
  BY DEF TypeOK, TimeTypes, ThreadTypes, timeVars, callVars, timer_wakeup
<1>2. TableTypes'
  BY ExceptType, Chans, Constants
     DEF TypeOK, TableTypes, ProcStates, tableVars, timer_wakeup, wakeup,
     wakeup1
<1>3. CpuTypes'
  BY ExceptType, Constants
     DEF TypeOK, CpuTypes, schedVars, timer_wakeup, Locked, AfterTick
<1> QED BY <1>1, <1>2, <1>3 DEF TypeOK

\* Types after yield.
LEMMA yield_TypeOK ==
  ASSUME TypeOK, NEW c \in CPUs, NEW p \in Slots, yield(c, p)
  PROVE  TypeOK'
<1>1. TimeTypes'
  BY DEF TypeOK, TimeTypes, timeVars, yield
<1>2. TableTypes'
  BY ExceptType, Chans, Constants
     DEF TypeOK, TableTypes, ProcStates, tableVars, yield
<1>3. CpuTypes'
  BY ExceptType, Constants DEF TypeOK, CpuTypes, schedVars, yield, Acquire
<1>4. ThreadTypes'
  BY SMTT(20), ExceptType, Constants
     DEF TypeOK, ThreadTypes, Places, Calls, InSched, callVars, yield, Goto
<1> QED BY <1>1, <1>2, <1>3, <1>4 DEF TypeOK

\* Types after yield_resume.
LEMMA yield_resume_TypeOK ==
  ASSUME TypeOK, NEW c \in CPUs, NEW p \in Slots, yield_resume(c, p)
  PROVE  TypeOK'
<1>1. TableTypes' /\ TimeTypes'
  BY DEF TypeOK, TableTypes, TimeTypes, tableVars, timeVars, yield_resume
<1>2. CpuTypes'
  BY ExceptType, Constants
     DEF TypeOK, CpuTypes, schedVars, yield_resume, Release
<1>3. ThreadTypes'
  BY ExceptType, Constants
     DEF TypeOK, ThreadTypes, Places, Calls, InSched, callVars, yield_resume,
     Goto
<1> QED BY <1>1, <1>2, <1>3 DEF TypeOK

\* Types after sched.
LEMMA sched_TypeOK ==
  ASSUME TypeOK, NEW c \in CPUs, NEW p \in Slots, sched(c, p)
  PROVE  TypeOK'
<1>1. TableTypes' /\ TimeTypes' /\ ThreadTypes'
  BY DEF TypeOK, TableTypes, TimeTypes, ThreadTypes, tableVars, timeVars,
     callVars, sched
<1>2. CpuTypes'
  BY ExceptType, Constants DEF TypeOK, CpuTypes, schedVars, sched
<1> QED BY <1>1, <1>2 DEF TypeOK

\* Types after scheduler.
LEMMA scheduler_TypeOK ==
  ASSUME TypeOK, ClockInv, NEW c \in CPUs, scheduler(c)
  PROVE  TypeOK'
<1>1. TableTypes' /\ ThreadTypes'
  BY DEF TypeOK, TableTypes, ThreadTypes, tableVars, callVars, scheduler
<1>2. TimeTypes'
  <2>1. \A q \in Slots : rtime[q] + (ticks - last_check[q]) \in Nat
    BY DEF TypeOK, TimeTypes, ClockInv
  <2> QED BY <2>1 DEF TypeOK, TimeTypes, scheduler
<1>3. CpuTypes'
  BY ExceptType, Constants
     DEF TypeOK, CpuTypes, schedVars, scheduler, Interruptible, Acquire,
     FirstStage
<1> QED BY <1>1, <1>2, <1>3 DEF TypeOK

\* Types after scheduler_run.
LEMMA scheduler_run_TypeOK ==
  ASSUME TypeOK, NEW c \in CPUs, scheduler_run(c)
  PROVE  TypeOK'
<1>1. TimeTypes' /\ ThreadTypes'
  BY DEF TypeOK, TimeTypes, ThreadTypes, timeVars, callVars, scheduler_run
<1>2. TableTypes'
  BY ExceptType, Chans, Constants
     DEF TypeOK, TableTypes, ProcStates, tableVars, scheduler_run, Candidates
<1>3. CpuTypes'
  BY ExceptType, Constants
     DEF TypeOK, CpuTypes, schedVars, scheduler_run
<1> QED BY <1>1, <1>2, <1>3 DEF TypeOK

\* Types after scheduler_next.
LEMMA scheduler_next_TypeOK ==
  ASSUME TypeOK, NEW c \in CPUs, scheduler_next(c)
  PROVE  TypeOK'
<1>1. TableTypes' /\ TimeTypes' /\ ThreadTypes'
  BY DEF TypeOK, TableTypes, TimeTypes, ThreadTypes, tableVars, timeVars,
     callVars, scheduler_next
<1>2. CpuTypes'
  BY ExceptType, Constants
     DEF TypeOK, CpuTypes, schedVars, scheduler_next, NextStage
<1> QED BY <1>1, <1>2 DEF TypeOK

\* Types after wait or waitx.
LEMMA wait_TypeOK ==
  ASSUME TypeOK, NEW c \in CPUs, NEW p \in Slots, wait(c, p) \/ waitx(c, p)
  PROVE  TypeOK'
<1>1. TimeTypes'
  BY DEF TypeOK, TimeTypes, timeVars, wait, waitx
<1>2. TableTypes'
  <2>1. 0 \in Nat /\ NoProc \in 0..NPROC
    BY Constants
  <2>2. state' \in [Slots -> ProcStates]
    BY Zenon, ExceptType
       DEF TypeOK, TableTypes, ProcStates, wait, waitx, scan_children
  <2>3. /\ pid' = pid \/ \E q \in Slots : pid' = [pid EXCEPT ![q] = 0]
        /\ \/ parent' = parent
           \/ \E q \in Slots : parent' = [parent EXCEPT ![q] = NoProc]
        /\ \E v \in {NoChan, p} : chan' = [chan EXCEPT ![p] = v]
    BY Zenon DEF wait, waitx, scan_children
  <2>4. /\ pid' \in [Slots -> Nat] /\ parent' \in [Slots -> 0..NPROC]
        /\ chan' \in [Slots -> 0..TicksChan]
    BY <2>1, <2>3, Chans DEF TypeOK, TableTypes
  <2>5. killed' \in [Slots -> BOOLEAN] /\ kstack' \in [Slots -> BOOLEAN]
    BY Zenon, ExceptType DEF TypeOK, TableTypes, wait, waitx, scan_children
  <2> QED BY <2>2, <2>4, <2>5 DEF TypeOK, TableTypes, wait, waitx
<1>3. CpuTypes'
  BY Zenon, ExceptType, Constants
     DEF TypeOK, CpuTypes, schedVars, wait, waitx, scan_children
<1>4. ThreadTypes'
  <2>1. pc' \in [Slots -> Places]
    BY Zenon, ExceptType
       DEF TypeOK, ThreadTypes, Places, Calls, InSched, wait, waitx,
       scan_children, Goto
  <2>2. wslot' \in [Slots -> 0..NPROC]
    <3>1. \/ wslot' = wslot
          \/ \E v \in 0..NPROC : wslot' = [wslot EXCEPT ![p] = v]
      BY Zenon, Constants DEF TypeOK, ThreadTypes, wait, waitx, scan_children
    <3> QED BY <3>1, ExceptType DEF TypeOK, ThreadTypes
  <2> QED BY <2>1, <2>2 DEF TypeOK, ThreadTypes, wait, waitx
<1> QED BY <1>1, <1>2, <1>3, <1>4 DEF TypeOK

\* last_check never lies in the future: it is set to the current ticks, and
\* ticks never goes back.
LEMMA Clock_Inv ==
  ASSUME TypeOK, ClockInv, [Next]_vars
  PROVE  ClockInv'
<1>1. CASE UNCHANGED <<last_check, ticks>>
  BY <1>1 DEF ClockInv
<1>2. ASSUME NEW c \in CPUs, NEW p \in Slots, allocproc(c, p)
      PROVE  ClockInv'
  BY <1>2 DEF TypeOK, TimeTypes, ClockInv, allocproc, start_times, timeVars
<1>3. ASSUME NEW c \in CPUs, timer(c)
      PROVE  ClockInv'
  BY <1>3 DEF TypeOK, TimeTypes, ClockInv, timer, timeVars
<1>4. ASSUME NEW c \in CPUs, scheduler(c)
      PROVE  ClockInv'
  BY <1>4 DEF TypeOK, TimeTypes, ClockInv, scheduler
<1>5. ASSUME NEW c \in CPUs, NEW p \in Slots, ThreadStep(c, p), ~allocproc(c, p)
      PROVE  UNCHANGED <<last_check, ticks>>
  BY Zenon, <1>5
     DEF ThreadStep, timeVars, trap_syscall, trap_fault, fork_kstack,
     fork_copy, fork_undo, fork_ready, exit, wait, waitx, waitx_ret, kill,
     setpriority, sys_sleep, sleep_check, sleep, sleep_resume, sleep_relock
<1>6. ASSUME NEW c \in CPUs, NEW p \in Slots, SwitchStep(c, p)
      PROVE  UNCHANGED <<last_check, ticks>>
  BY <1>6 DEF SwitchStep, timeVars, yield, yield_resume, sched
<1>7. ASSUME NEW c \in CPUs, CpuStep(c)
      PROVE  UNCHANGED <<last_check, ticks>>
  BY Zenon, <1>7
     DEF CpuStep, timeVars, timer_wakeup, exit_panic, scheduler_run,
     scheduler_next
<1>8. CASE UNCHANGED vars
  BY <1>1, <1>8 DEF vars, timeVars
<1> QED BY <1>1, <1>2, <1>3, <1>4, <1>5, <1>6, <1>7, <1>8, Zenon DEF Next

\* Every step keeps the types.
LEMMA Type_Inv ==
  ASSUME TypeOK, ClockInv, [Next]_vars
  PROVE  TypeOK'
<1>1. ASSUME NEW c \in CPUs, NEW p \in Slots, ThreadStep(c, p)
      PROVE  TypeOK'
  BY <1>1, trap_syscall_TypeOK, trap_fault_TypeOK, allocproc_TypeOK,
     fork_kstack_TypeOK, fork_copy_TypeOK, fork_undo_TypeOK, fork_ready_TypeOK,
     exit_TypeOK, wait_TypeOK, waitx_ret_TypeOK, kill_TypeOK,
     setpriority_TypeOK, sys_sleep_TypeOK, sleep_check_TypeOK, sleep_TypeOK,
     sleep_resume_TypeOK,
     sleep_relock_TypeOK, Zenon DEF ThreadStep
<1>2. ASSUME NEW c \in CPUs, NEW p \in Slots, SwitchStep(c, p)
      PROVE  TypeOK'
  BY <1>2, yield_TypeOK, yield_resume_TypeOK, sched_TypeOK, Zenon
     DEF SwitchStep
<1>3. ASSUME NEW c \in CPUs, CpuStep(c) \/ timer(c) \/ scheduler(c)
      PROVE  TypeOK'
  BY <1>3, timer_wakeup_TypeOK, exit_panic_TypeOK, scheduler_run_TypeOK,
     scheduler_next_TypeOK, timer_TypeOK, scheduler_TypeOK, Zenon DEF CpuStep
<1>4. CASE UNCHANGED vars
  BY <1>4
     DEF vars, tableVars, timeVars, schedVars, callVars, TypeOK, TableTypes,
     TimeTypes, CpuTypes, ThreadTypes
<1> QED BY <1>1, <1>2, <1>3, <1>4, Zenon DEF Next

\* userinit() and main() set up a state of the right type.
LEMMA Init_Type ==
  ASSUME Init
  PROVE  TypeOK /\ ClockInv
<1>1. TableTypes
  BY ProcAssumption, Chans, Constants
     DEF Init, TableTypes, ProcStates, NoProc, NoChan, DefaultPriority
<1>2. TimeTypes /\ ClockInv
  BY DEF Init, TimeTypes, ClockInv
<1>3. CpuTypes
  <2>1. /\ NoProc \in 0..NPROC /\ 1 \in 1..(NPROC + 1)
        /\ NoPriority \in 0..NoPriority
    BY ProcAssumption, Constants DEF NoPriority
  <2> QED BY Zenon, <2>1 DEF Init, CpuTypes
<1>4. ThreadTypes
  BY Constants DEF Init, ThreadTypes, Places, InSched
<1> QED BY <1>1, <1>2, <1>3, <1>4 DEF TypeOK

\* Type correctness: in every state the kernel reaches, every field of every
\* slot, every CPU and every kernel thread has a value of its type.  So a
\* priority stays within 0..100 whatever setpriority is called with, and the
\* accounting of scheduler() never makes a run time negative.
THEOREM TypeCorrect == Spec => []TypeOK
<1>1. Init => TypeOK /\ ClockInv
  BY Init_Type
<1>2. TypeOK /\ ClockInv /\ [Next]_vars => (TypeOK /\ ClockInv)'
  BY Type_Inv, Clock_Inv
<1> QED BY <1>1, <1>2, PTL DEF Spec

=============================================================================
