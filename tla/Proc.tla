-------------------------------- MODULE Proc --------------------------------
(***************************************************************************)
(* The process table and the per-CPU schedulers of the kernel: proc.c,     *)
(* with the parts of trap.c and sysproc.c that enter it.                   *)
(*                                                                         *)
(* A step is a stretch of kernel code between two points where another CPU *)
(* can matter: a critical section of ptable.lock or tickslock, a context   *)
(* switch (swtch), or a stretch that touches the table with no lock held.  *)
(* Process slots are the numbers 1..NPROC in table order, so "the first    *)
(* slot such that" is the least one.                                       *)
(***************************************************************************)
EXTENDS Integers, FiniteSets

CONSTANTS
  NPROC,         \* slots of ptable.proc
  NCPU,          \* CPUs, numbered from 0; CPU 0 counts the clock ticks
  SCHEDFLAG,     \* first letter of the build's SCHEDFLAG: "F", "P", "M" or "R"
  SyscallTable,  \* the calls user programs make
  KillArgs,      \* pids they pass to kill
  SleepArgs,     \* tick counts they pass to sleep
  PriorityArgs,  \* priorities they pass to setpriority
  OutOfMemory,   \* may kalloc fail?
  MaxPid,        \* bound: allocproc hands out pids up to MaxPid
  MaxTicks       \* bound: ticks stops counting at MaxTicks

ASSUME ProcAssumption ==
  /\ NPROC \in Nat \ {0}
  /\ NCPU \in Nat \ {0}
  /\ SCHEDFLAG \in {"F", "P", "M", "R"}
  /\ KillArgs \subseteq Int
  /\ SleepArgs \subseteq Nat /\ 0 \in SleepArgs
  /\ PriorityArgs \subseteq Int
  /\ OutOfMemory \in BOOLEAN
  /\ MaxPid \in Nat \ {0}
  /\ MaxTicks \in Nat

Slots == 1..NPROC
CPUs == 0..(NCPU - 1)
NoProc == 0
NoCpu == -1
initproc == 1           \* userinit() runs first, so it gets slot 1 and pid 1
NoChan == 0             \* chan is a process slot (wait) or &ticks (sys_sleep)
TicksChan == NPROC + 1
DefaultPriority == 60
NoPriority == 101       \* priority_chosen when nothing is RUNNABLE

ProcStates == {"UNUSED", "EMBRYO", "SLEEPING", "RUNNABLE", "RUNNING", "ZOMBIE"}

\* Where the kernel thread of a slot stands.  In the InSched places it is
\* inside sched(): about to switch away, or waiting to be switched back to.
InSched == {"forkret", "yield", "wait_sleep", "waitx_sleep", "sleep_sleep",
            "zombie"}
Calls == {"fork", "exit", "wait", "waitx", "kill", "sleep", "setpriority"}
Places == InSched \cup Calls \cup
  {"user", "fork_kstack", "fork_copy", "fork_undo", "fork_ready", "waitx_ret",
   "setpriority_yield", "sleep_check", "sleep_go", "sleep_wake"}

VARIABLES
  state, pid, parent, chan, killed, kstack, priority,  \* struct proc
  ctime, rtime, last_check,                            \* struct proc, times
  nextpid, ticks,
  ptlock, tickslock,          \* the CPU holding ptable.lock, tickslock
  cproc,                      \* cpus[c].proc
  stage, idx, chosen,         \* scheduler(): case, p of its loop, priority_chosen
  intr,                       \* how far CPU c is in a timer interrupt
  pc, rpc,                    \* kernel thread: place, and where yield returns
  np,                         \* fork(): the child being built
  until,                      \* sys_sleep(): ticks0 + n
  wslot,                      \* waitx(): the child it reaped
  shpid                       \* init program: pid of the shell it started

tableVars == <<state, pid, parent, chan, killed, kstack, priority>>
timeVars  == <<ctime, rtime, last_check>>
schedVars == <<stage, idx, chosen>>
callVars  == <<np, until, wslot, shpid>>
vars == <<tableVars, timeVars, nextpid, ticks, ptlock, tickslock, cproc,
          schedVars, intr, pc, rpc, callVars>>

-----------------------------------------------------------------------------
\* userinit() and the scheduler() each CPU enters at the end of main().
Init ==
  /\ state = [p \in Slots |-> IF p = initproc THEN "RUNNABLE" ELSE "UNUSED"]
  /\ pid = [p \in Slots |-> IF p = initproc THEN 1 ELSE 0]
  /\ parent = [p \in Slots |-> NoProc]
  /\ chan = [p \in Slots |-> NoChan]
  /\ killed = [p \in Slots |-> FALSE]
  /\ kstack = [p \in Slots |-> p = initproc]
  /\ priority = [p \in Slots |-> IF p = initproc THEN DefaultPriority ELSE 0]
  /\ ctime = [p \in Slots |-> 0]
  /\ rtime = [p \in Slots |-> 0]
  /\ last_check = [p \in Slots |-> 0]
  /\ nextpid = 2
  /\ ticks = 0
  /\ ptlock = NoCpu /\ tickslock = NoCpu
  /\ cproc = [c \in CPUs |-> NoProc]
  /\ stage = [c \in CPUs |-> "idle"]
  /\ idx = [c \in CPUs |-> 1]
  /\ chosen = [c \in CPUs |-> NoPriority]
  /\ intr = [c \in CPUs |-> "no"]
  /\ pc = [p \in Slots |-> "forkret"]
  /\ rpc = [p \in Slots |-> "user"]
  /\ np = [p \in Slots |-> NoProc]
  /\ until = [p \in Slots |-> 0]
  /\ wslot = [p \in Slots |-> NoProc]
  /\ shpid = 0

-----------------------------------------------------------------------------
IsFirst(q, S) == q \in S /\ \A r \in S : q <= r

\* CPU c runs the kernel thread of p, which stands at loc, outside a timer
\* interrupt.  myproc() is p.
At(c, p, loc) ==
  cproc[c] = p /\ pc[p] = loc /\ state[p] = "RUNNING" /\ intr[c] = "no"

\* The scheduler of c has just switched to p, which stands at loc in sched().
Resumed(c, p, loc) == At(c, p, loc) /\ ptlock = c

Goto(p, loc) == pc' = [pc EXCEPT ![p] = loc]
\* Mutant: acquire() does not wait for the holder.
AcquireNoSpin(c) == ptlock' = c
Acquire(c) == ptlock = NoCpu /\ ptlock' = c
Release(c) == ptlock = c /\ ptlock' = NoCpu
\* A whole critical section of ptable.lock in one step.
Locked == ptlock = NoCpu /\ ptlock' = NoCpu

\* wakeup1 for every channel in chans, as a new value of state.
wakeup1(chans) ==
  [q \in Slots |-> IF state[q] = "SLEEPING" /\ chan[q] \in chans
                   THEN "RUNNABLE" ELSE state[q]]

\* Mutant: nobody is woken.
wakeupNobody(ch) == state
wakeup(ch) == wakeup1({ch})

-----------------------------------------------------------------------------
\* Bound: no fork is called that could need a pid beyond MaxPid.
PidsLeft ==
  nextpid + Cardinality({q \in Slots : "fork" \in {pc[q], rpc[q]}}) <= MaxPid

\* The init program (init.c) forks a shell, and waits until it has reaped it.
init_call(num) ==
  IF (\E q \in Slots : parent[q] = initproc /\ pid[q] = shpid) \/ ~PidsLeft
  THEN num = "wait" ELSE num = "fork"

\* System call entry in trap(): a killed process exits instead.
trap_syscall(c, p) ==
  /\ At(c, p, "user")
  /\ \/ killed[p] /\ Goto(p, "exit")
     \/ /\ ~killed[p]
        /\ \E num \in Calls :
             /\ IF p = initproc THEN init_call(num)
                ELSE num \in SyscallTable /\ (num = "fork" => PidsLeft)
             /\ Goto(p, num)
  /\ UNCHANGED <<tableVars, timeVars, nextpid, ticks, ptlock, tickslock, cproc,
                 schedVars, intr, rpc, callVars>>

\* The default case of trap(): a fault in user space kills the process.
trap_fault(c, p) ==
  /\ At(c, p, "user") /\ p # initproc /\ "fault" \in SyscallTable
  /\ killed' = [killed EXCEPT ![p] = TRUE]
  /\ Goto(p, "exit")
  /\ UNCHANGED <<state, pid, parent, chan, kstack, priority, timeVars, nextpid,
                 ticks, ptlock, tickslock, cproc, schedVars, intr, rpc,
                 callVars>>

\* fork(), first the locked part of allocproc().
Unused == {q \in Slots : state[q] = "UNUSED"}

take_pid(q) ==
  pid' = [pid EXCEPT ![q] = nextpid] /\ nextpid' = nextpid + 1

start_times(q) ==
  /\ ctime' = [ctime EXCEPT ![q] = ticks]
  /\ rtime' = [rtime EXCEPT ![q] = 0]
  /\ last_check' = [last_check EXCEPT ![q] = ticks]

\* fork() returned -1: the init program then calls exit().
fork_failed(p) == IF p = initproc THEN "exit" ELSE "user"

allocproc(c, p) ==
  /\ At(c, p, "fork")
  /\ Locked
  /\ \/ /\ Unused = {} /\ Goto(p, fork_failed(p))
        /\ UNCHANGED <<state, pid, priority, timeVars, nextpid, np, shpid>>
     \/ \E q \in Slots :
          /\ IsFirst(q, Unused)
          /\ state' = [state EXCEPT ![q] = "EMBRYO"]
          /\ take_pid(q) /\ start_times(q)
          /\ priority' = [priority EXCEPT ![q] = DefaultPriority]
          /\ np' = [np EXCEPT ![p] = q]
          /\ shpid' = IF p = initproc THEN nextpid ELSE shpid
          /\ Goto(p, "fork_kstack")
  /\ UNCHANGED <<parent, chan, killed, kstack, ticks, tickslock, cproc,
                 schedVars, intr, rpc, until, wslot>>

\* The rest of allocproc(), with no lock held: kalloc a kernel stack, whose
\* context starts at forkret, or give the slot back.
fork_kstack(c, p) ==
  /\ At(c, p, "fork_kstack")
  /\ LET q == np[p] IN
     \/ /\ kstack' = [kstack EXCEPT ![q] = TRUE]
        /\ pc' = [pc EXCEPT ![q] = "forkret", ![p] = "fork_copy"]
        /\ UNCHANGED <<state, np>>
     \/ /\ OutOfMemory
        /\ state' = [state EXCEPT ![q] = "UNUSED"]
        /\ np' = [np EXCEPT ![p] = NoProc]
        /\ Goto(p, fork_failed(p))
        /\ UNCHANGED kstack
  /\ UNCHANGED <<pid, parent, chan, killed, priority, timeVars, nextpid, ticks,
                 ptlock, tickslock, cproc, schedVars, intr, rpc, until, wslot,
                 shpid>>

\* Mutant: the kernel stack is not freed when copyuvm fails.
fork_copyLeak(c, p) ==
  /\ At(c, p, "fork_copy")
  /\ \/ /\ parent' = [parent EXCEPT ![np[p]] = p]
        /\ Goto(p, "fork_ready")
     \/ OutOfMemory /\ Goto(p, "fork_undo") /\ UNCHANGED parent
  /\ UNCHANGED <<state, pid, chan, killed, kstack, priority, timeVars, nextpid,
                 ticks, ptlock, tickslock, cproc, schedVars, intr, rpc, callVars>>

\* fork() copies the memory of the parent, with no lock held; when copyuvm
\* fails it frees the kernel stack first ...
fork_copy(c, p) ==
  /\ At(c, p, "fork_copy")
  /\ \/ /\ parent' = [parent EXCEPT ![np[p]] = p]
        /\ Goto(p, "fork_ready")
        /\ UNCHANGED kstack
     \/ /\ OutOfMemory
        /\ kstack' = [kstack EXCEPT ![np[p]] = FALSE]
        /\ Goto(p, "fork_undo")
        /\ UNCHANGED parent
  /\ UNCHANGED <<state, pid, chan, killed, priority, timeVars, nextpid, ticks,
                 ptlock, tickslock, cproc, schedVars, intr, rpc, callVars>>

\* ... and then the slot, still with no lock.
fork_undo(c, p) ==
  /\ At(c, p, "fork_undo")
  /\ state' = [state EXCEPT ![np[p]] = "UNUSED"]
  /\ np' = [np EXCEPT ![p] = NoProc]
  /\ Goto(p, fork_failed(p))
  /\ UNCHANGED <<pid, parent, chan, killed, kstack, priority, timeVars, nextpid,
                 ticks, ptlock, tickslock, cproc, schedVars, intr, rpc, until,
                 wslot, shpid>>

\* The end of fork().
fork_ready(c, p) ==
  /\ At(c, p, "fork_ready")
  /\ Locked
  /\ state' = [state EXCEPT ![np[p]] = "RUNNABLE"]
  /\ np' = [np EXCEPT ![p] = NoProc]
  /\ Goto(p, "user")
  /\ UNCHANGED <<pid, parent, chan, killed, kstack, priority, timeVars, nextpid,
                 ticks, tickslock, cproc, schedVars, intr, rpc, until, wslot,
                 shpid>>

\* exit() of initproc: panic("init exiting") stops the CPU for good.
exit_panic(c) ==
  /\ At(c, initproc, "exit")
  /\ intr' = [intr EXCEPT ![c] = "panic"]
  /\ UNCHANGED <<tableVars, timeVars, nextpid, ticks, ptlock, tickslock, cproc,
                 schedVars, pc, rpc, callVars>>

\* exit() wakes the parent, and init if it inherits a zombie ...
\* Mutant: init is not woken for the zombies it inherits.
woken_by_exitParentOnly(p) == {parent[p]}
\* Mutant: the parent is not woken.
woken_by_exitInitOnly(p) ==
  {initproc : q \in {q \in Slots : parent[q] = p /\ state[q] = "ZOMBIE"}}
woken_by_exit(p) ==
  {parent[p]} \cup
  {initproc : q \in {q \in Slots : parent[q] = p /\ state[q] = "ZOMBIE"}}

\* ... to which it passes its children.
\* Mutant: it does not.
abandonNot(p) == parent
abandon(p) == [q \in Slots |-> IF parent[q] = p THEN initproc ELSE parent[q]]

\* exit() up to its call of sched().
exit(c, p) ==
  /\ At(c, p, "exit") /\ p # initproc
  /\ Acquire(c)
  /\ parent' = abandon(p)
  /\ state' = [wakeup1(woken_by_exit(p)) EXCEPT ![p] = "ZOMBIE"]
  /\ Goto(p, "zombie")
  /\ UNCHANGED <<pid, chan, killed, kstack, priority, timeVars, nextpid, ticks,
                 tickslock, cproc, schedVars, intr, rpc, callVars>>

-----------------------------------------------------------------------------
\* The loop body of wait() and waitx(), run with ptable.lock held: reap the
\* first zombie child, give up, or go to sleep on p itself.  ret is where the
\* call continues with a child, loc where its thread sleeps.
scan_children(c, p, ret, loc) ==
  LET kids == {q \in Slots : parent[q] = p}
      dead == {q \in kids : state[q] = "ZOMBIE"}
  IN
  \/ /\ \E q \in Slots :
          /\ IsFirst(q, dead)
          /\ kstack' = [kstack EXCEPT ![q] = FALSE]
          /\ pid' = [pid EXCEPT ![q] = 0]
          /\ parent' = [parent EXCEPT ![q] = NoProc]
          /\ killed' = [killed EXCEPT ![q] = FALSE]
          /\ state' = [state EXCEPT ![q] = "UNUSED"]
          /\ wslot' = [wslot EXCEPT ![p] = IF ret = "waitx_ret" THEN q ELSE @]
     /\ chan' = [chan EXCEPT ![p] = NoChan]
     /\ Goto(p, ret)
     /\ ptlock' = NoCpu
  \/ /\ dead = {} /\ (kids = {} \/ killed[p])
     /\ chan' = [chan EXCEPT ![p] = NoChan]
     /\ Goto(p, "user")
     /\ ptlock' = NoCpu
     /\ UNCHANGED <<kstack, pid, parent, killed, state, wslot>>
  \/ /\ dead = {} /\ kids # {} /\ ~killed[p]
     /\ chan' = [chan EXCEPT ![p] = p]
     /\ state' = [state EXCEPT ![p] = "SLEEPING"]
     /\ Goto(p, loc)
     /\ ptlock' = c
     /\ UNCHANGED <<kstack, pid, parent, killed, wslot>>

wait(c, p) ==
  /\ \/ At(c, p, "wait") /\ ptlock = NoCpu
     \/ Resumed(c, p, "wait_sleep")
  /\ scan_children(c, p, "user", "wait_sleep")
  /\ UNCHANGED <<priority, timeVars, nextpid, ticks, tickslock, cproc,
                 schedVars, intr, rpc, np, until, shpid>>

waitx(c, p) ==
  /\ \/ At(c, p, "waitx") /\ ptlock = NoCpu
     \/ Resumed(c, p, "waitx_sleep")
  /\ scan_children(c, p, "waitx_ret", "waitx_sleep")
  /\ UNCHANGED <<priority, timeVars, nextpid, ticks, tickslock, cproc,
                 schedVars, intr, rpc, np, until, shpid>>

\* The waiting time waitx() stores for its caller: read from the slot of the child
\* it reaped, after ptable.lock is released.
waitx_wtime(p) == ticks - ctime[wslot[p]] - rtime[wslot[p]]

waitx_ret(c, p) ==
  /\ At(c, p, "waitx_ret")
  /\ wslot' = [wslot EXCEPT ![p] = NoProc]
  /\ Goto(p, "user")
  /\ UNCHANGED <<tableVars, timeVars, nextpid, ticks, ptlock, tickslock, cproc,
                 schedVars, intr, rpc, np, until, shpid>>

\* Mutant: kill() does not wake a sleeping process.
after_killAsleep(s) == s
after_kill(s) == IF s = "SLEEPING" THEN "RUNNABLE" ELSE s

\* kill(): the first slot that holds the pid, whatever its state.
kill(c, p) ==
  /\ At(c, p, "kill")
  /\ Locked
  /\ \E k \in KillArgs :
       LET match == {q \in Slots : pid[q] = k} IN
       \/ match = {} /\ UNCHANGED <<killed, state>>
       \/ \E q \in Slots :
            /\ IsFirst(q, match)
            /\ killed' = [killed EXCEPT ![q] = TRUE]
            /\ state' = [state EXCEPT ![q] = after_kill(@)]
  /\ Goto(p, "user")
  /\ UNCHANGED <<pid, parent, chan, kstack, priority, timeVars, nextpid, ticks,
                 tickslock, cproc, schedVars, intr, rpc, callVars>>

\* Mutant: negative priorities are let through.
bad_priorityUpper(v) == v > 100
bad_priority(v) == v > 100 \/ v < 0

\* setpriority(): writes the priority with no lock, and yields if it went down.
setpriority(c, p) ==
  /\ At(c, p, "setpriority")
  /\ \E v \in PriorityArgs :
       \/ bad_priority(v) /\ Goto(p, "user") /\ UNCHANGED priority
       \/ /\ ~bad_priority(v)
          /\ priority' = [priority EXCEPT ![p] = v]
          /\ Goto(p, IF v < priority[p] THEN "setpriority_yield" ELSE "user")
  /\ UNCHANGED <<state, pid, parent, chan, killed, kstack, timeVars, nextpid,
                 ticks, ptlock, tickslock, cproc, schedVars, intr, rpc,
                 callVars>>

-----------------------------------------------------------------------------
\* sys_sleep(): record the deadline ticks0 + n.
sys_sleep(c, p) ==
  /\ At(c, p, "sleep")
  /\ tickslock = NoCpu /\ tickslock' = c
  /\ \E n \in SleepArgs :
       ticks + n <= MaxTicks /\ until' = [until EXCEPT ![p] = ticks + n]
  /\ Goto(p, "sleep_check")
  /\ UNCHANGED <<tableVars, timeVars, nextpid, ticks, ptlock, cproc, schedVars,
                 intr, rpc, np, wslot, shpid>>

\* Its loop: return when the time is over or the process is killed ...
sleep_check(c, p) ==
  /\ At(c, p, "sleep_check")
  /\ \/ /\ ticks >= until[p] \/ killed[p]
        /\ tickslock' = NoCpu
        /\ until' = [until EXCEPT ![p] = 0]
        /\ Goto(p, "user")
     \/ /\ ticks < until[p] /\ ~killed[p]
        /\ Goto(p, "sleep_go")
        /\ UNCHANGED <<tickslock, until>>
  /\ UNCHANGED <<tableVars, timeVars, nextpid, ticks, ptlock, cproc, schedVars,
                 intr, rpc, np, wslot, shpid>>

\* ... or sleep(&ticks, &tickslock): take ptable.lock, only then release
\* tickslock, and go to sleep.
sleep(c, p) ==
  /\ At(c, p, "sleep_go")
  /\ Acquire(c)
  /\ tickslock' = NoCpu
  /\ chan' = [chan EXCEPT ![p] = TicksChan]
  /\ state' = [state EXCEPT ![p] = "SLEEPING"]
  /\ Goto(p, "sleep_sleep")
  /\ UNCHANGED <<pid, parent, killed, kstack, priority, timeVars, nextpid,
                 ticks, cproc, schedVars, intr, rpc, callVars>>

\* The end of sleep(): tidy up, release ptable.lock, retake tickslock.
sleep_resume(c, p) ==
  /\ Resumed(c, p, "sleep_sleep")
  /\ chan' = [chan EXCEPT ![p] = NoChan]
  /\ Release(c)
  /\ Goto(p, "sleep_wake")
  /\ UNCHANGED <<state, pid, parent, killed, kstack, priority, timeVars,
                 nextpid, ticks, tickslock, cproc, schedVars, intr, rpc,
                 callVars>>

sleep_relock(c, p) ==
  /\ At(c, p, "sleep_wake")
  /\ tickslock = NoCpu /\ tickslock' = c
  /\ Goto(p, "sleep_check")
  /\ UNCHANGED <<tableVars, timeVars, nextpid, ticks, ptlock, cproc, schedVars,
                 intr, rpc, callVars>>

-----------------------------------------------------------------------------
\* trap() on a timer interrupt.  A CPU that holds a lock has interrupts off.
\* Mutant: tickslock is held with interrupts on.
InterruptibleTicks(c) == intr[c] = "no" /\ ptlock # c
Interruptible(c) == intr[c] = "no" /\ ptlock # c /\ tickslock # c

AfterTick(c) ==
  LET p == cproc[c] IN
  IF p # NoProc /\ SCHEDFLAG # "F" /\ ~(killed[p] /\ pc[p] = "user")
  THEN "resched" ELSE "no"

\* CPU 0 counts the tick, holding tickslock, ...
timer(c) ==
  /\ Interruptible(c)
  /\ \/ /\ c = 0 /\ tickslock = NoCpu /\ tickslock' = c
        /\ ticks' = IF ticks < MaxTicks THEN ticks + 1 ELSE ticks
        /\ intr' = [intr EXCEPT ![c] = "tick"]
     \/ /\ c # 0 /\ AfterTick(c) = "resched"
        /\ intr' = [intr EXCEPT ![c] = "resched"]
        /\ UNCHANGED <<ticks, tickslock>>
  /\ UNCHANGED <<tableVars, timeVars, nextpid, ptlock, cproc, schedVars, pc,
                 rpc, callVars>>

\* ... and wakes the sleepers with wakeup(&ticks) before releasing it.
timer_wakeup(c) ==
  /\ intr[c] = "tick"
  /\ Locked
  /\ state' = wakeup(TicksChan)
  /\ tickslock' = NoCpu
  /\ intr' = [intr EXCEPT ![c] = AfterTick(c)]
  /\ UNCHANGED <<pid, parent, chan, killed, kstack, priority, timeVars, nextpid,
                 ticks, cproc, schedVars, pc, rpc, callVars>>

\* yield() up to its call of sched(), from the timer or from setpriority().
yield(c, p) ==
  /\ cproc[c] = p
  /\ \/ intr[c] = "resched" /\ rpc' = [rpc EXCEPT ![p] = pc[p]]
     \/ At(c, p, "setpriority_yield") /\ rpc' = [rpc EXCEPT ![p] = "user"]
  /\ Acquire(c)
  /\ state' = [state EXCEPT ![p] = "RUNNABLE"]
  /\ intr' = [intr EXCEPT ![c] = "no"]
  /\ Goto(p, "yield")
  /\ UNCHANGED <<pid, parent, chan, killed, kstack, priority, timeVars, nextpid,
                 ticks, tickslock, cproc, schedVars, callVars>>

\* Back from sched() in yield(); the first return of a child, into forkret().
yield_resume(c, p) ==
  /\ \/ Resumed(c, p, "yield") /\ Goto(p, rpc[p])
     \/ Resumed(c, p, "forkret") /\ Goto(p, "user")
  /\ Release(c)
  /\ rpc' = [rpc EXCEPT ![p] = "user"]
  /\ UNCHANGED <<tableVars, timeVars, nextpid, ticks, tickslock, cproc,
                 schedVars, intr, callVars>>

\* sched() switches to the scheduler of the CPU, which clears c->proc;
\* ptable.lock passes from the process to the scheduler.
sched(c, p) ==
  /\ cproc[c] = p /\ pc[p] \in InSched /\ state[p] # "RUNNING" /\ ptlock = c
  /\ cproc' = [cproc EXCEPT ![c] = NoProc]
  /\ UNCHANGED <<tableVars, timeVars, nextpid, ticks, ptlock, tickslock,
                 schedVars, intr, pc, rpc, callVars>>

-----------------------------------------------------------------------------
\* scheduler().  Its switch has no breaks, so the stage "fcfs" falls through to
\* "prio" and "prio" to "rr"; the MLFQ case is empty.
FirstStage == CASE SCHEDFLAG = "F" -> "fcfs"
                [] SCHEDFLAG = "P" -> "prio"
                [] OTHER -> "rr"

Runnable == {q \in Slots : state[q] = "RUNNABLE"}

\* v is the least priority of a RUNNABLE process, as the first loop of case 2
\* finds it; the other cases do not look for one.
priority_chosen(v, case) ==
  LET low == {q \in Runnable : priority[q] < NoPriority} IN
  IF case = "prio" /\ low # {}
  THEN \E q \in low : v = priority[q] /\ \A r \in low : v <= priority[r]
  ELSE v = NoPriority

\* The slots the loop of the current case may still switch to, first first.
Candidates(c) ==
  CASE stage[c] = "fcfs" ->
         {q \in Runnable : idx[c] = 1 /\ \A r \in Runnable : ctime[q] <= ctime[r]}
    [] stage[c] = "prio" ->
         {q \in Runnable : q >= idx[c] /\ chosen[c] # NoPriority
                                       /\ priority[q] = chosen[c]}
    [] OTHER -> {q \in Runnable : q >= idx[c]}

\* The top of the for(;;): take the lock, account running time, enter the switch.
scheduler(c) ==
  /\ stage[c] = "idle" /\ Interruptible(c)
  /\ Acquire(c)
  /\ rtime' = [q \in Slots |-> IF state[q] = "RUNNING"
                               THEN rtime[q] + (ticks - last_check[q])
                               ELSE rtime[q]]
  /\ last_check' = [q \in Slots |-> ticks]
  /\ stage' = [stage EXCEPT ![c] = FirstStage]
  /\ \E v \in 0..NoPriority :
       priority_chosen(v, FirstStage) /\ chosen' = [chosen EXCEPT ![c] = v]
  /\ UNCHANGED <<tableVars, ctime, nextpid, ticks, tickslock, cproc, idx, intr,
                 pc, rpc, callVars>>

\* Switch to the next process of the current case.
scheduler_run(c) ==
  /\ stage[c] # "idle" /\ cproc[c] = NoProc /\ ptlock = c
  /\ \E q \in Slots :
       /\ IsFirst(q, Candidates(c))
       /\ cproc' = [cproc EXCEPT ![c] = q]
       /\ state' = [state EXCEPT ![q] = "RUNNING"]
       /\ idx' = [idx EXCEPT ![c] = IF stage[c] = "fcfs" THEN NPROC + 1 ELSE q + 1]
  /\ UNCHANGED <<pid, parent, chan, killed, kstack, priority, timeVars, nextpid,
                 ticks, ptlock, tickslock, stage, chosen, intr, pc, rpc,
                 callVars>>

\* Where the control goes from the end of a case.
\* Mutant: the priority case ends with a break.
NextStageBreak(s) == IF s = "fcfs" THEN "prio" ELSE "idle"
NextStage(s) == CASE s = "fcfs" -> "prio" [] s = "prio" -> "rr" [] OTHER -> "idle"

\* The loop of the current case is over: fall into the next, or out of the switch.
scheduler_next(c) ==
  /\ stage[c] # "idle" /\ cproc[c] = NoProc /\ ptlock = c
  /\ Candidates(c) = {}
  /\ idx' = [idx EXCEPT ![c] = 1]
  /\ stage' = [stage EXCEPT ![c] = NextStage(@)]
  /\ \E v \in 0..NoPriority :
       priority_chosen(v, NextStage(stage[c])) /\ chosen' = [chosen EXCEPT ![c] = v]
  /\ ptlock' = IF NextStage(stage[c]) = "idle" THEN NoCpu ELSE c
  /\ UNCHANGED <<tableVars, timeVars, nextpid, ticks, tickslock, cproc, intr,
                 pc, rpc, callVars>>

-----------------------------------------------------------------------------
\* The steps of a kernel thread, and its part of a context switch.
ThreadStep(c, p) ==
  \/ trap_syscall(c, p) \/ trap_fault(c, p)
  \/ allocproc(c, p) \/ fork_kstack(c, p) \/ fork_copy(c, p)
  \/ fork_undo(c, p) \/ fork_ready(c, p)
  \/ exit(c, p) \/ wait(c, p) \/ waitx(c, p) \/ waitx_ret(c, p)
  \/ kill(c, p) \/ setpriority(c, p)
  \/ sys_sleep(c, p) \/ sleep_check(c, p) \/ sleep(c, p)
  \/ sleep_resume(c, p) \/ sleep_relock(c, p)

SwitchStep(c, p) == yield(c, p) \/ yield_resume(c, p) \/ sched(c, p)

CpuStep(c) ==
  timer_wakeup(c) \/ exit_panic(c) \/ scheduler_run(c) \/ scheduler_next(c)

Next ==
  \E c \in CPUs :
    \/ timer(c) \/ scheduler(c) \/ CpuStep(c)
    \/ \E p \in Slots : ThreadStep(c, p) \/ SwitchStep(c, p)

Spec == Init /\ [][Next]_vars

-----------------------------------------------------------------------------
\* The types of the variables, in the groups the proofs use.
TableTypes ==
  /\ state \in [Slots -> ProcStates]
  /\ pid \in [Slots -> Nat]
  /\ parent \in [Slots -> 0..NPROC]
  /\ chan \in [Slots -> 0..TicksChan]
  /\ killed \in [Slots -> BOOLEAN]
  /\ kstack \in [Slots -> BOOLEAN]
  /\ priority \in [Slots -> 0..100]

TimeTypes ==
  /\ ctime \in [Slots -> Nat]
  /\ rtime \in [Slots -> Nat]
  /\ last_check \in [Slots -> Nat]
  /\ nextpid \in Nat \ {0}
  /\ ticks \in Nat

CpuTypes ==
  /\ ptlock \in CPUs \cup {NoCpu}
  /\ tickslock \in CPUs \cup {NoCpu}
  /\ cproc \in [CPUs -> 0..NPROC]
  /\ stage \in [CPUs -> {"idle", "fcfs", "prio", "rr"}]
  /\ idx \in [CPUs -> 1..(NPROC + 1)]
  /\ chosen \in [CPUs -> 0..NoPriority]
  /\ intr \in [CPUs -> {"no", "tick", "resched", "panic"}]

ThreadTypes ==
  /\ pc \in [Slots -> Places]
  /\ rpc \in [Slots -> Places]
  /\ np \in [Slots -> 0..NPROC]
  /\ until \in [Slots -> Nat]
  /\ wslot \in [Slots -> 0..NPROC]
  /\ shpid \in Nat

\* Every variable keeps its type; in particular, a priority accepted by
\* setpriority stays in the range 0..100 in which scheduler() can choose it.
TypeOK == TableTypes /\ TimeTypes /\ CpuTypes /\ ThreadTypes

\* A process runs on one CPU at a time: no two CPUs have the same c->proc, a
\* RUNNING process is some CPU's c->proc, and a CPU whose process is no longer
\* RUNNING is inside sched() with ptable.lock (scheduler, sched, yield, sleep).
OneCpuPerProcess ==
  /\ \A c, d \in CPUs : cproc[c] = cproc[d] /\ cproc[c] # NoProc => c = d
  /\ \A p \in Slots : state[p] = "RUNNING" => \E c \in CPUs : cproc[c] = p
  /\ \A c \in CPUs : cproc[c] # NoProc /\ state[cproc[c]] # "RUNNING" =>
       ptlock = c /\ pc[cproc[c]] \in InSched

\* The panics of sched() and exit() are never reached: a process enters and
\* leaves sched() on a CPU that holds ptable.lock and no other lock, so that
\* forkret, yield and sleep release a lock their CPU has; and a process that has
\* exited is never switched back to ("zombie exit").
SchedNeverPanics ==
  \A c \in CPUs : cproc[c] # NoProc /\ pc[cproc[c]] \in InSched =>
    /\ ptlock = c /\ tickslock # c
    /\ pc[cproc[c]] = "zombie" => state[cproc[c]] = "ZOMBIE"

\* A kernel stack is never freed under a thread that still needs it, and is
\* never left behind in a free slot: wait frees the stack of a child that may
\* still have been switching away on another CPU, and a failed fork gives its
\* slot back without the lock.
StackOwned ==
  /\ \A c \in CPUs : cproc[c] # NoProc => kstack[cproc[c]]
  /\ \A p \in Slots :
       /\ state[p] \in {"SLEEPING", "RUNNABLE", "RUNNING", "ZOMBIE"} => kstack[p]
       /\ state[p] = "UNUSED" => ~kstack[p]

\* Every process other than init has a parent that can still wait for it:
\* exit passes the children of the dying process to init in the same critical
\* section in which it becomes a zombie.
ParentAlive ==
  \A p \in Slots : p # initproc /\ state[p] \notin {"UNUSED", "EMBRYO"} =>
    parent[p] # NoProc /\ state[parent[p]] \notin {"UNUSED", "EMBRYO", "ZOMBIE"}

\* No wakeup is lost.  A parent asleep in wait or waitx has a child and no
\* zombie child, and has not been killed; a process asleep in sys_sleep has
\* time left, or CPU 0 is about to call wakeup(&ticks).
NoLostWakeup ==
  \A p \in Slots : state[p] = "SLEEPING" =>
    IF pc[p] = "sleep_sleep"
    THEN chan[p] = TicksChan /\ (ticks < until[p] \/ intr[0] = "tick")
    ELSE /\ chan[p] = p /\ ~killed[p]
         /\ \E q \in Slots : parent[q] = p
         /\ \A q \in Slots : parent[q] = p => state[q] # "ZOMBIE"



\* The FCFS scheduler picks the process that was created first: no process is
\* switched to while an older one is RUNNABLE (scheduler, case 1).
FcfsOrder ==
  [][\A p \in Slots : state[p] = "RUNNABLE" /\ state'[p] = "RUNNING"
       => \A q \in Runnable : ctime[p] <= ctime[q]]_vars

\* waitx reports the times of the child it reaped: nobody has taken the slot
\* over when it reads them.
WaitxReadsItsChild ==
  \A p \in Slots : pc[p] = "waitx_ret" => state[wslot[p]] = "UNUSED"

-----------------------------------------------------------------------------
\* The inductive invariant behind OneCpuPerProcess, SchedNeverPanics and
\* StackOwned, in parts.

ForkPlaces == {"fork_kstack", "fork_copy", "fork_undo", "fork_ready"}
TicksHeld == {"sleep_check", "sleep_go"}

CpuUnique ==
  \A c, d \in CPUs : \A p \in Slots : cproc[c] = p /\ cproc[d] = p => c = d

CpuRunning ==
  \A p \in Slots : state[p] = "RUNNING" => \E c \in CPUs : cproc[c] = p

\* What ties a CPU to the process it runs, its locks and its interrupt.
CpuBusy ==
  \A c \in CPUs : \A p \in Slots : cproc[c] = p =>
    /\ stage[c] # "idle" /\ state[p] \notin {"UNUSED", "EMBRYO"}
    /\ pc[p] \in InSched <=> ptlock = c
    /\ pc[p] \in InSched \cup TicksHeld => intr[c] = "no"
    /\ pc[p] \in TicksHeld \/ intr[c] = "tick" <=> tickslock = c

\* The same for a CPU in scheduler().
CpuIdle ==
  \A c \in CPUs : cproc[c] = NoProc =>
    /\ stage[c] # "idle" <=> ptlock = c
    /\ intr[c] \in {"no", "tick"} /\ (intr[c] = "tick" <=> tickslock = c)
    /\ ptlock = c => intr[c] = "no"

\* What the state of a process says of the place of its thread.
PlaceInv ==
  \A p \in Slots :
    /\ state[p] # "RUNNING" => pc[p] \in InSched
    /\ state[p] \in {"UNUSED", "EMBRYO"} => pc[p] \in {"forkret", "zombie"}
    /\ state[p] = "ZOMBIE" => pc[p] = "zombie"
    /\ pc[p] = "zombie" => state[p] \in {"UNUSED", "EMBRYO", "ZOMBIE"}
    /\ rpc[p] \notin InSched \cup TicksHeld
    /\ pc[p] # "yield" => rpc[p] = "user"

\* A process in fork() owns the EMBRYO slot it is building ...
ForkOwns ==
  \A p \in Slots : np[p] # NoProc =>
    /\ np[p] \in Slots /\ state[np[p]] = "EMBRYO"
    /\ kstack[np[p]] => pc[np[p]] = "forkret"

ForkUnique ==
  \A p, q \in Slots : np[p] = np[q] /\ np[p] # NoProc => p = q

\* ... which has a kernel stack from fork_copy on.  (While the clock has taken
\* the CPU from the process, its place in fork() is in rpc.)
ForkStack ==
  \A p \in Slots : \A loc \in {pc[p], rpc[p]} : loc \in ForkPlaces =>
    /\ np[p] # NoProc
    /\ kstack[np[p]] <=> loc \in {"fork_copy", "fork_ready"}

StackInv ==
  \A p \in Slots :
    /\ state[p] \in {"SLEEPING", "RUNNABLE", "RUNNING", "ZOMBIE"} => kstack[p]
    /\ state[p] = "UNUSED" => ~kstack[p]

ClockInv == \A p \in Slots : last_check[p] <= ticks

SInv ==
  /\ CpuUnique /\ CpuRunning /\ CpuBusy /\ CpuIdle /\ PlaceInv
  /\ ForkOwns /\ ForkUnique /\ ForkStack /\ StackInv

\* The inductive invariant: the types, and what ties the CPUs, the kernel threads,
\* the two locks and the half-built children of fork() together (SInv).
IInv == TypeOK /\ ClockInv /\ SInv

-----------------------------------------------------------------------------
\* Fairness.  A CPU inside a critical section or a context switch keeps
\* executing (weak fairness).  A pending timer interrupt is taken once interrupts
\* are on; and a kernel thread or a scheduler that is interrupted again and again
\* still gets on, since a time slice is far longer than a step (strong fairness).
\* A user program need not make system calls, but init does.
Forced(c, p) ==
  ThreadStep(c, p) /\ (pc[p] = "user" => killed[p] \/ p = initproc)

Fairness ==
  \A c \in CPUs :
    /\ WF_vars(CpuStep(c)) /\ SF_vars(timer(c)) /\ SF_vars(scheduler(c))
    /\ \A p \in Slots : WF_vars(SwitchStep(c, p)) /\ SF_vars(Forced(c, p))

LiveSpec == Spec /\ Fairness

\* With one CPU the scheduler starves nobody: a RUNNABLE process is run.
RunnableRuns ==
  \A p \in Slots : state[p] = "RUNNABLE" ~> state[p] = "RUNNING"

\* A killed process dies, wherever in the kernel it was when kill came,
\* asleep included (kill, trap, the tests of killed in wait and sys_sleep).
KilledExits ==
  \A p \in Slots : killed[p] /\ state[p] # "UNUSED"
    ~> state[p] \in {"ZOMBIE", "UNUSED"}

\* A process that goes to sleep in sys_sleep comes back from it.
SleepReturns ==
  \A p \in Slots : pc[p] = "sleep_sleep" /\ state[p] = "SLEEPING"
    ~> pc[p] = "user"

\* A zombie whose parent is init is reaped: init is woken whenever a child
\* dies or a dead orphan is handed over to it.
OrphansReaped ==
  \A p \in Slots : state[p] = "ZOMBIE" /\ parent[p] = initproc
    ~> state[p] = "UNUSED"
=============================================================================
