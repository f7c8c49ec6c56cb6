--------------------------- MODULE SpinlockProofs ---------------------------
(***************************************************************************)
(* LockExclusive and HandlerNeverSpinsOnOwn for every number of CPUs and   *)
(* every set of locks, from the inductive invariant SpinInv.               *)
(***************************************************************************)
EXTENDS Spinlock, FiniteSetTheorems, TLAPS

\* What threads are, for the provers.
LEMMA ThreadFacts ==
  /\ \A c \in CPUs, i \in {0, 1} : <<c, i>> \in Threads /\ <<c, i>>[1] = c /\ <<c, i>>[2] = i
  /\ \A x \in Threads : x[1] \in CPUs /\ x[2] \in {0, 1}
  /\ \A x, y \in Threads : x[1] = y[1] /\ x[2] = y[2] => x = y
  BY DEF Threads, Levels

\* The initial states satisfy the invariant.
LEMMA InitSpinInv == Init => SpinInv
  <1> SUFFICES ASSUME Init PROVE SpinInv
      OBVIOUS
  <1>1. AnyLock \in Locks
        BY SpinAssumption DEF AnyLock
  <1>2. TypeOK
        BY <1>1 DEF Init, TypeOK, PCs, Levels
  <1>3. IsFiniteSet({}) /\ Cardinality({}) = 0
        BY FS_EmptySet
  <1>4. NcliCounts
    <2>1. \A x \in Threads : Pushed(x) = 0
          BY <1>3 DEF Init, Pushed
    <2> QED
        BY <2>1, ThreadFacts DEF Init, NcliCounts
  <1>5. HeldLocked /\ LockExclusive /\ WantHeld /\ CpuHolds /\ HolderCpu
        BY <1>3 DEF Init, HeldLocked, LockExclusive, WantHeld, CpuHolds, HolderCpu, HeldBy
  <1>6. LevelInv
        BY ThreadFacts DEF Init, LevelInv
  <1> QED
      BY <1>2, <1>4, <1>5, <1>6 DEF Init, SpinInv

-----------------------------------------------------------------------------
Other(c) == <<c, 1 - level[c]>>

\* The thread a CPU runs, and the one it does not, which holds nothing.
LEMMA Here ==
  ASSUME SpinInv, NEW c \in CPUs
  PROVE  /\ Me(c) \in Threads /\ Other(c) \in Threads /\ Me(c) # Other(c)
         /\ Me(c)[1] = c /\ Me(c)[2] = level[c] /\ Other(c)[1] = c
         /\ \A y \in Threads : y[1] = c => y = Me(c) \/ y = Other(c)
         /\ held[Other(c)] = {} /\ (pc[Other(c)] = "run" \/ pc[Other(c)] = "cli")
         /\ HeldBy(c) = held[Me(c)] /\ held[Me(c)] \subseteq Locks
         /\ Cardinality(held[Me(c)]) \in Nat
         /\ ncli[c] = Pushed(Me(c))
  <1> DEFINE x == Me(c)  o == Other(c)
  <1>1. level[c] \in {0, 1} /\ 1 - level[c] \in {0, 1} /\ 1 - level[c] # level[c]
        BY DEF SpinInv, TypeOK, Levels
  <1>2. x \in Threads /\ o \in Threads /\ x[1] = c /\ o[1] = c
        /\ x[2] = level[c] /\ o[2] = 1 - level[c]
        BY <1>1, ThreadFacts DEF Me, Other
  <1>3. x # o
        BY <1>1, <1>2
  <1>4. \A y \in Threads : y[1] = c => y = x \/ y = o
        BY <1>1, <1>2, ThreadFacts
  <1> HIDE DEF x, o
  <1>5. held[o] = {} /\ (pc[o] = "run" \/ pc[o] = "cli")
        BY <1>1, <1>2 DEF SpinInv, LevelInv
  <1>6. HeldBy(c) = held[x] /\ held[x] \subseteq Locks
        BY <1>2, <1>4, <1>5 DEF HeldBy, SpinInv, TypeOK
  <1>7. Cardinality(held[x]) \in Nat
        BY <1>2, FS_CardinalityType DEF SpinInv, HeldLocked
  <1>8. Pushed(o) = 0
        BY <1>5, FS_EmptySet DEF Pushed
  <1>9. ncli[c] = Pushed(x)
    <2>1. Pushed(x) \in Nat
          BY <1>7 DEF Pushed
    <2>2. ncli[c] = Pushed(x) + Pushed(o)
          BY <1>2, <1>3 DEF SpinInv, NcliCounts
    <2> QED
        BY <1>8, <2>1, <2>2
  <1> QED
      BY <1>2, <1>3, <1>4, <1>5, <1>6, <1>7, <1>9 DEF x, o

\* A step of the running thread that keeps its own count of pushcli() right
\* keeps everybody's right.
LEMMA CountStep ==
  ASSUME SpinInv, NEW c \in CPUs, NEW x, x = Me(c), UNCHANGED level,
         \A y \in Threads : y # x => held'[y] = held[y] /\ pc'[y] = pc[y],
         \A d \in CPUs : d # c => ncli'[d] = ncli[d] /\ FL_IF'[d] = FL_IF[d],
         ncli'[c] \in Int, ncli'[c] = Pushed(x)', ncli'[c] > 0 => FL_IF'[c] = 0
  PROVE  NcliCounts' /\ LevelInv'
  <1>0. PICK o : o = Other(c)
        OBVIOUS
  <1>1. /\ x \in Threads /\ o \in Threads /\ x # o /\ x[1] = c /\ x[2] = level[c] /\ o[1] = c
        /\ \A y \in Threads : y[1] = c => y = x \/ y = o
        /\ held[o] = {} /\ (pc[o] = "run" \/ pc[o] = "cli")
        BY <1>0, Here
  <1>3. \A y \in Threads : y # x => Pushed(y)' = Pushed(y)
        BY DEF Pushed
  <1>4. Pushed(o) = 0
        BY <1>1, FS_EmptySet DEF Pushed
  <1>5. NcliCounts'
    <2>1. ASSUME NEW y \in Threads, NEW z \in Threads, y[1] = z[1], y # z
          PROVE  ncli'[y[1]] = Pushed(y)' + Pushed(z)'
      <3>1. CASE y[1] = c
        <4>1. (y = x /\ z = o) \/ (y = o /\ z = x)
              BY <2>1, <3>1, <1>1
        <4>2. Pushed(o)' = 0
              BY <1>1, <1>3, <1>4
        <4> QED
            BY <3>1, <4>1, <4>2
      <3>2. CASE y[1] # c
            BY <2>1, <3>2, <1>1, <1>3, ThreadFacts DEF SpinInv, NcliCounts
      <3> QED
          BY <3>1, <3>2
    <2>2. \A d \in CPUs : ncli'[d] > 0 => FL_IF'[d] = 0
          BY DEF SpinInv, NcliCounts
    <2> QED
        BY <2>1, <2>2 DEF NcliCounts
  <1>6. LevelInv'
        BY <1>1 DEF SpinInv, LevelInv
  <1> QED
      BY <1>5, <1>6

-----------------------------------------------------------------------------
\* One step of each kind preserves the invariant.
LEMMA AcquireStep ==
  ASSUME SpinInv, NEW c \in CPUs, NEW l \in Locks, acquire(c, l)
  PROVE  SpinInv'
  <1>0. PICK x : x = Me(c)
        OBVIOUS
  <1>1. /\ x \in Threads /\ x[1] = c /\ HeldBy(c) = held[x] /\ held[x] \subseteq Locks
        /\ ncli[c] = Pushed(x) /\ Cardinality(held[x]) \in Nat
        BY <1>0, Here
  <1>2. l \notin held[x]
        BY <1>1, SpinAssumption DEF acquire
  <1>3. /\ pc[x] = "run" /\ panicked = "no"
        /\ pc' = [pc EXCEPT ![x] = "cli"] /\ want' = [want EXCEPT ![x] = l]
        /\ eflags' = [eflags EXCEPT ![x] = FL_IF[c]]
        /\ UNCHANGED <<locked, lkcpu, held, ncli, intena, FL_IF, level, panicked>>
        BY <1>0 DEF acquire, At, Goto, lockVars, cpuVars
  <1>4. TypeOK /\ TypeOK'
        BY <1>1, <1>3 DEF SpinInv, TypeOK, PCs
  <1>5. HeldLocked' /\ LockExclusive'
        BY <1>3 DEF SpinInv, HeldLocked, LockExclusive
  <1>6. WantHeld'
        BY <1>2, <1>3, <1>4 DEF SpinInv, WantHeld, TypeOK
  <1>7. CpuHolds' /\ HolderCpu'
        BY <1>3, <1>4 DEF SpinInv, CpuHolds, HolderCpu, HeldBy, TypeOK
  <1>8. NcliCounts' /\ LevelInv'
    <2>1. ncli'[c] \in Int /\ ncli'[c] = Pushed(x)'
          BY <1>1, <1>3, <1>4 DEF Pushed, TypeOK
    <2>2. ncli'[c] > 0 => FL_IF'[c] = 0
          BY <1>3 DEF SpinInv, NcliCounts
    <2>3. \A y \in Threads : y # x => held'[y] = held[y] /\ pc'[y] = pc[y]
          BY <1>3, <1>4 DEF TypeOK
    <2>4. \A d \in CPUs : d # c => ncli'[d] = ncli[d] /\ FL_IF'[d] = FL_IF[d]
          BY <1>3, <1>4 DEF TypeOK
    <2>5. UNCHANGED level
          BY <1>3
    <2> QED
        BY <2>1, <2>2, <2>3, <2>4, <2>5, <1>0, CountStep
  <1> QED
      BY <1>3, <1>4, <1>5, <1>6, <1>7, <1>8 DEF SpinInv

LEMMA PushcliStep ==
  ASSUME SpinInv, NEW c \in CPUs, pushcli(c)
  PROVE  SpinInv'
  <1>0. PICK x : x = Me(c)
        OBVIOUS
  <1>1. /\ x \in Threads /\ x[1] = c /\ HeldBy(c) = held[x] /\ held[x] \subseteq Locks
        /\ ncli[c] = Pushed(x) /\ Cardinality(held[x]) \in Nat
        BY <1>0, Here
  <1>2. pc[x] = "cli" /\ want[x] \notin held[x]
        BY <1>0, <1>1 DEF pushcli, At, SpinInv, WantHeld
  <1>9. ~holding(c, want[x])
    <2>1. want[x] \in Locks /\ c # NoCpu
          BY <1>1, SpinAssumption DEF SpinInv, TypeOK
    <2> QED
        BY <1>1, <1>2, <2>1 DEF holding, SpinInv, CpuHolds
  <1>3. /\ panicked = "no" /\ pc' = [pc EXCEPT ![x] = "xchg"]
        /\ FL_IF' = [FL_IF EXCEPT ![c] = 0] /\ ncli' = [ncli EXCEPT ![c] = ncli[c] + 1]
        /\ intena' = IF ncli[c] = 0 THEN [intena EXCEPT ![c] = eflags[x]] ELSE intena
        /\ UNCHANGED <<locked, lkcpu, held, level, want, eflags, panicked>>
        BY <1>0, <1>9 DEF pushcli, At, Goto, cli, panicIf, lockVars
  <1>4. TypeOK /\ TypeOK'
        BY <1>1, <1>3 DEF SpinInv, TypeOK, PCs
  <1>5. HeldLocked' /\ LockExclusive'
        BY <1>3 DEF SpinInv, HeldLocked, LockExclusive
  <1>6. WantHeld'
        BY <1>2, <1>3, <1>4 DEF SpinInv, WantHeld, TypeOK
  <1>7. CpuHolds' /\ HolderCpu'
        BY <1>2, <1>3, <1>4 DEF SpinInv, CpuHolds, HolderCpu, HeldBy, TypeOK
  <1>8. NcliCounts' /\ LevelInv'
    <2>1. ncli'[c] \in Int /\ ncli'[c] = Pushed(x)'
          BY <1>1, <1>2, <1>3, <1>4 DEF Pushed, TypeOK
    <2>2. ncli'[c] > 0 => FL_IF'[c] = 0
          BY <1>3, <1>4 DEF TypeOK
    <2>3. \A y \in Threads : y # x => held'[y] = held[y] /\ pc'[y] = pc[y]
          BY <1>3, <1>4 DEF TypeOK
    <2>4. \A d \in CPUs : d # c => ncli'[d] = ncli[d] /\ FL_IF'[d] = FL_IF[d]
          BY <1>3, <1>4 DEF TypeOK
    <2>5. UNCHANGED level
          BY <1>3
    <2> QED
        BY <2>1, <2>2, <2>3, <2>4, <2>5, <1>0, CountStep
  <1> QED
      BY <1>3, <1>4, <1>5, <1>6, <1>7, <1>8 DEF SpinInv

LEMMA XchgStep ==
  ASSUME SpinInv, NEW c \in CPUs, xchg(c)
  PROVE  SpinInv'
  <1>0. PICK x : x = Me(c)
        OBVIOUS
  <1>1. /\ x \in Threads /\ x[1] = c /\ HeldBy(c) = held[x] /\ held[x] \subseteq Locks
        /\ ncli[c] = Pushed(x) /\ Cardinality(held[x]) \in Nat
        BY <1>0, Here
  <1>2. pc[x] = "xchg" /\ want[x] \notin held[x] /\ want[x] \in Locks
        BY <1>0, <1>1 DEF xchg, At, SpinInv, WantHeld, TypeOK
  <1>3. /\ panicked = "no" /\ locked[want[x]] = 0
        /\ pc' = [pc EXCEPT ![x] = "setcpu"] /\ locked' = [locked EXCEPT ![want[x]] = 1]
        /\ held' = [held EXCEPT ![x] = held[x] \cup {want[x]}]
        /\ UNCHANGED <<lkcpu, ncli, intena, FL_IF, level, want, eflags, panicked>>
        BY <1>0 DEF xchg, At, Goto, Free, cpuVars
  <1>4. TypeOK /\ TypeOK'
        BY <1>1, <1>3 DEF SpinInv, TypeOK, PCs
  <1>9. IsFiniteSet(held[x] \cup {want[x]})
        /\ Cardinality(held[x] \cup {want[x]}) = Cardinality(held[x]) + 1
        BY <1>1, <1>2, FS_AddElement DEF SpinInv, HeldLocked
  <1>5. HeldLocked' /\ LockExclusive'
        BY <1>1, <1>2, <1>3, <1>4, <1>9 DEF SpinInv, HeldLocked, LockExclusive, TypeOK
  <1>6. WantHeld'
        BY <1>2, <1>3, <1>4 DEF SpinInv, WantHeld, TypeOK
  <1>7. CpuHolds' /\ HolderCpu'
    <2>1. CpuHolds'
          BY <1>2, <1>3, <1>4 DEF SpinInv, CpuHolds, HeldBy, TypeOK
    <2>2. HolderCpu'
          BY <1>2, <1>3, <1>4 DEF SpinInv, HolderCpu, TypeOK
    <2> QED
        BY <2>1, <2>2
  <1>8. NcliCounts' /\ LevelInv'
    <2>1. ncli'[c] \in Int /\ ncli'[c] = Pushed(x)'
          BY <1>1, <1>2, <1>3, <1>4, <1>9 DEF Pushed, TypeOK
    <2>2. ncli'[c] > 0 => FL_IF'[c] = 0
          BY <1>3 DEF SpinInv, NcliCounts
    <2>3. \A y \in Threads : y # x => held'[y] = held[y] /\ pc'[y] = pc[y]
          BY <1>3, <1>4 DEF TypeOK
    <2>4. \A d \in CPUs : d # c => ncli'[d] = ncli[d] /\ FL_IF'[d] = FL_IF[d]
          BY <1>3, <1>4 DEF TypeOK
    <2>5. UNCHANGED level
          BY <1>3
    <2> QED
        BY <2>1, <2>2, <2>3, <2>4, <2>5, <1>0, CountStep
  <1> QED
      BY <1>3, <1>4, <1>5, <1>6, <1>7, <1>8 DEF SpinInv

LEMMA SetcpuStep ==
  ASSUME SpinInv, NEW c \in CPUs, setcpu(c)
  PROVE  SpinInv'
  <1>0. PICK x : x = Me(c)
        OBVIOUS
  <1>1. /\ x \in Threads /\ x[1] = c /\ HeldBy(c) = held[x] /\ held[x] \subseteq Locks
        /\ ncli[c] = Pushed(x) /\ Cardinality(held[x]) \in Nat
        BY <1>0, Here
  <1>2. pc[x] = "setcpu" /\ want[x] \in held[x] /\ want[x] \in Locks
        BY <1>0, <1>1 DEF setcpu, At, SpinInv, WantHeld, TypeOK
  <1>3. /\ panicked = "no" /\ pc' = [pc EXCEPT ![x] = "run"]
        /\ lkcpu' = [lkcpu EXCEPT ![want[x]] = c]
        /\ UNCHANGED <<locked, held, ncli, intena, FL_IF, level, want, eflags, panicked>>
        BY <1>0 DEF setcpu, At, Goto, cpuVars
  <1>4. TypeOK /\ TypeOK'
        BY <1>1, <1>3 DEF SpinInv, TypeOK, PCs
  <1>5. HeldLocked' /\ LockExclusive'
        BY <1>3 DEF SpinInv, HeldLocked, LockExclusive
  <1>6. WantHeld'
        BY <1>1, <1>2, <1>3, <1>4 DEF SpinInv, WantHeld, LockExclusive, TypeOK
  <1>7. CpuHolds' /\ HolderCpu'
    <2>1. CpuHolds'
          BY <1>1, <1>2, <1>3, <1>4 DEF SpinInv, CpuHolds, HeldBy, TypeOK
    <2>2. HolderCpu'
          BY <1>1, <1>2, <1>3, <1>4 DEF SpinInv, HolderCpu, LockExclusive, TypeOK
    <2> QED
        BY <2>1, <2>2
  <1>8. NcliCounts' /\ LevelInv'
    <2>1. ncli'[c] \in Int /\ ncli'[c] = Pushed(x)'
          BY <1>1, <1>2, <1>3, <1>4 DEF Pushed, TypeOK
    <2>2. ncli'[c] > 0 => FL_IF'[c] = 0
          BY <1>3 DEF SpinInv, NcliCounts
    <2>3. \A y \in Threads : y # x => held'[y] = held[y] /\ pc'[y] = pc[y]
          BY <1>3, <1>4 DEF TypeOK
    <2>4. \A d \in CPUs : d # c => ncli'[d] = ncli[d] /\ FL_IF'[d] = FL_IF[d]
          BY <1>3, <1>4 DEF TypeOK
    <2>5. UNCHANGED level
          BY <1>3
    <2> QED
        BY <2>1, <2>2, <2>3, <2>4, <2>5, <1>0, CountStep
  <1> QED
      BY <1>3, <1>4, <1>5, <1>6, <1>7, <1>8 DEF SpinInv

LEMMA ReleaseStep ==
  ASSUME SpinInv, NEW c \in CPUs, NEW l \in Locks, release(c, l)
  PROVE  SpinInv'
  <1>0. PICK x : x = Me(c)
        OBVIOUS
  <1>1. /\ x \in Threads /\ x[1] = c /\ HeldBy(c) = held[x] /\ held[x] \subseteq Locks
        /\ ncli[c] = Pushed(x) /\ Cardinality(held[x]) \in Nat
        BY <1>0, Here
  <1>2. pc[x] = "run" /\ l \in held[x]
        BY <1>0 DEF release, At
  <1>9. holding(c, l)
        BY <1>1, <1>2 DEF holding, SpinInv, HolderCpu, HeldLocked
  <1>3. /\ panicked = "no" /\ pc' = [pc EXCEPT ![x] = "movl"]
        /\ want' = [want EXCEPT ![x] = l] /\ lkcpu' = [lkcpu EXCEPT ![l] = NoCpu]
        /\ UNCHANGED <<locked, held, ncli, intena, FL_IF, level, eflags, panicked>>
        BY <1>0, <1>9 DEF release, At, Goto, panicIf, cpuVars
  <1>4. TypeOK /\ TypeOK'
        BY <1>1, <1>3 DEF SpinInv, TypeOK, PCs
  <1>5. HeldLocked' /\ LockExclusive'
        BY <1>3 DEF SpinInv, HeldLocked, LockExclusive
  <1>6. WantHeld'
        BY <1>1, <1>2, <1>3, <1>4 DEF SpinInv, WantHeld, LockExclusive, TypeOK
  <1>7. CpuHolds' /\ HolderCpu'
    <2>1. CpuHolds'
          BY <1>2, <1>3, <1>4 DEF SpinInv, CpuHolds, HeldBy, TypeOK
    <2>2. HolderCpu'
          BY <1>1, <1>2, <1>3, <1>4 DEF SpinInv, HolderCpu, LockExclusive, TypeOK
    <2> QED
        BY <2>1, <2>2
  <1>8. NcliCounts' /\ LevelInv'
    <2>1. ncli'[c] \in Int /\ ncli'[c] = Pushed(x)'
          BY <1>1, <1>2, <1>3, <1>4 DEF Pushed, TypeOK
    <2>2. ncli'[c] > 0 => FL_IF'[c] = 0
          BY <1>3 DEF SpinInv, NcliCounts
    <2>3. \A y \in Threads : y # x => held'[y] = held[y] /\ pc'[y] = pc[y]
          BY <1>3, <1>4 DEF TypeOK
    <2>4. \A d \in CPUs : d # c => ncli'[d] = ncli[d] /\ FL_IF'[d] = FL_IF[d]
          BY <1>3, <1>4 DEF TypeOK
    <2>5. UNCHANGED level
          BY <1>3
    <2> QED
        BY <2>1, <2>2, <2>3, <2>4, <2>5, <1>0, CountStep
  <1> QED
      BY <1>3, <1>4, <1>5, <1>6, <1>7, <1>8 DEF SpinInv

LEMMA MovlStep ==
  ASSUME SpinInv, NEW c \in CPUs, movl(c)
  PROVE  SpinInv'
  <1>0. PICK x : x = Me(c)
        OBVIOUS
  <1>1. /\ x \in Threads /\ x[1] = c /\ HeldBy(c) = held[x] /\ held[x] \subseteq Locks
        /\ ncli[c] = Pushed(x) /\ Cardinality(held[x]) \in Nat
        BY <1>0, Here
  <1>2. pc[x] = "movl" /\ want[x] \in held[x] /\ want[x] \in Locks
        BY <1>0, <1>1 DEF movl, At, SpinInv, WantHeld, TypeOK
  <1>3. /\ panicked = "no" /\ pc' = [pc EXCEPT ![x] = "popcli"]
        /\ locked' = [locked EXCEPT ![want[x]] = 0]
        /\ held' = [held EXCEPT ![x] = held[x] \ {want[x]}]
        /\ UNCHANGED <<lkcpu, ncli, intena, FL_IF, level, want, eflags, panicked>>
        BY <1>0 DEF movl, At, Goto, cpuVars
  <1>4. TypeOK /\ TypeOK'
        BY <1>1, <1>3 DEF SpinInv, TypeOK, PCs
  <1>9. IsFiniteSet(held[x] \ {want[x]})
        /\ Cardinality(held[x] \ {want[x]}) = Cardinality(held[x]) - 1
        BY <1>1, <1>2, FS_RemoveElement DEF SpinInv, HeldLocked
  <1>5. HeldLocked' /\ LockExclusive'
        BY <1>1, <1>2, <1>3, <1>4, <1>9 DEF SpinInv, HeldLocked, LockExclusive, TypeOK
  <1>6. WantHeld'
        BY <1>2, <1>3, <1>4 DEF SpinInv, WantHeld, TypeOK
  <1>7. CpuHolds' /\ HolderCpu'
    <2>1. lkcpu[want[x]] = NoCpu
          BY <1>1, <1>2 DEF SpinInv, WantHeld
    <2>2. CpuHolds'
          BY <1>2, <1>3, <1>4, <2>1 DEF SpinInv, CpuHolds, HeldBy, TypeOK
    <2>3. HolderCpu'
          BY <1>2, <1>3, <1>4 DEF SpinInv, HolderCpu, TypeOK
    <2> QED
        BY <2>2, <2>3
  <1>8. NcliCounts' /\ LevelInv'
    <2>1. ncli'[c] \in Int /\ ncli'[c] = Pushed(x)'
          BY <1>1, <1>2, <1>3, <1>4, <1>9 DEF Pushed, TypeOK
    <2>2. ncli'[c] > 0 => FL_IF'[c] = 0
          BY <1>3 DEF SpinInv, NcliCounts
    <2>3. \A y \in Threads : y # x => held'[y] = held[y] /\ pc'[y] = pc[y]
          BY <1>3, <1>4 DEF TypeOK
    <2>4. \A d \in CPUs : d # c => ncli'[d] = ncli[d] /\ FL_IF'[d] = FL_IF[d]
          BY <1>3, <1>4 DEF TypeOK
    <2>5. UNCHANGED level
          BY <1>3
    <2> QED
        BY <2>1, <2>2, <2>3, <2>4, <2>5, <1>0, CountStep
  <1> QED
      BY <1>3, <1>4, <1>5, <1>6, <1>7, <1>8 DEF SpinInv

LEMMA PopcliStep ==
  ASSUME SpinInv, NEW c \in CPUs, popcli(c)
  PROVE  SpinInv'
  <1>0. PICK x : x = Me(c)
        OBVIOUS
  <1>1. /\ x \in Threads /\ x[1] = c /\ HeldBy(c) = held[x] /\ held[x] \subseteq Locks
        /\ ncli[c] = Pushed(x) /\ Cardinality(held[x]) \in Nat
        BY <1>0, Here
  <1>2. pc[x] = "popcli" /\ ncli[c] >= 1 /\ ncli[c] \in Int /\ FL_IF[c] = 0
        BY <1>0, <1>1 DEF popcli, At, SpinInv, Pushed, NcliCounts
  <1>3. /\ panicked = "no" /\ pc' = [pc EXCEPT ![x] = "run"]
        /\ ncli' = [ncli EXCEPT ![c] = ncli[c] - 1]
        /\ FL_IF' = IF ncli[c] = 1 /\ intena[c] = 1 THEN [FL_IF EXCEPT ![c] = 1] ELSE FL_IF
        /\ UNCHANGED <<locked, lkcpu, held, intena, level, want, eflags, panicked>>
        BY <1>0, <1>2 DEF popcli, At, Goto, panicIf, lockVars
  <1>4. TypeOK /\ TypeOK'
        BY <1>1, <1>3 DEF SpinInv, TypeOK, PCs
  <1>5. HeldLocked' /\ LockExclusive'
        BY <1>3 DEF SpinInv, HeldLocked, LockExclusive
  <1>6. WantHeld'
        BY <1>2, <1>3, <1>4 DEF SpinInv, WantHeld, TypeOK
  <1>7. CpuHolds' /\ HolderCpu'
        BY <1>2, <1>3, <1>4 DEF SpinInv, CpuHolds, HolderCpu, HeldBy, TypeOK
  <1>8. NcliCounts' /\ LevelInv'
    <2>1. ncli'[c] \in Int /\ ncli'[c] = Pushed(x)'
          BY <1>1, <1>2, <1>3, <1>4 DEF Pushed, TypeOK
    <2>2. ncli'[c] > 0 => FL_IF'[c] = 0
          BY <1>2, <1>3, <1>4 DEF TypeOK
    <2>3. \A y \in Threads : y # x => held'[y] = held[y] /\ pc'[y] = pc[y]
          BY <1>3, <1>4 DEF TypeOK
    <2>4. \A d \in CPUs : d # c => ncli'[d] = ncli[d] /\ FL_IF'[d] = FL_IF[d]
          BY <1>3, <1>4 DEF TypeOK
    <2>5. UNCHANGED level
          BY <1>3
    <2> QED
        BY <2>1, <2>2, <2>3, <2>4, <2>5, <1>0, CountStep
  <1> QED
      BY <1>3, <1>4, <1>5, <1>6, <1>7, <1>8 DEF SpinInv

\* An interrupt comes only where no lock is held, and iret leaves no lock behind.
LEMMA InterruptStep ==
  ASSUME SpinInv, NEW c \in CPUs, interrupt(c) \/ iret(c)
  PROVE  SpinInv'
  <1>0. PICK x : x = Me(c)
        OBVIOUS
  <1>1. /\ x \in Threads /\ x[1] = c /\ x[2] = level[c] /\ ncli[c] = Pushed(x)
        /\ Cardinality(held[x]) \in Nat
        /\ \A y \in Threads : y[1] = c /\ y # x => held[y] = {} /\ (pc[y] = "run" \/ pc[y] = "cli")
        BY <1>0, Here
  <1>2. /\ panicked = "no" /\ level' \in [CPUs -> Levels] /\ FL_IF' \in [CPUs -> {0, 1}]
        /\ \A d \in CPUs : d # c => level'[d] = level[d] /\ FL_IF'[d] = FL_IF[d]
        /\ UNCHANGED <<locked, lkcpu, held, ncli, intena, pc, want, eflags, panicked>>
        BY DEF interrupt, iret, At, SpinInv, TypeOK, Levels, lockVars
  <1>3. TypeOK'
        BY <1>2 DEF SpinInv, TypeOK
  <1>4. HeldLocked' /\ LockExclusive' /\ WantHeld' /\ CpuHolds' /\ HolderCpu'
        BY <1>2 DEF SpinInv, HeldLocked, LockExclusive, WantHeld, CpuHolds, HolderCpu, HeldBy
  <1>5. ncli[c] = 0 /\ held[x] = {} /\ (pc[x] = "run" \/ (pc[x] = "cli" /\ level[c] = 0))
    <2>1. CASE interrupt(c)
      <3>1. level[c] = 0 /\ FL_IF[c] = 1
            BY <2>1 DEF interrupt
      <3>2. ncli[c] = 0
            BY <1>1, <3>1 DEF SpinInv, NcliCounts, Pushed
      <3>3. Cardinality(held[x]) = 0 /\ pc[x] \notin {"xchg", "popcli"}
            BY <1>1, <3>2 DEF Pushed
      <3>4. held[x] = {}
            BY <1>1, <3>3, FS_EmptySet DEF SpinInv, HeldLocked
      <3>5. pc[x] \in PCs /\ pc[x] \notin {"setcpu", "movl"}
            BY <1>1, <3>4 DEF SpinInv, WantHeld, TypeOK
      <3> QED
          BY <3>1, <3>2, <3>3, <3>4, <3>5 DEF PCs
    <2>2. CASE iret(c)
      <3>1. pc[x] = "run" /\ held[x] = {}
            BY <1>0, <2>2 DEF iret, At
      <3> QED
          BY <1>1, <3>1, FS_EmptySet DEF Pushed
    <2> QED
        BY <2>1, <2>2
  <1>6. NcliCounts'
    <2>1. \A y \in Threads : Pushed(y)' = Pushed(y)
          BY <1>2 DEF Pushed
    <2>2. \A d \in CPUs : ncli'[d] > 0 => FL_IF'[d] = 0
          BY <1>2, <1>5 DEF SpinInv, NcliCounts
    <2> QED
        BY <1>2, <2>1, <2>2 DEF SpinInv, NcliCounts
  <1>7. LevelInv'
    <2> SUFFICES ASSUME NEW y \in Threads, y[2] # level'[y[1]]
                 PROVE  held[y] = {} /\ (pc[y] = "run" \/ (pc[y] = "cli" /\ y[2] = 0))
        BY <1>2 DEF LevelInv
    <2>1. CASE y[1] # c
          BY <2>1, <1>2, ThreadFacts DEF SpinInv, LevelInv
    <2>2. CASE y[1] = c
      <3>1. level'[c] = 1 - level[c] /\ level[c] \in {0, 1} /\ y[2] \in {0, 1}
            BY ThreadFacts DEF interrupt, iret, SpinInv, TypeOK, Levels
      <3>2. y[2] = level[c]
            BY <2>2, <3>1
      <3>3. y = x
            BY <1>1, <2>2, <3>2, ThreadFacts
      <3> QED
          BY <1>5, <3>2, <3>3
    <2> QED
        BY <2>1, <2>2
  <1> QED
      BY <1>2, <1>3, <1>4, <1>6, <1>7 DEF SpinInv

\* Every step preserves the invariant.
LEMMA NextSpinInv == SpinInv /\ [Next]_vars => SpinInv'
  <1> SUFFICES ASSUME SpinInv, [Next]_vars PROVE SpinInv'
      OBVIOUS
  <1>1. CASE UNCHANGED vars
    <2>1. UNCHANGED <<locked, lkcpu, held, ncli, intena, FL_IF, level, pc, want, eflags, panicked>>
          BY <1>1 DEF vars, lockVars, cpuVars
    <2>2. NcliCounts'
          BY <2>1 DEF SpinInv, NcliCounts, Pushed
    <2>3. LevelInv' /\ TypeOK' /\ HeldLocked' /\ LockExclusive' /\ WantHeld'
          BY <2>1 DEF SpinInv, LevelInv, TypeOK, HeldLocked, LockExclusive, WantHeld
    <2>4. CpuHolds' /\ HolderCpu'
          BY <2>1 DEF SpinInv, CpuHolds, HolderCpu, HeldBy
    <2> QED
        BY <2>1, <2>2, <2>3, <2>4 DEF SpinInv
  <1>2. CASE Next
        BY <1>2, AcquireStep, ReleaseStep, PushcliStep, XchgStep, SetcpuStep, MovlStep,
           PopcliStep, InterruptStep DEF Next
  <1> QED
      BY <1>1, <1>2

\* The invariant gives what the locks are for.
LEMMA SpinInvImplies == SpinInv => LockExclusive /\ HandlerNeverSpinsOnOwn
  <1> SUFFICES ASSUME SpinInv PROVE HandlerNeverSpinsOnOwn
      BY DEF SpinInv
  <1>1. ASSUME NEW c \in CPUs, HeldBy(c) # {} PROVE FL_IF[c] = 0
    <2>0. PICK x : x = Me(c)
          OBVIOUS
    <2>1. /\ x \in Threads /\ HeldBy(c) = held[x] /\ ncli[c] = Pushed(x)
          /\ Cardinality(held[x]) \in Nat
          BY <2>0, Here
    <2>2. Cardinality(held[x]) # 0
          BY <1>1, <2>1, FS_EmptySet DEF SpinInv, HeldLocked
    <2>3. ncli[c] > 0
          BY <2>1, <2>2 DEF Pushed
    <2> QED
        BY <2>3 DEF SpinInv, NcliCounts
  <1>2. \A x \in Threads : x[2] = 0 /\ level[x[1]] = 1 => held[x] = {}
        BY DEF SpinInv, LevelInv
  <1> QED
      BY <1>1, <1>2 DEF SpinInv, HandlerNeverSpinsOnOwn

\* acquire() and release() give mutual exclusion among all threads of all CPUs,
\* whatever locks there are and however they nest.
THEOREM SpinlockExclusive == Spec => []LockExclusive
  <1>1. SpinInv => LockExclusive
        BY SpinInvImplies
  <1> QED
      BY <1>1, InitSpinInv, NextSpinInv, PTL DEF Spec

\* pushcli() and popcli() keep interrupts off while a lock is held
\* or sought, so that no handler spins on its own CPU's lock and no panic of
\* spinlock.c is reached.
THEOREM SpinlockInterrupts == Spec => []HandlerNeverSpinsOnOwn
  <1>1. SpinInv => HandlerNeverSpinsOnOwn
        BY SpinInvImplies
  <1> QED
      BY <1>1, InitSpinInv, NextSpinInv, PTL DEF Spec
=============================================================================
