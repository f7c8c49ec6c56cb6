------------------------------ MODULE MCParts -------------------------------
(***************************************************************************)
(* Instances for TLC of the components that can be checked on their own.   *)
(* Init picks the part that runs; the others stay in their initial state,  *)
(* so TLC explores each of them by itself, in one run.                     *)
(***************************************************************************)
EXTENDS Spinlock

VARIABLES
  part,
  free, tab, proc, kernel, halted,                     \* Memory
  buf, r, w, e, rd, killed, text,                      \* Console
  typed,                                               \* ShParse
  ptr, size, freep, brk, blocks                        \* Umalloc

\* Programs that load, whose file is too short, that wrap around the address
\* space, whose segment is larger in the file than in memory, and no program.
Seg(v, m, f, sh) == [type |-> "LOAD", vaddr |-> v, memsz |-> m, filesz |-> f, short |-> sh]
SomePrograms ==
  {[elf |-> TRUE, ph |-> <<Seg(0, 2, 1, FALSE)>>],
   [elf |-> TRUE, ph |-> <<Seg(0, 1, 1, FALSE), Seg(2, 1, 1, TRUE)>>],
   [elf |-> TRUE, ph |-> <<Seg(2, 15, 1, FALSE)>>],
   [elf |-> TRUE, ph |-> <<Seg(0, 1, 2, FALSE)>>],
   [elf |-> FALSE, ph |-> <<>>]}
M == INSTANCE Memory WITH
  Procs <- {1, 2}, PGSIZE <- 2, NPTENTRIES <- 2, KERNBASE <- 8, UintMod <- 16,
  KernVas <- <<8>>, end <- 3, Low <- 12, PHYSTOP <- 46, NAps <- 1,
  Programs <- SomePrograms, ArgLists <- {<<1>>, <<3>>}, Increments <- {-8, -3, 1, 3},
  panicked <- halted

\* A shell that reads lines and a program that reads, a ring of three.
C == INSTANCE Console WITH
  Readers <- {1, 2}, Chars <- {"a"}, Shells <- {1}, INPUT_BUF <- 3, UintMod <- 6,
  MaxLine <- 3, ReadSizes <- {2}

P == INSTANCE ShParse WITH MAXARGS <- 3, MaxLength <- 5

U == INSTANCE Umalloc WITH HeapStart <- 2, HeapEnd <- 16, MinCore <- 4, Sizes <- {2, 3, 5}

-----------------------------------------------------------------------------
mVars == <<free, tab, proc, kernel, halted>>
cVars == <<buf, r, w, e, rd, killed, text>>
uVars == <<ptr, size, freep, brk, blocks>>
partsVars == <<part, vars, mVars, cVars, typed, uVars>>

PartsInit ==
  /\ part \in {"Spinlock", "Memory", "Console", "ShParse", "Umalloc"}
  /\ Init /\ M!Init /\ C!Init /\ P!Init /\ U!Init

PartsNext ==
  \/ /\ part = "Spinlock" /\ Next
     /\ UNCHANGED <<part, mVars, cVars, typed, uVars>>
  \/ /\ part = "Memory" /\ M!Next
     /\ UNCHANGED <<part, vars, cVars, typed, uVars>>
  \/ /\ part = "Console" /\ C!Next
     /\ UNCHANGED <<part, vars, mVars, typed, uVars>>
  \/ /\ part = "ShParse" /\ P!Next
     /\ UNCHANGED <<part, vars, mVars, cVars, uVars>>
  \/ /\ part = "Umalloc" /\ U!Next
     /\ UNCHANGED <<part, vars, mVars, cVars, typed>>

PartsSpec == PartsInit /\ [][PartsNext]_partsVars

-----------------------------------------------------------------------------
\* LockExclusive and HandlerNeverSpinsOnOwn are Spinlock's; the properties below
\* are those of the part that runs, explained in its module.

\* kalloc() and kfree(): every page is on the free list or in use, once.
FramesConserved == part = "Memory" => M!FramesConserved
\* allocuvm() and deallocuvm(): what lies below p->sz is mapped.
SizeIsMapped == part = "Memory" => M!SizeIsMapped
\* consoleintr() and consoleread(): the ring holds what was typed and not read.
RingIsText == part = "Console" => C!RingIsText
\* consoleread(): nobody sleeps while there is a line to read.
ConsoleSleepersMustWait == part = "Console" => C!ConsoleSleepersMustWait
\* parsecmd() accepts and builds what the grammar of the shell says, and
\* nulterminate() cuts no word short and joins none.
ParsesTheGrammar == part = "ShParse" => P!ParsesTheGrammar
\* malloc() and free(): blocks and free blocks share the heap without overlap,
\* and the free list is circular, in address order, with nothing left to join.
HeapIsPartitioned == part = "Umalloc" => U!HeapIsPartitioned
=============================================================================
