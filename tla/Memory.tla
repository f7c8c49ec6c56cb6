------------------------------- MODULE Memory -------------------------------
(***************************************************************************)
(* Physical pages and address spaces: kalloc.c, vm.c, exec.c, growproc()   *)
(* and the memory side of userinit(), fork(), exit() and wait().           *)
(*                                                                         *)
(* A system call is one step.  Page tables are private to the process that *)
(* runs, and all that processes share is the free list, one page at a time *)
(* under kmem.lock; so what interleaving can do to a call is to make some  *)
(* kalloc() of it fail, because others hold pages meanwhile.  Each call    *)
(* draws how many pages it will get (left) before that happens.            *)
(*                                                                         *)
(* A page is a page frame number; tab[f] is what frame f holds when it is  *)
(* a page directory or a page table.  What user pages hold is left out.    *)
(***************************************************************************)
EXTENDS Integers, Sequences, FiniteSets, SequencesExt

CONSTANTS
  Procs,             \* process table entries
  PGSIZE,            \* units per page
  NPTENTRIES,        \* entries of a page table
  KERNBASE,          \* first kernel address
  UintMod,           \* addresses are unsigned modulo this
  KernVas,           \* virtual pages of kmap[], one sequence for all ranges
  end, Low, PHYSTOP, \* end of the kernel, of what kinit1() frees, of memory
  NAps,              \* other processors, which startothers() gives stacks
  Programs,          \* files to exec: whether the header is fine, the segments
  ArgLists,          \* sizes of the argument strings passed to exec()
  Increments         \* arguments of sbrk()

VARIABLES
  free,      \* kmem.freelist: pages, in no order
  tab,       \* contents of pages used for page directories and tables
  proc,      \* per process: state, sz, pgdir, kstack
  kernel,    \* kpgdir, and the stacks of startothers()
  panicked
vars == <<free, tab, proc, kernel, panicked>>

PGROUNDUP(a) == ((a + PGSIZE - 1) \div PGSIZE) * PGSIZE
PGROUNDDOWN(a) == (a \div PGSIZE) * PGSIZE
NPDENTRIES == UintMod \div (PGSIZE * NPTENTRIES)
PDX(va) == (va \div PGSIZE) \div NPTENTRIES
PTX(va) == (va \div PGSIZE) % NPTENTRIES
\* The addresses a, a + PGSIZE, ... below b.
PagesFrom(a, b) ==
  [k \in 1..(IF a < b THEN (b - a + PGSIZE - 1) \div PGSIZE ELSE 0) |-> a + (k - 1) * PGSIZE]

Frames == (PGROUNDUP(end) \div PGSIZE)..((PHYSTOP \div PGSIZE) - 1)
Absent == [pa |-> 0, u |-> FALSE]
Zeroed(n) == [k \in 0..(n - 1) |-> Absent]
Junk == <<>>
KernelPage == -1        \* a page kmap[] maps, never on the free list

-----------------------------------------------------------------------------
\* The allocator.  A state s of memory has free, tab, left, and bad: a panic.
kfree(s, f) ==
  [s EXCEPT !.free = @ \cup {f}, !.tab[f] = Junk, !.bad = @ \/ f \notin Frames]
kallocFails(s) == s.left = 0 \/ s.free = {}
kallocPage(s) == Min(s.free)
kalloc(s) == [s EXCEPT !.free = @ \ {Min(@)}, !.left = @ - 1]
freerange(s, vstart, vend) ==
  FoldLeft(LAMBDA r, p : IF p + PGSIZE <= vend THEN kfree(r, p \div PGSIZE) ELSE r,
           s, PagesFrom(PGROUNDUP(vstart), vend))

-----------------------------------------------------------------------------
\* Page tables.  The frame of the table for va, or 0; and memory afterwards.
Table(s, pgdir, va) == s.tab[pgdir][PDX(va)].pa
PTE(s, pgdir, va) == s.tab[Table(s, pgdir, va)][PTX(va)]
Present(s, pgdir, va) == Table(s, pgdir, va) # 0 /\ PTE(s, pgdir, va) # Absent

walkpgdir(s, pgdir, va) ==
  IF Table(s, pgdir, va) # 0 \/ kallocFails(s) THEN s
  ELSE [kalloc(s) EXCEPT !.tab[kallocPage(s)] = Zeroed(NPTENTRIES),
                         !.tab[pgdir][PDX(va)] = [pa |-> kallocPage(s), u |-> TRUE]]

\* mappages() of one page; ok in the result says whether it returned 0.
mappages(s, pgdir, va, pa, u) ==
  LET Map(w) ==
        IF Table(w, pgdir, va) = 0 THEN [w EXCEPT !.ok = FALSE]
        ELSE [w EXCEPT !.bad = @ \/ PTE(w, pgdir, va) # Absent, !.ok = TRUE,
                       !.tab[Table(w, pgdir, va)][PTX(va)] = [pa |-> pa, u |-> u]]
  IN Map(walkpgdir(s, pgdir, va))

deallocuvm(s, pgdir, oldsz, newsz) ==
  FoldLeft(LAMBDA r, a :
             IF ~Present(r, pgdir, a) THEN r
             ELSE [kfree(r, PTE(r, pgdir, a).pa)
                     EXCEPT !.tab[Table(r, pgdir, a)][PTX(a)] = Absent],
           s, PagesFrom(PGROUNDUP(newsz), oldsz))
deallocuvmSize(oldsz, newsz) == IF newsz >= oldsz THEN oldsz ELSE newsz

\* Mutant: the page tables are forgotten.
freevmNoTables(s, pgdir) == kfree(deallocuvm(s, pgdir, KERNBASE, 0), pgdir)
freevm(s, pgdir) ==
  kfree(FoldLeft(LAMBDA r, k : IF r.tab[pgdir][k].pa = 0 THEN r
                               ELSE kfree(r, r.tab[pgdir][k].pa),
                 deallocuvm(s, pgdir, KERNBASE, 0), [k \in 1..NPDENTRIES |-> k - 1]), pgdir)

\* A call gives memory and ret: a page directory or a size, 0 on failure.
setupkvm(s) ==
  IF kallocFails(s) THEN [s |-> s, ret |-> 0]
  ELSE LET pgdir == kallocPage(s)
           Result(m) == IF m.ok THEN [s |-> m, ret |-> pgdir]
                        ELSE [s |-> freevm(m, pgdir), ret |-> 0]
       IN Result(FoldLeft(LAMBDA r, va : IF r.ok THEN mappages(r, pgdir, va, KernelPage, FALSE)
                                         ELSE r,
                          [kalloc(s) EXCEPT !.tab[pgdir] = Zeroed(NPDENTRIES), !.ok = TRUE],
                          KernVas))

\* One more user page of a new mapping; the page is freed if it cannot be mapped.
addpage(s, pgdir, a, u) ==
  IF ~s.ok \/ kallocFails(s) THEN [s EXCEPT !.ok = FALSE]
  ELSE LET Result(m) == IF m.ok THEN m ELSE [kfree(m, kallocPage(s)) EXCEPT !.ok = FALSE]
       IN Result(mappages(kalloc(s), pgdir, a, kallocPage(s), u))

\* Mutant: what was allocated before the failure stays mapped.
allocuvmNoUndo(s, pgdir, oldsz, newsz) ==
  LET Result(m) == [s |-> m, ret |-> IF m.ok THEN newsz ELSE 0]
  IN Result(FoldLeft(LAMBDA r, a : addpage(r, pgdir, a, TRUE), [s EXCEPT !.ok = TRUE],
                     PagesFrom(PGROUNDUP(oldsz), newsz)))
allocuvm(s, pgdir, oldsz, newsz) ==
  LET Result(m) == IF m.ok THEN [s |-> m, ret |-> newsz]
                   ELSE [s |-> deallocuvm(m, pgdir, newsz, oldsz), ret |-> 0]
  IN CASE newsz >= KERNBASE -> [s |-> s, ret |-> 0]
       [] newsz < oldsz -> [s |-> s, ret |-> oldsz]
       [] OTHER -> Result(FoldLeft(LAMBDA r, a : addpage(r, pgdir, a, TRUE),
                                   [s EXCEPT !.ok = TRUE], PagesFrom(PGROUNDUP(oldsz), newsz)))

copyuvm(s, pgdir, sz) ==
  LET Result(m, new) == IF m.ok THEN [s |-> m, ret |-> new]
                        ELSE [s |-> freevm(m, new), ret |-> 0]
      Copy(d) ==
        IF d.ret = 0 THEN d
        ELSE Result(FoldLeft(LAMBDA r, a :
                               IF ~Present(r, pgdir, a) THEN [r EXCEPT !.bad = TRUE]
                               ELSE addpage(r, d.ret, a, PTE(r, pgdir, a).u),
                             [d.s EXCEPT !.ok = TRUE], PagesFrom(0, sz)), d.ret)
  IN Copy(setupkvm(s))

inituvm(s, pgdir) ==
  LET Result(m) == [m EXCEPT !.bad = @ \/ kallocFails(s) \/ ~m.ok]
  IN Result(mappages(kalloc(s), pgdir, 0, kallocPage(s), TRUE))

\* loaduvm() panics unless the pages are there; it fails if the file is short.
loaduvm(s, pgdir, ph) ==
  [s EXCEPT !.bad = @ \/ \E a \in Range(PagesFrom(ph.vaddr, ph.vaddr + ph.filesz)) :
                            Table(s, pgdir, a) = 0]

clearpteu(s, pgdir, uva) ==
  [s EXCEPT !.bad = @ \/ Table(s, pgdir, uva) = 0,
            !.tab[Table(s, pgdir, uva)][PTX(uva)].u = FALSE]

\* copyout() succeeds if all pages are user pages.  uva2ka() does not expect a
\* missing page table.
copyoutFails(s, pgdir, va, len) ==
  \E a \in Range(PagesFrom(PGROUNDDOWN(va), va + len)) :
     ~Present(s, pgdir, a) \/ ~PTE(s, pgdir, a).u

-----------------------------------------------------------------------------
\* exec(): load the segments; on failure everything new is freed.
ExecSegment(r, ph) ==
  LET Load(m) ==
        IF m.ret = 0 \/ ph.vaddr % PGSIZE # 0 THEN [r EXCEPT !.ok = FALSE, !.s = m.s]
        ELSE [r EXCEPT !.ok = ~ph.short, !.sz = m.ret, !.s = loaduvm(m.s, r.pgdir, ph)]
  IN IF ~r.ok \/ ph.type # "LOAD" THEN r
     ELSE IF ph.memsz < ph.filesz \/ (ph.vaddr + ph.memsz) % UintMod < ph.vaddr
          THEN [r EXCEPT !.ok = FALSE]
          ELSE Load(allocuvm(r.s, r.pgdir, r.sz, ph.vaddr + ph.memsz))

\* The arguments are pushed one by one below sz, then the argument vector.
ExecArgs(r, args) ==
  FoldLeft(LAMBDA q, n :
             IF ~q.ok \/ copyoutFails(q.s, q.pgdir, (q.sp - n) % UintMod, n)
             THEN [q EXCEPT !.ok = FALSE]
             ELSE [q EXCEPT !.sp = @ - n],
           r @@ [sp |-> r.sz], Append(args, 1))

ExecLoad(s, prog) ==
  LET Start(d) == [ok |-> d.ret # 0, pgdir |-> d.ret, sz |-> 0, s |-> d.s]
  IN FoldLeft(ExecSegment, Start(IF prog.elf THEN setupkvm(s) ELSE [s |-> s, ret |-> 0]), prog.ph)

ExecStack(r, args) ==
  LET Push(m) ==
        IF m.ret = 0 THEN [r EXCEPT !.ok = FALSE, !.s = m.s]
        ELSE ExecArgs([r EXCEPT !.sz = m.ret, !.s = clearpteu(m.s, r.pgdir, m.ret - 2 * PGSIZE)],
                      args)
  IN IF ~r.ok THEN r
     ELSE Push(allocuvm(r.s, r.pgdir, PGROUNDUP(r.sz), PGROUNDUP(r.sz) + 2 * PGSIZE))

-----------------------------------------------------------------------------
Unused == [state |-> "UNUSED", sz |-> 0, pgdir |-> 0, kstack |-> 0]
Memory(k) == [free |-> free, tab |-> tab, left |-> k, ok |-> TRUE, bad |-> FALSE]
Becomes(m) ==
  \E s \in {m} : free' = s.free /\ tab' = s.tab /\ panicked' = (panicked \/ s.bad)

\* main(): kinit1(), kvmalloc(), startothers(), kinit2(), userinit().
Booted ==
  LET s0 == [free |-> {}, tab |-> [f \in Frames |-> Junk], left |-> Cardinality(Frames),
             ok |-> TRUE, bad |-> FALSE]
      kv == setupkvm(freerange(s0, end, Low))
      aps == FoldLeft(LAMBDA r, i : [s |-> kalloc(r.s), stacks |-> r.stacks \cup {kallocPage(r.s)}],
                      [s |-> kv.s, stacks |-> {}], [i \in 1..NAps |-> i])
      all == freerange(aps.s, Low, PHYSTOP)
      pd == setupkvm(kalloc(all))
  IN [s |-> inituvm(pd.s, pd.ret), kernel |-> [kpgdir |-> kv.ret, stacks |-> aps.stacks],
      init |-> [state |-> "LIVE", sz |-> PGSIZE, pgdir |-> pd.ret, kstack |-> kallocPage(all)]]

Init ==
  LET b == Booted IN
  /\ free = b.s.free /\ tab = b.s.tab /\ panicked = b.s.bad /\ kernel = b.kernel
  /\ proc = [p \in Procs |-> IF p = Min(Procs) THEN b.init ELSE Unused]

\* A process whose first page is gone can only fault, and exit.
Faults(p) == ~Present(Memory(0), proc[p].pgdir, 0)
Runs(p) == ~panicked /\ proc[p].state = "LIVE" /\ ~Faults(p)

\* fork(): a kernel stack in allocproc(), then a copy of the memory.
fork(p, q, k) ==
  /\ Runs(p) /\ proc[q].state = "UNUSED" /\ ~kallocFails(Memory(k))
  /\ \E c \in {copyuvm(kalloc(Memory(k)), proc[p].pgdir, proc[p].sz)},
        kstack \in {kallocPage(Memory(k))} :
       \/ c.ret = 0 /\ Becomes(kfree(c.s, kstack)) /\ UNCHANGED proc
       \/ /\ c.ret # 0 /\ Becomes(c.s)
          /\ proc' = [proc EXCEPT ![q] = [state |-> "LIVE", sz |-> proc[p].sz,
                                          pgdir |-> c.ret, kstack |-> kstack]]
  /\ UNCHANGED kernel

exec(p, prog, args, k) ==
  /\ Runs(p)
  /\ \E r \in {ExecStack(ExecLoad(Memory(k), prog), args)} :
       \/ /\ r.ok
          /\ Becomes(freevm(r.s, proc[p].pgdir))
          /\ proc' = [proc EXCEPT ![p].pgdir = r.pgdir, ![p].sz = r.sz]
       \/ /\ ~r.ok
          /\ Becomes(IF r.pgdir = 0 THEN r.s ELSE freevm(r.s, r.pgdir))
          /\ UNCHANGED proc
  /\ UNCHANGED kernel

\* growproc(), which init does not call: sizes are unsigned.  A size of 0 is taken
\* for a failure, after the pages are gone.
growproc(p, n, k) ==
  LET sz == proc[p].sz
      new == (sz + n) % UintMod
  IN
  /\ Runs(p) /\ p # Min(Procs) /\ n # 0
  /\ \E m \in {IF n > 0 THEN allocuvm(Memory(k), proc[p].pgdir, sz, new)
               ELSE [s |-> deallocuvm(Memory(k), proc[p].pgdir, sz, new),
                     ret |-> deallocuvmSize(sz, new)]} :
       /\ Becomes(m.s)
       /\ proc' = IF m.ret = 0 THEN proc ELSE [proc EXCEPT ![p].sz = m.ret]
  /\ UNCHANGED kernel

exit(p) ==
  /\ ~panicked /\ proc[p].state = "LIVE" /\ p # Min(Procs)
  /\ proc' = [proc EXCEPT ![p].state = "ZOMBIE"]
  /\ UNCHANGED <<free, tab, kernel, panicked>>

wait(p) ==
  /\ ~panicked /\ proc[p].state = "ZOMBIE"
  /\ Becomes(freevm(kfree(Memory(0), proc[p].kstack), proc[p].pgdir))
  /\ proc' = [proc EXCEPT ![p] = Unused]
  /\ UNCHANGED kernel

Next ==
  \E p \in Procs :
     \/ exit(p)
     \/ wait(p)
     \/ \E k \in 0..Cardinality(free), q \in Procs : fork(p, q, k)
     \/ \E k \in 0..Cardinality(free), prog \in Programs, args \in ArgLists :
          exec(p, prog, args, k)
     \/ \E k \in 0..Cardinality(free), n \in Increments : growproc(p, n, k)
Spec == Init /\ [][Next]_vars

-----------------------------------------------------------------------------
UserPages(pgdir) ==
  {a \in Range(PagesFrom(0, KERNBASE)) : Present(Memory(0), pgdir, a)}
Started == {p \in Procs : proc[p].state # "UNUSED"}
\* What pages are used for: <<page directory, kind of use, index, page>>.
UsesOf(pgdir) ==
  {<<pgdir, "pgdir", 0, pgdir>>}
    \cup {<<pgdir, "table", k, tab[pgdir][k].pa>> : k \in 0..(NPDENTRIES - 1)}
    \cup {<<pgdir, "page", a, PTE(Memory(0), pgdir, a).pa>> : a \in UserPages(pgdir)}
Uses ==
  UNION {UsesOf(d) : d \in {kernel.kpgdir} \cup {proc[p].pgdir : p \in Started}}
    \cup {<<0, "kstack", p, proc[p].kstack>> : p \in Started}
    \cup {<<0, "stack", f, f>> : f \in kernel.stacks}

\* However an allocation fails in the middle of fork(), exec() or sbrk(), every
\* page of memory is either free or has exactly one use, as a kernel stack, a
\* page directory, a page table or a user page: nothing is lost, freed twice or
\* shared between processes.
FramesConserved ==
  /\ \A f \in Frames :
       Cardinality({u \in Uses : u[4] = f}) = (IF f \in free THEN 0 ELSE 1)
  /\ \A p, q \in Started : p # q => proc[p].pgdir # proc[q].pgdir

\* p->sz tells the truth: the pages below it are mapped and no others, so
\* copyuvm(), loaduvm() and clearpteu() find what they expect and their panics,
\* like those of mappages() and kfree(), are out of reach.
SizeIsMapped ==
  /\ ~panicked
  /\ \A p \in Procs : proc[p].state = "LIVE" /\ ~Faults(p)
       => UserPages(proc[p].pgdir) = Range(PagesFrom(0, proc[p].sz))
=============================================================================
