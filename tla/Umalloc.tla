------------------------------ MODULE Umalloc -------------------------------
(***************************************************************************)
(* malloc() and free() of umalloc.c: a circular list of free blocks in     *)
(* address order.  Addresses and sizes are in units of a Header.  base is  *)
(* at address 0, below the heap, which sbrk() extends from HeapStart.      *)
(***************************************************************************)
EXTENDS Integers, FiniteSets, FiniteSetsExt

CONSTANTS
  HeapStart, HeapEnd,   \* the heap can grow up to HeapEnd
  MinCore,              \* the least morecore() asks for: 4096 in the code
  Sizes                 \* nunits of the calls of malloc(), header included

NULL == -1
Base == 0
Addresses == {Base} \cup (HeapStart..(HeapEnd - 1))

VARIABLES
  ptr, size,    \* s.ptr and s.size of the header at each address
  freep,        \* NULL before the first malloc()
  brk,          \* end of the heap
  blocks        \* blocks handed out and not yet freed: <<address, units>>
vars == <<ptr, size, freep, brk, blocks>>

Init ==
  /\ ptr = [a \in Addresses |-> NULL] /\ size = [a \in Addresses |-> 0]
  /\ freep = NULL /\ brk = HeapStart /\ blocks = {}

\* The list, as an operation sees it: the three variables in a record.
List == [ptr |-> ptr, size |-> size, freep |-> freep]
RECURSIVE Reach(_, _, _)
Reach(m, p, S) == IF p \in S THEN S ELSE Reach(m, m.ptr[p], S \cup {p})
\* Only headers of blocks are kept: a header that was joined to another block, or
\* the link of a block handed out, is memory that is not read again.
Becomes(m) ==
  LET list == Reach(m, m.freep, {}) IN
  /\ ptr' = [a \in Addresses |-> IF a \in list THEN m.ptr[a] ELSE NULL]
  /\ size' = [a \in Addresses |-> IF a \in list \/ \E b \in blocks' : b[1] = a
                                  THEN m.size[a] ELSE 0]
  /\ freep' = m.freep

\* free(): the block p after which bp belongs, then the two joins.
Before(m, p, bp) == bp > p /\ bp < m.ptr[p]
AtTheEnds(m, p, bp) == p >= m.ptr[p] /\ (bp > p \/ bp < m.ptr[p])
RECURSIVE Place(_, _, _)
Place(m, p, bp) ==
  IF Before(m, p, bp) \/ AtTheEnds(m, p, bp) THEN p ELSE Place(m, m.ptr[p], bp)

JoinUpper(m, p, bp) ==
  LET next == m.ptr[p] IN
  IF bp + m.size[bp] = next
  THEN [m EXCEPT !.size[bp] = @ + m.size[next], !.ptr[bp] = m.ptr[next]]
  ELSE [m EXCEPT !.ptr[bp] = next]
JoinLower(m, p, bp) ==
  IF p + m.size[p] = bp
  THEN [m EXCEPT !.size[p] = @ + m.size[bp], !.ptr[p] = m.ptr[bp]]
  ELSE [m EXCEPT !.ptr[p] = bp]
freeBlock(m, bp) ==
  LET p == Place(m, m.freep, bp) IN [JoinLower(JoinUpper(m, p, bp), p, bp) EXCEPT !.freep = p]

\* morecore(): sbrk() gives units at brk, or fails.
Core(nu) == IF nu < MinCore THEN MinCore ELSE nu
morecore(m, nu) == freeBlock([m EXCEPT !.size[brk] = Core(nu)], brk)

\* malloc()'s search from prevp: the block before the one that fits, or NULL
\* when the search is back at freep.
RECURSIVE Fit(_, _, _)
Fit(m, prevp, nunits) ==
  LET p == m.ptr[prevp] IN
  IF m.size[p] >= nunits THEN prevp ELSE IF p = m.freep THEN NULL ELSE Fit(m, p, nunits)

\* Mutant: the tail is cut off one unit early.
TailAtEarly(m, p, nunits) == p + m.size[p] - nunits - 1
TailAt(m, p, nunits) == p + m.size[p] - nunits
Take(m, prevp, nunits) ==
  LET p == m.ptr[prevp]
      a == TailAt(m, p, nunits)
  IN IF m.size[p] = nunits
     THEN [m |-> [m EXCEPT !.ptr[prevp] = m.ptr[p], !.freep = prevp], at |-> p]
     ELSE [m |-> [m EXCEPT !.size[p] = @ - nunits, !.size[a] = nunits, !.freep = prevp], at |-> a]

Started == IF freep = NULL
           THEN [List EXCEPT !.freep = Base, !.ptr[Base] = Base, !.size[Base] = 0]
           ELSE List
malloc(nunits) ==
  LET found == Fit(Started, Started.freep, nunits)
      more == morecore(Started, nunits)
      t == IF found # NULL THEN Take(Started, found, nunits)
           ELSE Take(more, Fit(more, more.freep, nunits), nunits)
      core == IF found = NULL THEN Core(nunits) ELSE 0
  IN
  /\ brk + core <= HeapEnd
  /\ blocks' = blocks \cup {<<t.at, nunits>>}
  /\ Becomes(t.m)
  /\ brk' = brk + core

\* morecore() fails, and malloc() returns 0 with the list unchanged.
malloc_fails(nunits) ==
  /\ Fit(Started, Started.freep, nunits) = NULL
  /\ UNCHANGED <<brk, blocks>>
  /\ Becomes(Started)

free(b) ==
  /\ blocks' = blocks \ {b}
  /\ Becomes(freeBlock(List, b[1]))
  /\ UNCHANGED brk

Next ==
  \/ \E n \in Sizes : malloc(n) \/ malloc_fails(n)
  \/ \E b \in blocks : free(b)
Spec == Init /\ [][Next]_vars

-----------------------------------------------------------------------------
FreeList == IF freep = NULL THEN {} ELSE Reach(List, freep, {})
Units(a, n) == a..(a + n - 1)

\* Every unit of the heap is in exactly one block, handed out or free: malloc()
\* never gives out memory that is in use, and free() with its two joins neither
\* loses memory nor lists it twice.  The free list is one circle in address
\* order, on which the search of free() relies to end, and no two free blocks
\* touch.
HeapIsPartitioned ==
  /\ \A u \in HeapStart..(brk - 1) :
       Cardinality({b \in blocks : u \in Units(b[1], b[2])})
         + Cardinality({p \in FreeList : u \in Units(p, size[p])}) = 1
  /\ freep # NULL =>
       /\ Cardinality({p \in FreeList : ptr[p] <= p}) = 1
       /\ \A p \in FreeList : \A q \in FreeList : p < q => p + size[p] < q \/ p = Base
=============================================================================
