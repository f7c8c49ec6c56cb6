------------------------------- MODULE Files --------------------------------
(***************************************************************************)
(* Open files and pipes: file.c, pipe.c and the descriptor calls of        *)
(* sysfile.c.  A process is the sequence of operations it still has to do, *)
(* code[p]; an operation is taken off when it returns.  The ones that need *)
(* more than one critical section put the rest of themselves in front.     *)
(***************************************************************************)
EXTENDS Integers, Sequences, FiniteSets, FiniteSetsExt

CONSTANTS
  NPROC,       \* processes are the numbers 1..NPROC
  NFILE, NOFILE,
  Pages,       \* pages kalloc() has for pipes
  PIPESIZE,
  UintMod,     \* uint is counted modulo UintMod (2^32)
  BufSize      \* sizeof(buf) of the programs that read

ASSUME FilesAssumption ==
  /\ {NPROC, NFILE, NOFILE, PIPESIZE, UintMod, BufSize} \subseteq Nat \ {0}
  /\ PIPESIZE < UintMod /\ UintMod % PIPESIZE = 0

Procs == 1..NPROC
Fds == 0..(NOFILE - 1)
NoFile == 0
Awake == <<"awake", 0>>

VARIABLES
  file,        \* ftable.file: ref, type, pipe, writable
  ofile,       \* per process: descriptor -> file, or NoFile
  pipe,        \* struct pipe in each page; used: the page is allocated
  fifo,        \* history: per page, the bytes written and not yet read
  code,        \* per process: operations still to do
  wchan,       \* per process: the channel it sleeps on, or Awake
  killed,
  buf          \* per process: what its last read returned

kernelVars == <<file, ofile, pipe, fifo>>
filesVars == <<kernelVars, code, wchan, killed, buf>>

FreeFile == [ref |-> 0, type |-> "FD_NONE", pipe |-> 0, writable |-> FALSE]
FreePage == [used |-> FALSE, nread |-> 0, nwrite |-> 0, readopen |-> FALSE,
             writeopen |-> FALSE, data |-> [i \in 0..(PIPESIZE - 1) |-> 0]]

\* p is about to do, or is inside, an operation of this kind.
Doing(p, op) == code[p] # <<>> /\ Head(code[p]).op = op /\ wchan[p] = Awake
Arg(p) == Head(code[p])

\* The operation returns (Return), or goes on as first does.
Return(p) == code' = [code EXCEPT ![p] = Tail(@)]
Continue(p, first) == code' = [code EXCEPT ![p] = first \o Tail(@)]

\* wchan after wakeup(), and after p has gone to sleep.
wakeup(chans) == [q \in Procs |-> IF wchan[q] \in chans THEN Awake ELSE wchan[q]]
Sleep(p, chan) == [wchan EXCEPT ![p] = chan]
nread(pg) == <<"nread", pg>>
nwrite(pg) == <<"nwrite", pg>>

-----------------------------------------------------------------------------
FreeFiles == {f \in 1..NFILE : file[f].ref = 0}
FreeFds(p) == {fd \in Fds : ofile[p][fd] = NoFile}

filealloc(f) == [file EXCEPT ![f].ref = 1]

\* fileclose() on a file, and what is left to do: pipeclose() with its own lock.
\* (iput() of an inode is in FsTree.)
AfterClose(f) ==
  IF file[f].ref = 1 /\ file[f].type = "FD_PIPE"
  THEN <<[op |-> "pipeclose", page |-> file[f].pipe, writable |-> file[f].writable]>>
  ELSE <<>>
fileclose(f) ==
  [file EXCEPT ![f] = IF @.ref > 1 THEN [@ EXCEPT !.ref = @ - 1]
                      ELSE FreeFile]

\* sys_close(), and one round of the loop in exit().
CloseFd(p, fd, rest) ==
  LET f == ofile[p][fd] IN
  /\ f # NoFile
  /\ ofile' = [ofile EXCEPT ![p][fd] = NoFile]
  /\ file' = fileclose(f)
  /\ code' = [code EXCEPT ![p] = AfterClose(f) \o rest]
  /\ UNCHANGED <<pipe, fifo, wchan, killed, buf>>

sys_close(p, fd) ==
  \/ CloseFd(p, fd, Tail(code[p]))
  \/ ofile[p][fd] = NoFile /\ Return(p) /\ UNCHANGED <<kernelVars, wchan, killed, buf>>

\* sys_dup(): fdalloc() takes the lowest free descriptor, then filedup().
\* Mutant: filedup() is forgotten.
filedupNot(f) == file
filedup(f) == [file EXCEPT ![f].ref = @ + 1]
sys_dup(p, fd) ==
  /\ \/ /\ ofile[p][fd] # NoFile /\ FreeFds(p) # {}
        /\ ofile' = [ofile EXCEPT ![p][Min(FreeFds(p))] = ofile[p][fd]]
        /\ file' = filedup(ofile[p][fd])
     \/ /\ ofile[p][fd] = NoFile \/ FreeFds(p) = {}
        /\ UNCHANGED <<ofile, file>>
  /\ Return(p)
  /\ UNCHANGED <<pipe, fifo, wchan, killed, buf>>

\* sys_open() of a file that exists, as far as descriptors go.
sys_open(p, Fail) ==
  /\ \/ /\ FreeFiles # {} /\ FreeFds(p) # {}
        /\ ofile' = [ofile EXCEPT ![p][Min(FreeFds(p))] = Min(FreeFiles)]
        /\ file' = [file EXCEPT ![Min(FreeFiles)] =
                     [ref |-> 1, type |-> "FD_INODE", pipe |-> 0, writable |-> TRUE]]
        /\ Return(p)
     \/ /\ FreeFiles = {} \/ FreeFds(p) = {}
        /\ code' = [code EXCEPT ![p] = Fail] /\ UNCHANGED <<ofile, file>>
  /\ UNCHANGED <<pipe, fifo, wchan, killed, buf>>

-----------------------------------------------------------------------------
\* sys_pipe(): pipealloc() calls filealloc() twice, then kalloc(); the last step
\* also fills in the files and the two descriptors.  On failure Fail is done.
sys_pipe(p, Fail) ==
  /\ \/ /\ FreeFiles # {}
        /\ file' = filealloc(Min(FreeFiles))
        /\ Continue(p, <<[op |-> "pipe_second", f0 |-> Min(FreeFiles)]>>)
     \/ /\ FreeFiles = {}
        /\ code' = [code EXCEPT ![p] = Fail] /\ UNCHANGED file
  /\ UNCHANGED <<ofile, pipe, fifo, wchan, killed, buf>>

pipe_second(p, Fail) ==
  /\ \/ /\ FreeFiles # {}
        /\ file' = filealloc(Min(FreeFiles))
        /\ Continue(p, <<[op |-> "pipe_page", f0 |-> Arg(p).f0, f1 |-> Min(FreeFiles)]>>)
     \/ /\ FreeFiles = {}
        /\ file' = fileclose(Arg(p).f0)
        /\ code' = [code EXCEPT ![p] = Fail]
  /\ UNCHANGED <<ofile, pipe, fifo, wchan, killed, buf>>

pipe_page(p, Fail) ==
  LET f0 == Arg(p).f0
      f1 == Arg(p).f1
      free == {pg \in Pages : ~pipe[pg].used}
      fd0 == Min(FreeFds(p))
      fd1 == Min(FreeFds(p) \ {fd0})
      End(pg, w) == [ref |-> 1, type |-> "FD_PIPE", pipe |-> pg, writable |-> w]
  IN
  /\ \/ \E pg \in free :
          /\ Cardinality(FreeFds(p)) >= 2
          /\ pipe' = [pipe EXCEPT ![pg] = [FreePage EXCEPT !.used = TRUE,
                                             !.readopen = TRUE, !.writeopen = TRUE]]
          /\ fifo' = [fifo EXCEPT ![pg] = <<>>]
          /\ file' = [file EXCEPT ![f0] = End(pg, FALSE), ![f1] = End(pg, TRUE)]
          /\ ofile' = [ofile EXCEPT ![p][fd0] = f0, ![p][fd1] = f1]
          /\ Return(p)
     \/ /\ free = {} \/ Cardinality(FreeFds(p)) < 2
        /\ file' = [file EXCEPT ![f0] = FreeFile, ![f1] = FreeFile]
        /\ code' = [code EXCEPT ![p] = Fail]
        /\ UNCHANGED <<ofile, pipe, fifo>>
  /\ UNCHANGED <<wchan, killed, buf>>

\* pipeclose(): the last end to go frees the page.
\* Mutant: closing the write end does not wake the readers.
WokenByCloseNone(pg, w) == IF w THEN {} ELSE {nwrite(pg)}
WokenByClose(pg, w) == IF w THEN {nread(pg)} ELSE {nwrite(pg)}
\* Mutant: the page is not freed with the last end.
AfterEndKept(r) == r
AfterEnd(r) == IF r.readopen \/ r.writeopen THEN r ELSE FreePage
pipeclose(p) ==
  LET pg == Arg(p).page
      w == Arg(p).writable
  IN
  /\ Doing(p, "pipeclose")
  /\ pipe' = [pipe EXCEPT ![pg] =
       AfterEnd([@ EXCEPT !.writeopen = @ /\ ~w, !.readopen = @ /\ w])]
  /\ wchan' = wakeup(WokenByClose(pg, w))
  /\ Return(p)
  /\ UNCHANGED <<file, ofile, fifo, killed, buf>>

-----------------------------------------------------------------------------
\* fileread() and filewrite() of a file of type FD_PIPE go on in pipe.c; an inode
\* gives end of file and takes every byte (its contents are in FileData).  The
\* program goes on with then, or with Fail after an error.
sys_read(p, fd, then) ==
  LET f == ofile[p][fd] IN
  /\ IF f # NoFile /\ file[f].type = "FD_PIPE" /\ ~file[f].writable
     THEN /\ Continue(p, <<[op |-> "piperead", page |-> file[f].pipe]>> \o then)
          /\ UNCHANGED buf
     ELSE Continue(p, then) /\ buf' = [buf EXCEPT ![p] = <<>>]
  /\ UNCHANGED <<kernelVars, wchan, killed>>

sys_write(p, fd, bytes, then, Fail) ==
  LET f == ofile[p][fd] IN
  /\ IF f # NoFile /\ file[f].type = "FD_PIPE" /\ file[f].writable
     THEN Continue(p, <<[op |-> "pipewrite", page |-> file[f].pipe,
                         bytes |-> bytes, fail |-> Fail]>> \o then)
     ELSE Continue(p, then)
  /\ UNCHANGED <<kernelVars, wchan, killed, buf>>

Plus(a, b) == (a + b) % UintMod
Full(r) == r.nwrite = Plus(r.nread, PIPESIZE)
Empty(r) == r.nread = r.nwrite

\* The bytes in the ring, oldest first.
RingLen(r) == (r.nwrite - r.nread) % UintMod
Ring(r) == [i \in 1..RingLen(r) |-> r.data[Plus(r.nread, i - 1) % PIPESIZE]]

\* The loop of pipewrite() copies bytes one by one until the ring is full.
Room(r) == Min({n \in 0..UintMod : Full([r EXCEPT !.nwrite = Plus(@, n)])})
Put(r, bytes) ==
  LET from(j) == {i \in DOMAIN bytes : Plus(r.nwrite, i - 1) % PIPESIZE = j} IN
  [r EXCEPT !.nwrite = Plus(@, Len(bytes)),
            !.data = [j \in DOMAIN @ |-> IF from(j) = {} THEN @[j]
                                         ELSE bytes[Max(from(j))]]]

\* pipewrite(), from acquire(&p->lock) to the next sleep() or to the return.
pipewrite(p) ==
  LET pg == Arg(p).page
      n == Min({Room(pipe[pg]), Len(Arg(p).bytes)})
      r == Put(pipe[pg], SubSeq(Arg(p).bytes, 1, n))
      rest == SubSeq(Arg(p).bytes, n + 1, Len(Arg(p).bytes))
  IN
  /\ Doing(p, "pipewrite")
  /\ pipe' = [pipe EXCEPT ![pg] = r]
  /\ fifo' = [fifo EXCEPT ![pg] = @ \o SubSeq(Arg(p).bytes, 1, n)]
  /\ \/ rest = <<>> /\ wchan' = wakeup({nread(pg)}) /\ Return(p)
     \/ /\ rest # <<>> /\ (~r.readopen \/ killed[p])
        /\ code' = [code EXCEPT ![p] = Arg(p).fail]
        /\ UNCHANGED wchan
     \/ /\ rest # <<>> /\ r.readopen /\ ~killed[p]
        /\ wchan' = [wakeup({nread(pg)}) EXCEPT ![p] = nwrite(pg)]
        /\ code' = [code EXCEPT ![p][1].bytes = rest]
  /\ UNCHANGED <<file, ofile, killed, buf>>

\* piperead(), from acquire(&p->lock) to sleep() or to the return.
piperead(p) ==
  LET pg == Arg(p).page
      r == pipe[pg]
      n == Min({BufSize, RingLen(r)})
  IN
  /\ Doing(p, "piperead")
  /\ \/ /\ Empty(r) /\ r.writeopen /\ ~killed[p]
        /\ wchan' = Sleep(p, nread(pg))
        /\ UNCHANGED <<pipe, fifo, code, buf>>
     \/ /\ Empty(r) /\ r.writeopen /\ killed[p]
        /\ buf' = [buf EXCEPT ![p] = <<>>] /\ Return(p)
        /\ UNCHANGED <<pipe, fifo, wchan>>
     \/ /\ ~(Empty(r) /\ r.writeopen)
        /\ buf' = [buf EXCEPT ![p] = SubSeq(Ring(r), 1, n)]
        /\ pipe' = [pipe EXCEPT ![pg].nread = Plus(@, n)]
        /\ fifo' = [fifo EXCEPT ![pg] = SubSeq(@, n + 1, Len(@))]
        /\ wchan' = wakeup({nwrite(pg)})
        /\ Return(p)
  /\ UNCHANGED <<file, ofile, killed>>

-----------------------------------------------------------------------------
\* Files a process has got from filealloc() and not yet given a descriptor.
InHand(p) ==
  IF code[p] = <<>> THEN {}
  ELSE CASE Arg(p).op = "pipe_second" -> {Arg(p).f0}
         [] Arg(p).op = "pipe_page" -> {Arg(p).f0, Arg(p).f1}
         [] OTHER -> {}

\* file.c counts every reference: f->ref is the number of descriptors of all
\* processes that name f, and of calls that have allocated it.  With it, a pipe's
\* page is in use exactly while an end of it is open, and whoever is inside
\* pipewrite(), piperead() or pipeclose() does not have it freed, or given to
\* another pipe, under its feet.
RefsCounted ==
  /\ \A f \in 1..NFILE :
       file[f].ref =
         Cardinality({x \in Procs \X Fds : ofile[x[1]][x[2]] = f})
         + Cardinality({p \in Procs : f \in InHand(p)})
  /\ \A pg \in Pages, w \in BOOLEAN :
       pipe[pg].used /\ (IF w THEN pipe[pg].writeopen ELSE pipe[pg].readopen) <=>
         \/ \E f \in 1..NFILE :
              file[f] = [ref |-> file[f].ref, type |-> "FD_PIPE", pipe |-> pg, writable |-> w]
         \/ \E p \in Procs :
              code[p] # <<>> /\ Arg(p) = [op |-> "pipeclose", page |-> pg, writable |-> w]
  /\ \A p \in Procs :
       code[p] # <<>> /\ Arg(p).op \in {"pipewrite", "piperead", "pipeclose"} =>
         pipe[Arg(p).page].used


\* Nobody sleeps in pipe.c without a reason: a reader only while the pipe is
\* empty and a writer remains, a writer only while it is full and a reader
\* remains.
PipeSleepersMustWait ==
  \A p \in Procs, pg \in Pages :
    /\ wchan[p] = nread(pg) => Empty(pipe[pg]) /\ pipe[pg].writeopen
    /\ wchan[p] = nwrite(pg) => Full(pipe[pg]) /\ pipe[pg].readopen
=============================================================================
