------------------------------- MODULE Shell --------------------------------
(***************************************************************************)
(* The shell running a command line: main(), runcmd() and fork1() of sh.c, *)
(* on top of the open files and pipes of Files, with the programs echo.c,  *)
(* cat.c and wc.c at the ends of the pipes and fork(), exit(), wait() and  *)
(* kill() as the shell sees them (their insides are in Proc).              *)
(***************************************************************************)
EXTENDS Files

CONSTANTS
  Sessions,    \* parsed command lines, and the bound on kill() calls meanwhile
  EchoBytes    \* bytes echo prints

ASSUME ShellAssumption == EchoBytes \in Nat /\ \A s \in Sessions : s.kills \in Nat

VARIABLES
  state, parent,   \* struct proc
  pfd,             \* per process: p[2] of runcmd()
  kills            \* kill() calls still to come

procVars == <<state, parent, pfd>>
vars == <<filesVars, procVars, kills>>

init == 1
sh == 2

\* System calls of a program.  R and W are p[0] and p[1].
R == -1
W == -2
Close(fd) == [op |-> "close", fd |-> fd]
Dup(fd) == [op |-> "dup", fd |-> fd]
Fork(c) == [op |-> "fork", child |-> c]
Op(op) == [op |-> op]
exit == <<Op("exit")>>

Fd(p, fd) == IF fd = R THEN pfd[p][1] ELSE IF fd = W THEN pfd[p][2] ELSE fd

\* What exec() makes of a process; after a failed exec() runcmd() exits.
ProgCode(prog) ==
  CASE prog = "echo" -> [i \in 1..EchoBytes |-> [op |-> "write", bytes |-> <<i>>]]
    [] prog = "cat" -> <<Op("read"), Op("cat")>>
    [] prog = "wc" -> <<Op("read"), Op("wc")>>
    [] OTHER -> <<>>

\* The parent of a pipeline.
PipeCode(left, right) ==
  <<Op("pipe"),
    Fork(<<Close(1), Dup(W), Close(R), Close(W)>> \o left),
    Fork(<<Close(0), Dup(R), Close(R), Close(W)>> \o right),
    Close(R), Close(W), Op("wait"), Op("wait")>> \o exit

\* The system calls that runcmd(cmd), which never returns, makes of a process.
RECURSIVE runcmd(_)
runcmd(cmd) ==
  CASE cmd.type = "EXEC" -> ProgCode(cmd.prog) \o exit
    [] cmd.type = "REDIR" -> <<Close(cmd.fd), Op("open")>> \o runcmd(cmd.cmd)
    [] cmd.type = "LIST" ->
         <<Fork(runcmd(cmd.left)), Op("wait")>> \o runcmd(cmd.right)
    [] cmd.type = "PIPE" -> PipeCode(runcmd(cmd.left), runcmd(cmd.right))
    [] cmd.type = "BACK" -> <<Fork(runcmd(cmd.cmd))>> \o exit

\* init has opened the console and dup'ed it twice; the shell, its child, has
\* read a command line and forks to run it.
Init ==
  /\ file = [f \in 1..NFILE |->
               IF f = 1 THEN [ref |-> 6, type |-> "FD_INODE", pipe |-> 0, writable |-> TRUE]
               ELSE FreeFile]
  /\ ofile = [p \in Procs |-> [fd \in Fds |->
                IF p \in {init, sh} /\ fd <= 2 THEN 1 ELSE NoFile]]
  /\ pipe = [pg \in Pages |-> FreePage]
  /\ fifo = [pg \in Pages |-> <<>>]
  /\ \E s \in Sessions :
       /\ code = [p \in Procs |->
                    IF p = sh THEN <<Fork(runcmd(s.cmd)), Op("wait")>> ELSE <<>>]
       /\ kills = s.kills
  /\ wchan = [p \in Procs |-> Awake]
  /\ killed = [p \in Procs |-> FALSE]
  /\ buf = [p \in Procs |-> <<>>]
  /\ state = [p \in Procs |-> IF p \in {init, sh} THEN "RUNNING" ELSE "UNUSED"]
  /\ parent = [p \in Procs |-> IF p = sh THEN init ELSE 0]
  /\ pfd = [p \in Procs |-> <<0, 0>>]

-----------------------------------------------------------------------------
\* trap(): a process that is killed leaves at its next system call.
Calls(p, op) == Doing(p, op) /\ ~killed[p]
InKernel == {"pipeclose", "pipewrite", "piperead", "pipe_second", "pipe_page",
             "wait", "exit"}
trap_exit(p) ==
  /\ killed[p] /\ code[p] # <<>> /\ wchan[p] = Awake
  /\ Arg(p).op \notin InKernel
  /\ code' = [code EXCEPT ![p] = exit]
  /\ UNCHANGED <<kernelVars, wchan, killed, buf, procVars>>

\* The calls of Files, as programs make them.  cat and wc go on until a read
\* returns nothing; runcmd() exits when pipe() or open() fails, and so does cat
\* when write() does.
FileCall(p) ==
  /\ \/ Calls(p, "close") /\ sys_close(p, Fd(p, Arg(p).fd))
     \/ Calls(p, "dup") /\ sys_dup(p, Fd(p, Arg(p).fd))
     \/ Calls(p, "open") /\ sys_open(p, exit)
     \/ Calls(p, "pipe") /\ sys_pipe(p, exit)
     \/ Doing(p, "pipe_second") /\ pipe_second(p, exit)
     \/ Calls(p, "read") /\ sys_read(p, 0, <<>>)
     \/ Calls(p, "write") /\ sys_write(p, 1, Arg(p).bytes, <<>>, Tail(code[p]))
     \/ Calls(p, "wc") /\ buf[p] # <<>> /\ sys_read(p, 0, <<Op("wc")>>)
     \/ Calls(p, "cat") /\ buf[p] # <<>>
          /\ sys_write(p, 1, buf[p], <<Op("read"), Op("cat")>>, exit)
     \/ /\ Calls(p, "wc") \/ Calls(p, "cat")
        /\ buf[p] = <<>> /\ Return(p)
        /\ UNCHANGED <<kernelVars, wchan, killed, buf>>
     \/ pipeclose(p) \/ pipewrite(p) \/ piperead(p)
  /\ UNCHANGED procVars

\* pipe() returns its descriptors in p[2].
PipeDone(p) ==
  /\ Doing(p, "pipe_page") /\ pipe_page(p, exit)
  /\ pfd' = [pfd EXCEPT ![p] =
               IF Cardinality(FreeFds(p)) >= 2
               THEN <<Min(FreeFds(p)), Min(FreeFds(p) \ {Min(FreeFds(p))})>> ELSE @]
  /\ UNCHANGED <<state, parent>>

-----------------------------------------------------------------------------
Unused == {q \in Procs : state[q] = "UNUSED"}
Kids(p) == {q \in Procs : parent[q] = p /\ state[q] # "UNUSED"}

\* fork(): the child shares every open file.  A shell that cannot fork panics,
\* that is, exits.
fork(p) ==
  /\ Calls(p, "fork")
  /\ \/ LET q == Min(Unused) IN
        /\ Unused # {}
        /\ state' = [state EXCEPT ![q] = "RUNNING"]
        /\ parent' = [parent EXCEPT ![q] = p]
        /\ pfd' = [pfd EXCEPT ![q] = pfd[p]]
        /\ ofile' = [ofile EXCEPT ![q] = ofile[p]]
        /\ file' = [f \in 1..NFILE |->
             [file[f] EXCEPT !.ref = @ + Cardinality({fd \in Fds : ofile[p][fd] = f})]]
        /\ code' = [code EXCEPT ![p] = Tail(@), ![q] = Arg(p).child]
     \/ /\ Unused = {}
        /\ code' = [code EXCEPT ![p] = exit]
        /\ UNCHANGED <<file, ofile, procVars>>
  /\ UNCHANGED <<pipe, fifo, wchan, killed, buf>>

\* exit(): the pipes are closed one after the other; the descriptors of inodes,
\* which nobody waits for, are taken together with the part under ptable.lock.
PipeFds(p) == {fd \in Fds \ FreeFds(p) : file[ofile[p][fd]].type = "FD_PIPE"}

exit_close(p) ==
  /\ Doing(p, "exit") /\ PipeFds(p) # {}
  /\ CloseFd(p, Min(PipeFds(p)), code[p])
  /\ UNCHANGED procVars

exit_zombie(p) ==
  /\ Doing(p, "exit") /\ PipeFds(p) = {}
  /\ file' = [f \in 1..NFILE |->
       LET n == file[f].ref - Cardinality({fd \in Fds : ofile[p][fd] = f})
       IN IF n = 0 THEN FreeFile ELSE [file[f] EXCEPT !.ref = n]]
  /\ ofile' = [ofile EXCEPT ![p] = [fd \in Fds |-> NoFile]]
  /\ state' = [state EXCEPT ![p] = "ZOMBIE"]
  /\ parent' = [q \in Procs |-> IF parent[q] = p THEN init ELSE parent[q]]
  /\ wchan' = wakeup({<<"wait", parent[p]>>})
  /\ code' = [code EXCEPT ![p] = <<>>]
  /\ UNCHANGED <<pipe, fifo, killed, buf, pfd>>

Reap(q) ==
  /\ state[q] = "ZOMBIE"
  /\ state' = [state EXCEPT ![q] = "UNUSED"]
  /\ parent' = [parent EXCEPT ![q] = 0]
  /\ killed' = [killed EXCEPT ![q] = FALSE]
  /\ buf' = [buf EXCEPT ![q] = <<>>]
  /\ pfd' = [pfd EXCEPT ![q] = <<0, 0>>]

wait(p) ==
  /\ Doing(p, "wait")
  /\ \/ (\E q \in Kids(p) : Reap(q)) /\ Return(p) /\ UNCHANGED wchan
     \/ /\ \A q \in Kids(p) : state[q] # "ZOMBIE"
        /\ IF Kids(p) = {} \/ killed[p]
           THEN Return(p) /\ UNCHANGED wchan
           ELSE wchan' = Sleep(p, <<"wait", p>>) /\ UNCHANGED code
        /\ UNCHANGED <<killed, buf, procVars>>
  /\ UNCHANGED kernelVars

\* init reaps the orphans it is given.
init_wait ==
  /\ \E q \in Kids(init) \ {sh} : Reap(q)
  /\ UNCHANGED <<kernelVars, code, wchan>>

\* Somebody kills a process of the command; kill() also wakes a sleeper.
kill(p) ==
  /\ p \notin {init, sh} /\ state[p] = "RUNNING" /\ ~killed[p]
  /\ kills > 0 /\ kills' = kills - 1
  /\ killed' = [killed EXCEPT ![p] = TRUE]
  /\ wchan' = [wchan EXCEPT ![p] = Awake]
  /\ UNCHANGED <<kernelVars, code, buf, procVars>>

Step(p) ==
  \/ trap_exit(p) \/ FileCall(p) \/ PipeDone(p) \/ fork(p)
  \/ exit_close(p) \/ exit_zombie(p) \/ wait(p)

\* The shell has printed its prompt again and every process is gone.
Prompt == code[sh] = <<>> /\ state[sh] = "RUNNING"
Quiet == \A p \in Procs \ {init, sh} : state[p] = "UNUSED"
Done == code[sh] = <<>> /\ Quiet /\ UNCHANGED vars

SomeStep == (init_wait \/ \E p \in Procs : Step(p)) /\ UNCHANGED kills
Next == SomeStep \/ Done \/ \E p \in Procs : kill(p)

\* The scheduler lets some process run as long as one can; nobody need be killed.
Spec == Init /\ [][Next]_vars /\ WF_vars(SomeStep)

-----------------------------------------------------------------------------
\* Every file but the console and every page of a pipe is free again, and the
\* shell, unless it has panicked, has its three descriptors.
NothingLeftOpen ==
  Prompt =>
    /\ \A f \in 2..NFILE : file[f] = FreeFile
    /\ \A pg \in Pages : ~pipe[pg].used
    /\ ofile[sh] = [fd \in Fds |-> IF fd <= 2 THEN 1 ELSE NoFile]

\* Every command line ends: all its processes exit and are reaped, whatever
\* ends of pipes the others still had open, whoever is killed, and whatever
\* pipe(), fork() and open() could not get; the shell is back from wait() (or has
\* panicked on a failed fork()), and no file and no pipe is left open.
CommandEnds == <>[](code[sh] = <<>> /\ Quiet /\ NothingLeftOpen)
=============================================================================
