----------------------------- MODULE AtomicDisk -----------------------------
(***************************************************************************)
(* What the log promises to the file system: the updates made between      *)
(* begin_op and end_op reach the disk all together or, after a crash, not  *)
(* at all.  The comment at the head of log.c: "The logging system only     *)
(* commits when there are no FS system calls active."                      *)
(***************************************************************************)
CONSTANTS Procs, Blocks, Vals

VARIABLES
  store,    \* the blocks a crash leaves behind
  pending,  \* the blocks the running system sees
  open      \* the processes between begin_op and end_op

Init ==
  /\ store \in [Blocks -> Vals]
  /\ pending = store
  /\ open = {}

Begin(p) ==
  p \notin open /\ open' = open \cup {p} /\ UNCHANGED <<store, pending>>

Write(p, b, v) ==
  /\ p \in open
  /\ pending' = [pending EXCEPT ![b] = v]
  /\ UNCHANGED <<store, open>>

End(p) == p \in open /\ open' = open \ {p} /\ UNCHANGED <<store, pending>>

Commit == open = {} /\ store' = pending /\ UNCHANGED <<pending, open>>

Crash == pending' = store /\ open' = {} /\ UNCHANGED store

Next ==
  \/ Commit \/ Crash
  \/ \E p \in Procs :
       Begin(p) \/ End(p) \/ \E b \in Blocks, v \in Vals : Write(p, b, v)

Spec == Init /\ [][Next]_<<store, pending, open>>
=============================================================================
