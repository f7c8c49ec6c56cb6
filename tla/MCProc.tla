------------------------------- MODULE MCProc -------------------------------
(***************************************************************************)
(* Instances of Proc for TLC: which system calls the user programs of a    *)
(* run make, and with which arguments.                                     *)
(***************************************************************************)
EXTENDS Proc

FaultCalls == {"fork", "exit", "wait", "kill", "sleep", "fault"}
SleepCalls == {"fork", "exit", "wait", "kill", "sleep"}
PriorityCalls == {"fork", "exit", "wait", "setpriority"}
WaitxCalls == {"fork", "exit", "waitx"}

None == {0}
ShortSleeps == {0, 1}

\* 0 and 101 are just inside and just outside the range setpriority accepts.
Priorities == {-1, 0, 101}
=============================================================================
