------------------------------- MODULE MCLog --------------------------------
EXTENDS Log, TLC

\* Processes and home blocks are interchangeable (for safety runs).
ProcSymmetry == Permutations(Procs)
Symmetry == Permutations(Procs) \cup Permutations(Blocks)
=============================================================================
