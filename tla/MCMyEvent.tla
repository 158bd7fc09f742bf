----------------------------- MODULE MCMyEvent -----------------------------
(* MyEvent for TLC.  Processes and memory blocks are interchangeable.        *)
EXTENDS MyEvent, TLC

CONSTANTS p1, p2, p3, n1, n2, n3

Symmetry == Permutations(Procs) \cup Permutations(Nodes)
=============================================================================
