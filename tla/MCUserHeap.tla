----------------------------- MODULE MCUserHeap -----------------------------
(* Instances of UserHeap with heads of one unit and pages of eight.          *)
EXTENDS UserHeap, TLC

CONSTANTS t1, t2

Symmetry == Permutations(Threads)

=============================================================================
