------------------------------ MODULE MCMemory ------------------------------
(***************************************************************************)
(* Up to three user processes in a small memory.  The first one's file has *)
(* one segment, the second one's has two, and the third one's two segments  *)
(* share a page, so that it cannot be loaded.                               *)
(***************************************************************************)
EXTENDS Memory

Files == <<
  <<[first |-> 0, count |-> 1]>>,
  <<[first |-> 0, count |-> 1], [first |-> 1, count |-> 1]>>,
  <<[first |-> 0, count |-> 2], [first |-> 1, count |-> 1]>> >>

MCProgram == [p \in Pids |-> Files[p - 1]]

=============================================================================
