---------------------------- MODULE MCInterface ----------------------------
(***************************************************************************)
(* Two processes of which the second has two threads, so that a message    *)
(* may be taken by another thread or by another process between a wake-up  *)
(* and the receive.                                                        *)
(***************************************************************************)
EXTENDS Interface

MCOwner == [t \in {"t1", "t2", "t3"} |-> IF t = "t1" THEN 1 ELSE 2]

=============================================================================
