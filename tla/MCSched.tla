------------------------------ MODULE MCSched ------------------------------
(***************************************************************************)
(* Small instances of the scheduler.  Three processes exist at boot (idle, *)
(* kernel, init); the constants of each configuration say how many more    *)
(* processes and threads user programs may create.                         *)
(***************************************************************************)
EXTENDS Sched

=============================================================================
