---------------------------- MODULE MCKernelHeap ----------------------------
(* An instance of KernelHeap: heads of one unit, majors of one page of 16    *)
(* units or more.                                                           *)
EXTENDS KernelHeap

=============================================================================
