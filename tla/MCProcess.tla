------------------------------ MODULE MCProcess ------------------------------
(***************************************************************************)
(* Two processes and two threads, two plain names and one with an equal    *)
(* sign, and argument vectors at and over each limit.  The stack region is    *)
(* just large enough for what the limits admit.                             *)
(***************************************************************************)
EXTENDS Process

MCNames == {<<"A">>, <<"B">>, <<"A", "B">>}
MCValues == {<<"x">>, <<"y">>}

Arg(n) == [len |-> n, ok |-> TRUE]
BadArg == [len |-> 0, ok |-> FALSE]

MCVectors == {[i \in 1 .. n |-> Arg(0)] : n \in {1, 8, 9, 10}}
             \cup {<<Arg(4), Arg(4)>>, <<Arg(5)>>, <<Arg(3), Arg(4), Arg(4)>>,
                   <<Arg(0), BadArg>>}

=============================================================================
