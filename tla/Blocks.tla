------------------------------- MODULE Blocks -------------------------------
(***************************************************************************)
(* What an allocator promises its callers, whatever lists it keeps: a      *)
(* block that is handed out overlaps no block that is in use, and stays    *)
(* where it is until its owner frees or resizes it.                        *)
(***************************************************************************)
EXTENDS Integers

VARIABLE blocks   \* the blocks in use: [p |-> address, n |-> bytes]

Apart(b, c) == b.p + b.n <= c.p \/ c.p + c.n <= b.p

Init == blocks = {}

Malloc == \E b \in blocks' \ blocks :
            /\ \A c \in blocks : Apart(b, c)
            /\ blocks' = blocks \cup {b}

Free == \E b \in blocks : blocks' = blocks \ {b}

\* realloc of a block that was asked for with at least as many bytes.
Shrink == \E b \in blocks, c \in blocks' :
            /\ c.p = b.p /\ c.n <= b.n
            /\ blocks' = (blocks \ {b}) \cup {c}

Next == Malloc \/ Free \/ Shrink

Spec == Init /\ [][Next]_blocks

=============================================================================
