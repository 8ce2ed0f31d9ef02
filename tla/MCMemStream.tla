---------------------------- MODULE MCMemStream ----------------------------
(* Memory streams with 5-bit sizes. *)
EXTENDS MemStream, Bitwise

MCOr(a, b)    == a | b
Ones(n)       == [i \in 1 .. n |-> 1]
\* The last write of each set is one that the overflow checks are about.
NarrowWrites  == {<<>>, <<1>>, <<2, 1>>, <<1, 2, 1, 2>>, Ones(17)}
WideWrites    == {<<1>>, <<2, 1>>, <<1, 0, 2>>, Ones(8)}
MCOffsets     == {-2, 0, 1, 3}

=============================================================================
