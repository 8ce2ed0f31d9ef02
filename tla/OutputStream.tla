----------------------------- MODULE OutputStream -----------------------------
(***************************************************************************)
(* What a memory stream promises its writer: data, a position, and the     *)
(* size last published.  A write puts its units at the position, filling   *)
(* what lies between the end of the data and the position with zeros, or   *)
(* it fails and changes nothing.  Module MemStream implements it.          *)
(***************************************************************************)
EXTENDS Integers, Sequences

CONSTANTS
    Writes,     \* what a writer hands over: sequences of units
    Offsets,    \* offsets of a seek
    PosMax      \* the largest position

VARIABLES
    data,       \* the units from 0 on, as a function
    pos,
    size,       \* the size the caller sees
    ret         \* the last call and its result

vars == <<data, pos, size, ret>>

\* The data d, n units long, with w put at position p.
Overlay(d, n, p, w) ==
    [i \in 0 .. (IF p + Len(w) >= n THEN p + Len(w) ELSE n) - 1 |->
        IF p <= i /\ i < p + Len(w) THEN w[i - p + 1]
        ELSE IF i < n THEN d[i] ELSE 0]

Length(d) == CHOOSE n \in 0 .. 2 * PosMax : DOMAIN d = 0 .. n - 1

Init ==
    /\ data = [i \in {} |-> 0]
    /\ pos = 0
    /\ size = 0
    /\ ret = <<"none", 0>>

Write(w) ==
    \/ /\ data' = Overlay(data, Length(data), pos, w)
       /\ pos' = pos + Len(w)
       /\ size' = pos'
       /\ ret' = <<"write", Len(w)>>
    \/ /\ ret' = <<"write", 0>>
       /\ UNCHANGED <<data, pos, size>>

\* From the start, from the position, or from the end of the data.
Seek(offset) ==
    \/ \E base \in {0, pos, Length(data)} :
          /\ base + offset \in 0 .. PosMax
          /\ pos' = base + offset
          /\ ret' = <<"seek", pos'>>
          /\ UNCHANGED <<data, size>>
    \/ /\ ret' = <<"seek", -1>>
       /\ UNCHANGED <<data, pos, size>>

Next ==
    \/ \E w \in Writes : Write(w)
    \/ \E offset \in Offsets : Seek(offset)

Spec == Init /\ [][Next]_vars

=============================================================================
