------------------------------ MODULE MCRegistry ------------------------------
(***************************************************************************)
(* Registry with four slots.  Three keys hash to slot 1 and two to slot 3, *)
(* so chains collide and wrap around, and five keys do not fit.            *)
(***************************************************************************)
EXTENDS Registry

MCKeys     == {16, 80, 144, 48, 112}
MCSizes    == {0, 1}
MCIds      == {0}
MCCapacity == 4

=============================================================================
