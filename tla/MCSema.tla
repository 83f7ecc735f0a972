------------------------------- MODULE MCSema -------------------------------
(***************************************************************************)
(* An instance of Sema: two addresses on one root.                         *)
(***************************************************************************)
EXTENDS Sema

CONSTANTS g1, g2, g3, a1, a2

Three == {g1, g2, g3}
TwoAddrs == {a1, a2}

=============================================================================
