------------------------------- MODULE MCTftp -------------------------------
(***************************************************************************)
(* Instances of Tftp for TLC.  A full block has 2 bytes.                   *)
(***************************************************************************)
EXTENDS Tftp, TLC

CONSTANTS c1, c2, c3

OneClient == {c1}
ThreeClients == {c1, c2, c3}

\* Two full blocks and an empty one: the last number is BLOCK_MOD - 1.
UpToTheLimit == (c1 :> 4)
\* One file longer than the block numbers reach.
ThreeSizes == (c1 :> 7 @@ c2 :> 3 @@ c3 :> 0)

=============================================================================
