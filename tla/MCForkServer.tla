---------------------------- MODULE MCForkServer ----------------------------
(***************************************************************************)
(* An instance of ForkServer for TLC.                                      *)
(***************************************************************************)
EXTENDS ForkServer

CONSTANTS c1, c2

TwoClients == {c1, c2}

=============================================================================
