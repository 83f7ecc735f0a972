--------------------------- MODULE MCEpollServer ---------------------------
(***************************************************************************)
(* An instance of EpollServer for TLC.                                     *)
(***************************************************************************)
EXTENDS EpollServer

CONSTANTS c1, c2

TwoClients == {c1, c2}

=============================================================================
