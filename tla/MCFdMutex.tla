----------------------------- MODULE MCFdMutex ------------------------------
(***************************************************************************)
(* An instance of FdMutex: four goroutines, and fields that two references *)
(* or two waiters fill.                                                    *)
(***************************************************************************)
EXTENDS FdMutex

CONSTANTS g1, g2, g3, g4

Four == {g1, g2, g3, g4}

=============================================================================
