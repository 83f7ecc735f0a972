------------------------------- MODULE FdLife -------------------------------
(***************************************************************************)
(* What the lock of a poll.FD promises, whatever its implementation: at    *)
(* most one reader and one writer at a time, nobody enters once Close has  *)
(* begun, and the descriptor is closed once, when nobody uses it any more. *)
(***************************************************************************)
CONSTANTS Goroutines

VARIABLES phase,   \* of the descriptor: "open", "closing", "closed"
          use      \* what each goroutine may use it for

lifeVars == <<phase, use>>

Uses == {"none", "r", "w", "misc", "close"}

LifeInit == phase = "open" /\ use = [g \in Goroutines |-> "none"]

Exclusive(o) == o \in {"r", "w"} => \A h \in Goroutines : use[h] # o

Enter(g, o) ==
    /\ phase = "open" /\ use[g] = "none" /\ Exclusive(o)
    /\ phase' = IF o = "close" THEN "closing" ELSE phase
    /\ use' = [use EXCEPT ![g] = o]

Leave(g) ==
    /\ use[g] # "none"
    /\ use' = [use EXCEPT ![g] = "none"]
    /\ UNCHANGED phase

Destroy ==
    /\ phase = "closing" /\ \A g \in Goroutines : use[g] = "none"
    /\ phase' = "closed"
    /\ UNCHANGED use

LifeNext == Destroy \/ \E g \in Goroutines : Leave(g) \/ \E o \in Uses \ {"none"} : Enter(g, o)

LifeSpec == LifeInit /\ [][LifeNext]_lifeVars

=============================================================================
