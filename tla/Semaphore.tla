----------------------------- MODULE Semaphore ------------------------------
(***************************************************************************)
(* What a runtime semaphore promises: semacquire takes one unit that a     *)
(* semrelease gave, and returns only with it.                              *)
(***************************************************************************)
EXTENDS Naturals

CONSTANTS Goroutines, Addrs, None, Giving

VARIABLES count,    \* units given and not yet taken, of each semaphore
          does      \* the semaphore a goroutine is acquiring, Giving, or None

semVars == <<count, does>>

SemInit == count = [a \in Addrs |-> 0] /\ does = [g \in Goroutines |-> None]

Now(g, before, after) == does[g] = before /\ does' = [does EXCEPT ![g] = after]

Want(g, a) == Now(g, None, a) /\ UNCHANGED count

Take(g, a) ==
    /\ Now(g, a, None) /\ count[a] > 0
    /\ count' = [count EXCEPT ![a] = @ - 1]

Give(g, a) ==
    /\ Now(g, None, Giving)
    /\ count' = [count EXCEPT ![a] = @ + 1]

\* semrelease1 returns.
Given(g) == Now(g, Giving, None) /\ UNCHANGED count

SemNext ==
    \E g \in Goroutines : Given(g) \/ \E a \in Addrs : Give(g, a) \/ Want(g, a) \/ Take(g, a)

SemSpec == SemInit /\ [][SemNext]_semVars

=============================================================================
