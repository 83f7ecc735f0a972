-------------------------------- MODULE Sema --------------------------------
(***************************************************************************)
(* The semaphores of runtime/sema.go: semacquire1 and semrelease1 on the   *)
(* addresses of one semaRoot. The treap of the root is what queue and      *)
(* dequeue make of it: a list of waiters for each address.                 *)
(***************************************************************************)
EXTENDS Naturals, Sequences, FiniteSets

CONSTANTS Goroutines, Addrs, None,
          MAX_VAL       \* bound of the exploration: largest value of a semaphore

ASSUME SemaAssumption ==
    None \notin Addrs \cup Goroutines /\ IsFiniteSet(Goroutines) /\ MAX_VAL \in Nat

VARIABLES val,      \* the word at each address
          nwait,    \* root.nwait
          queue,    \* the waiters of each address
          lock,     \* who holds root.lock, or None
          pc, addr, \* where each goroutine is, and on which address
          opt,      \* lifo of its semacquire1, handoff of its semrelease1
          ticket,   \* s.ticket = 1: its unit was taken for it
          woken     \* the waiter it is about to make ready, or None

vars == <<val, nwait, queue, lock, pc, addr, opt, ticket, woken>>

Init ==
    /\ val = [a \in Addrs |-> 0] /\ nwait = 0 /\ queue = [a \in Addrs |-> <<>>] /\ lock = None
    /\ pc = [g \in Goroutines |-> "idle"] /\ addr = [g \in Goroutines |-> None]
    /\ opt = [g \in Goroutines |-> FALSE] /\ ticket = [g \in Goroutines |-> FALSE]
    /\ woken = [g \in Goroutines |-> None]

Goto(g, to) == pc' = [pc EXCEPT ![g] = to]

Calls(g, a, o, to) ==
    /\ pc[g] = "idle"
    /\ Goto(g, to)
    /\ addr' = [addr EXCEPT ![g] = a] /\ opt' = [opt EXCEPT ![g] = o]

Returns(g) ==
    /\ Goto(g, "idle")
    /\ addr' = [addr EXCEPT ![g] = None] /\ opt' = [opt EXCEPT ![g] = FALSE]

\* cansemacquire: a unit is there and is taken, or there is none.
cansemacquire(a) == val[a] > 0 /\ val' = [val EXCEPT ![a] = @ - 1]
cannot(a) == val[a] = 0 /\ UNCHANGED val

-----------------------------------------------------------------------------
(***************************************************************************)
(* semacquire1.                                                            *)
(***************************************************************************)
semacquire(g, a, lifo) ==
    /\ Calls(g, a, lifo, "easy")
    /\ UNCHANGED <<val, nwait, queue, lock, ticket, woken>>

\* "Easy case", and the test after a wake-up without a ticket.
TryUnlocked(g) ==
    /\ pc[g] \in {"easy", "woken"} /\ ~ticket[g]
    /\ \/ cansemacquire(addr[g]) /\ Returns(g)
       \/ cannot(addr[g]) /\ Goto(g, "acquire") /\ UNCHANGED <<addr, opt>>
    /\ UNCHANGED <<nwait, queue, lock, ticket, woken>>

HasTicket(g) ==
    /\ pc[g] = "woken" /\ ticket[g]
    /\ ticket' = [ticket EXCEPT ![g] = FALSE]
    /\ Returns(g)
    /\ UNCHANGED <<val, nwait, queue, lock, woken>>

\* Mutant: the waiter does not count itself.
Announce_Not(n) == n

\* root.nwait.Add(1), before the second cansemacquire.
Announce(n) == n + 1

LockAcquire(g) ==
    /\ pc[g] = "acquire" /\ lock = None
    /\ lock' = g /\ nwait' = Announce(nwait)
    /\ Goto(g, "try")
    /\ UNCHANGED <<val, queue, addr, opt, ticket, woken>>

TryLocked(g) ==
    /\ pc[g] = "try" /\ cansemacquire(addr[g])
    /\ nwait' = nwait - 1 /\ lock' = None
    /\ Returns(g)
    /\ UNCHANGED <<queue, ticket, woken>>

\* root.queue, then goparkunlock.
Enqueue(g) ==
    /\ pc[g] = "try" /\ cannot(addr[g])
    /\ queue' = [queue EXCEPT ![addr[g]] = IF opt[g] THEN <<g>> \o @ ELSE Append(@, g)]
    /\ lock' = None
    /\ Goto(g, "parked")
    /\ UNCHANGED <<nwait, addr, opt, ticket, woken>>

-----------------------------------------------------------------------------
(***************************************************************************)
(* semrelease1.                                                            *)
(***************************************************************************)
semrelease(g, a, handoff) ==
    /\ val[a] < MAX_VAL
    /\ Calls(g, a, handoff, "added")
    /\ val' = [val EXCEPT ![a] = @ + 1]
    /\ UNCHANGED <<nwait, queue, lock, ticket, woken>>

\* "Easy case: no waiters?"
NoWaiters(g) ==
    /\ pc[g] = "added"
    /\ IF nwait = 0 THEN Returns(g) ELSE Goto(g, "release") /\ UNCHANGED <<addr, opt>>
    /\ UNCHANGED <<val, nwait, queue, lock, ticket, woken>>

\* Mutant: one waiter at most is in the list of an address.
Rest_None(q) == <<>>

\* The list without the waiter that is dequeued.
Rest(q) == Tail(q)

\* Under the lock: nobody waits any more, or nobody on this address, or the
\* first of the address's list is dequeued.
LockRelease(g) ==
    /\ pc[g] = "release" /\ lock = None
    /\ IF nwait = 0 \/ queue[addr[g]] = <<>>
       THEN Returns(g) /\ UNCHANGED <<nwait, queue, woken>>
       ELSE /\ woken' = [woken EXCEPT ![g] = Head(queue[addr[g]])]
            /\ queue' = [queue EXCEPT ![addr[g]] = Rest(@)]
            /\ nwait' = nwait - 1
            /\ Goto(g, "wake") /\ UNCHANGED <<addr, opt>>
    /\ UNCHANGED <<val, lock, ticket>>

\* Mutant: the ticket is given without a unit.
Pays_Not(g) == TRUE

\* A handoff: the releaser takes the unit for the waiter.
Pays(g) == val[addr[g]] > 0

Handoff(g) ==
    /\ pc[g] = "wake" /\ opt[g] /\ Pays(g)
    /\ val' = [val EXCEPT ![addr[g]] = IF @ > 0 THEN @ - 1 ELSE @]
    /\ ticket' = [ticket EXCEPT ![woken[g]] = TRUE]
    /\ Goto(g, "ready")
    /\ UNCHANGED <<nwait, queue, lock, addr, opt, woken>>

\* Without handoff, or with nothing left to hand over.
NoHandoff(g) ==
    /\ pc[g] = "wake" /\ ~(opt[g] /\ Pays(g))
    /\ Goto(g, "ready")
    /\ UNCHANGED <<val, nwait, queue, lock, addr, opt, ticket, woken>>

readyWithTime(g) ==
    /\ pc[g] = "ready"
    /\ pc' = [pc EXCEPT ![g] = "idle", ![woken[g]] = "woken"]
    /\ addr' = [addr EXCEPT ![g] = None] /\ opt' = [opt EXCEPT ![g] = FALSE]
    /\ woken' = [woken EXCEPT ![g] = None]
    /\ UNCHANGED <<val, nwait, queue, lock, ticket>>

-----------------------------------------------------------------------------
Runs(g) ==
    \/ TryUnlocked(g) \/ HasTicket(g) \/ LockAcquire(g) \/ TryLocked(g) \/ Enqueue(g)
    \/ NoWaiters(g) \/ LockRelease(g) \/ Handoff(g) \/ NoHandoff(g) \/ readyWithTime(g)

Next ==
    \E g \in Goroutines :
        \/ Runs(g)
        \/ \E a \in Addrs, o \in BOOLEAN : semacquire(g, a, o) \/ semrelease(g, a, o)

Spec == Init /\ [][Next]_vars

\* Goroutines run, and get root.lock in turn.
FairSpec == Spec /\ \A g \in Goroutines : WF_vars(Runs(g)) /\ SF_vars(LockAcquire(g) \/ LockRelease(g))

-----------------------------------------------------------------------------
(***************************************************************************)
(* Properties.                                                             *)
(***************************************************************************)
Acquiring(g) == pc[g] \in {"easy", "acquire", "try", "parked", "woken"}
Tickets(a) == {g \in Goroutines : addr[g] = a /\ ticket[g]}

Abstract == INSTANCE Semaphore WITH
    count <- [a \in Addrs |-> val[a] + Cardinality(Tickets(a))],
    does <- [g \in Goroutines |-> IF Acquiring(g) THEN addr[g]
                                  ELSE IF pc[g] = "idle" THEN None ELSE "giving"],
    Giving <- "giving"

\* semacquire1 returns only with a unit that some semrelease1 gave and nobody
\* else took, whether it finds it or is handed a ticket.
IsSemaphore == Abstract!SemSpec

Parked(a) == {g \in Goroutines : pc[g] = "parked" /\ addr[g] = a}

\* Those who will look after a unit of a: releasers that have not yet made a
\* waiter ready, and waiters that have been made ready.
InFlight(a) == {g \in Goroutines : /\ addr[g] = a
                                   /\ pc[g] \in {"added", "release", "wake", "ready", "woken"}}

\* No missed wake-up: while goroutines are queued on an address, every unit there
\* has somebody in flight who will wake one of them or take it; who sleeps is
\* queued or about to be made ready, and has no ticket left from an earlier
\* round ("corrupted semaphore ticket").
NoMissedWakeup ==
    /\ \A a \in Addrs : queue[a] # <<>> => val[a] <= Cardinality(InFlight(a))
    /\ \A a \in Addrs : \A g \in Parked(a) :
        \/ \E i \in DOMAIN queue[a] : queue[a][i] = g
        \/ \E h \in Goroutines : woken[h] = g
    /\ \A g \in Goroutines : pc[g] = "wake" => ~ticket[woken[g]]

\* A unit does not lie there for ever while goroutines sleep on its address,
\* also when the address shares its root, and nwait, with another one.
UnitsAreTaken == \A a \in Addrs : Parked(a) # {} /\ val[a] > 0 ~> Parked(a) = {} \/ val[a] = 0

=============================================================================
