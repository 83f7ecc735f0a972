------------------------------ MODULE FdMutex -------------------------------
(***************************************************************************)
(* poll.FD's lock, fdMutex, with the life of the descriptor it guards:     *)
(* Close, destroy and SetBlocking of fd_unix.go.                           *)
(*                                                                         *)
(* mu is the word mu.state, by its fields. Every operation on it is a loop *)
(* of a load and a compare-and-swap; an iteration whose swap fails changes *)
(* nothing, so an operation is one atomic step, the iteration that         *)
(* succeeds or returns. runtime_Semacquire and runtime_Semrelease are the  *)
(* semaphores of module Sema.                                              *)
(***************************************************************************)
EXTENDS Naturals

CONSTANTS Goroutines,
          REF_MAX,      \* largest value of the reference field (2^20 - 1)
          WAIT_MAX      \* largest value of a waiter field (2^20 - 1)

ASSUME CountAssumption == REF_MAX \in Nat \ {0} /\ WAIT_MAX \in Nat \ {0}

Modes == {"r", "w"}

VARIABLES mu,           \* mu.state
          sema,         \* rsema, wsema
          csema,        \* signaled by destroy
          isBlocking,   \* the field, and the mode of the system's descriptor
          evicted,      \* pd.evict has run
          destroyed,    \* how often destroy has closed the descriptor
          pc, op,       \* where each goroutine is, and in which operation
          owed,         \* Semrelease calls a goroutine has still to make
          last          \* what its rwunlock or decref returned

vars == <<mu, sema, csema, isBlocking, evicted, destroyed, pc, op, owed, last>>

Nobody == [m \in Modes |-> 0]
Free == [m \in Modes |-> FALSE]

Init ==
    /\ mu = [closed |-> FALSE, lock |-> Free, ref |-> 0, wait |-> Nobody]
    /\ sema = Nobody /\ csema = 0
    /\ isBlocking = FALSE /\ evicted = FALSE /\ destroyed = 0
    /\ pc = [g \in Goroutines |-> "idle"] /\ op = [g \in Goroutines |-> "none"]
    /\ owed = [g \in Goroutines |-> Nobody] /\ last = [g \in Goroutines |-> FALSE]

Goto(g, to) == pc' = [pc EXCEPT ![g] = to]
Does(g, o, to) == op' = [op EXCEPT ![g] = o] /\ Goto(g, to)
Returns(g) == Does(g, "none", "idle")

\* A field of the word is full: the addition would carry into its neighbour.
Full(n, max) == n = max

\* n + 1 in a field that holds 0 .. max.
Bump(n, max) == (n + 1) % (max + 1)

WithRef == [mu EXCEPT !.ref = Bump(@, REF_MAX)]

\* Mutant: whoever leaves after Close is taken for the last.
Last_Any(new) == new.closed

\* What decref and rwunlock report: closed, and no references left.
Last(new) == new.closed /\ new.ref = 0

-----------------------------------------------------------------------------
(***************************************************************************)
(* rwlock, rwunlock: read and write operations.                            *)
(***************************************************************************)
\* At the head of the loop in rwlock: on the first try or after a wake-up.
Trying(g, m) == pc[g] = "idle" \/ (pc[g] = "woken" /\ op[g] = m)

rwlock(g, m) ==
    /\ Trying(g, m) /\ ~mu.closed /\ ~mu.lock[m] /\ ~Full(mu.ref, REF_MAX)
    /\ mu' = [WithRef EXCEPT !.lock[m] = TRUE]
    /\ Does(g, m, "using")
    /\ UNCHANGED <<sema, csema, isBlocking, evicted, destroyed, owed, last>>

\* The lock is taken: count as a waiter, then Semacquire.
rwlockWait(g, m) ==
    /\ Trying(g, m) /\ ~mu.closed /\ mu.lock[m] /\ ~Full(mu.wait[m], WAIT_MAX)
    /\ mu' = [mu EXCEPT !.wait[m] = Bump(@, WAIT_MAX)]
    /\ Does(g, m, "asleep")
    /\ UNCHANGED <<sema, csema, isBlocking, evicted, destroyed, owed, last>>

Semacquire(g, m) ==
    /\ pc[g] = "asleep" /\ op[g] = m /\ sema[m] > 0
    /\ sema' = [sema EXCEPT ![m] = @ - 1]
    /\ Goto(g, "woken")
    /\ UNCHANGED <<mu, csema, isBlocking, evicted, destroyed, op, owed, last>>

\* A waiter woken by Close finds the closed bit.
rwlockClosed(g) ==
    /\ pc[g] = "woken" /\ mu.closed
    /\ Returns(g)
    /\ UNCHANGED <<mu, sema, csema, isBlocking, evicted, destroyed, owed, last>>

\* One waiter less: the one that will be woken.
Unwait(m) == [mu.wait EXCEPT ![m] = IF @ > 0 THEN @ - 1 ELSE @]

rwunlock(g, m) ==
    /\ pc[g] = "using" /\ op[g] = m
    /\ mu' = [mu EXCEPT !.lock[m] = FALSE, !.ref = @ - 1, !.wait = Unwait(m)]
    /\ owed' = [owed EXCEPT ![g][m] = IF mu.wait[m] > 0 THEN 1 ELSE 0]
    /\ last' = [last EXCEPT ![g] = Last(mu')]
    /\ Goto(g, "left")
    /\ UNCHANGED <<sema, csema, isBlocking, evicted, destroyed, op>>

Semrelease(g, m) ==
    /\ owed[g][m] > 0
    /\ owed' = [owed EXCEPT ![g][m] = @ - 1]
    /\ sema' = [sema EXCEPT ![m] = @ + 1]
    /\ UNCHANGED <<mu, csema, isBlocking, evicted, destroyed, pc, op, last>>

-----------------------------------------------------------------------------
(***************************************************************************)
(* incref, decref: operations like setsockopt, and SetBlocking.            *)
(***************************************************************************)
incref(g) ==
    /\ pc[g] = "idle" /\ ~mu.closed /\ ~Full(mu.ref, REF_MAX)
    /\ mu' = WithRef
    /\ Does(g, "misc", "using")
    /\ UNCHANGED <<sema, csema, isBlocking, evicted, destroyed, owed, last>>

SetBlocking(g) ==
    /\ pc[g] = "using" /\ op[g] = "misc" /\ ~isBlocking
    /\ isBlocking' = TRUE
    /\ UNCHANGED <<mu, sema, csema, evicted, destroyed, pc, op, owed, last>>

decref(g) ==
    /\ pc[g] = "evicted" \/ (pc[g] = "using" /\ op[g] = "misc")
    /\ mu' = [mu EXCEPT !.ref = @ - 1]
    /\ last' = [last EXCEPT ![g] = Last(mu')]
    /\ Goto(g, "left")
    /\ UNCHANGED <<sema, csema, isBlocking, evicted, destroyed, op, owed>>

-----------------------------------------------------------------------------
(***************************************************************************)
(* Close.                                                                  *)
(***************************************************************************)
\* Mutant: the waiters are not woken.
ToWake_None == Nobody

\* The waiters whom Close will wake.
ToWake == mu.wait

increfAndClose(g) ==
    /\ pc[g] = "idle" /\ ~mu.closed /\ ~Full(mu.ref, REF_MAX)
    /\ mu' = [WithRef EXCEPT !.closed = TRUE, !.wait = Nobody]
    /\ owed' = [owed EXCEPT ![g] = ToWake]
    /\ Does(g, "close", "waking")
    /\ UNCHANGED <<sema, csema, isBlocking, evicted, destroyed, last>>

Evict(g) ==
    /\ pc[g] = "waking" /\ owed[g] = Nobody
    /\ evicted' = TRUE
    /\ Goto(g, "evicted")
    /\ UNCHANGED <<mu, sema, csema, isBlocking, destroyed, op, owed, last>>

\* The end of rwunlock or decref: whoever dropped the last reference destroys.
\* Close goes on to wait, if the file is not in blocking mode.
AfterLast(g) == IF op[g] = "close" /\ ~isBlocking THEN "closing" ELSE "idle"

NotLast(g) ==
    /\ pc[g] = "left" /\ owed[g] = Nobody /\ ~last[g]
    /\ IF AfterLast(g) = "closing" THEN Does(g, "close", "closing") ELSE Returns(g)
    /\ UNCHANGED <<mu, sema, csema, isBlocking, evicted, destroyed, owed, last>>

\* Mutant: the waiting Close is not told.
Signal_Not(n) == n

\* runtime_Semrelease(&fd.csema).
Signal(n) == n + 1

destroy(g) ==
    /\ pc[g] = "left" /\ owed[g] = Nobody /\ last[g]
    /\ destroyed' = destroyed + 1
    /\ csema' = Signal(csema)
    /\ IF AfterLast(g) = "closing" THEN Does(g, "close", "closing") ELSE Returns(g)
    /\ last' = [last EXCEPT ![g] = FALSE]
    /\ UNCHANGED <<mu, sema, isBlocking, evicted, owed>>

CloseReturns(g) ==
    /\ pc[g] = "closing" /\ csema > 0
    /\ csema' = csema - 1
    /\ Returns(g)
    /\ UNCHANGED <<mu, sema, isBlocking, evicted, destroyed, owed, last>>

-----------------------------------------------------------------------------
\* A field is full: panic(overflowMsg), with the word as it was.
Overflow(g) ==
    /\ ~mu.closed
    /\ \/ pc[g] = "idle" /\ Full(mu.ref, REF_MAX)
       \/ \E m \in Modes : /\ Trying(g, m)
                           /\ IF mu.lock[m] THEN Full(mu.wait[m], WAIT_MAX) ELSE Full(mu.ref, REF_MAX)
    /\ Goto(g, "panicked")
    /\ UNCHANGED <<mu, sema, csema, isBlocking, evicted, destroyed, op, owed, last>>

\* Steps that only need the processor.
Runs(g) ==
    \/ \E m \in Modes : \/ pc[g] = "woken" /\ (rwlock(g, m) \/ rwlockWait(g, m))
                        \/ Semacquire(g, m) \/ Semrelease(g, m)
    \/ rwlockClosed(g) \/ NotLast(g) \/ destroy(g) \/ Evict(g) \/ CloseReturns(g)
    \/ decref(g)

\* After evict no read or write waits for the poller, and in non-blocking mode
\* the system call does not wait either.
Drains(g) == evicted /\ ~isBlocking /\ \E m \in Modes : rwunlock(g, m)

Next ==
    \E g \in Goroutines :
        \/ \E m \in Modes : \/ rwlock(g, m) \/ rwlockWait(g, m) \/ rwunlock(g, m)
                            \/ Semacquire(g, m) \/ Semrelease(g, m)
        \/ rwlockClosed(g) \/ incref(g) \/ SetBlocking(g) \/ decref(g)
        \/ increfAndClose(g) \/ Evict(g) \/ NotLast(g) \/ destroy(g) \/ CloseReturns(g)
        \/ Overflow(g)

Spec == Init /\ [][Next]_vars

\* Goroutines run, and what Close interrupts comes to its end.
FairSpec == Spec /\ \A g \in Goroutines : WF_vars(Runs(g)) /\ WF_vars(Drains(g))

-----------------------------------------------------------------------------
(***************************************************************************)
(* Properties.                                                             *)
(***************************************************************************)
\* What a goroutine holds the descriptor for, between taking and dropping its
\* reference.
Holds(g) == IF pc[g] \in {"using", "waking", "evicted"} THEN op[g] ELSE "none"

Life == INSTANCE FdLife WITH
    phase <- CASE destroyed > 1 -> "twice" [] destroyed = 1 -> "closed"
               [] mu.closed /\ destroyed = 0 -> "closing" [] OTHER -> "open",
    use <- [g \in Goroutines |-> Holds(g)]

\* The word keeps the promise of FdLife: one reader, one writer, nobody enters
\* after Close, and the descriptor is closed only once and with no user left.
IsFdLife == Life!LifeSpec

Sleepers(m) == {g \in Goroutines : pc[g] = "asleep" /\ op[g] = m}

\* Somebody will make use of the lock of mode m being free, or of the close:
\* a semaphore is or will be signaled, or a woken goroutine is about to look.
\* One that panics then, for too many references, takes the wake-up with it.
Awaited(m) == \/ sema[m] > 0 \/ \E g \in Goroutines : owed[g][m] > 0
              \/ \E g \in Goroutines : pc[g] \in {"woken", "panicked"} /\ op[g] = m

\* No waiter is left asleep: while some are, the lock is held by someone who
\* will see them, or a wake-up is on its way, also when Close comes in between.
NoStranded ==
    \A m \in Modes : Sleepers(m) # {} =>
        Awaited(m) \/ (~mu.closed /\ mu.lock[m] /\ mu.wait[m] > 0)

\* A Close that finds the file in non-blocking mode returns once the descriptor
\* is closed, and so does everyone whom it found waiting for a lock. Only
\* blocking mode, set meanwhile, can keep a read or a write, and Close with it.
EveryoneReturns ==
    \A g \in Goroutines :
        /\ op[g] = "close" ~> isBlocking \/ (op[g] = "none" /\ destroyed = 1)
        /\ mu.closed /\ pc[g] = "asleep" ~> pc[g] = "idle"

=============================================================================
