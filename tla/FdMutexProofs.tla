--------------------------- MODULE FdMutexProofs ----------------------------
(***************************************************************************)
(* FdMutex for any number of goroutines and any width of its fields: the   *)
(* word implements FdLife, and no waiter is left asleep.                   *)
(***************************************************************************)
EXTENDS FdMutex, FiniteSetTheorems, TLAPS

\* A field that is not full counts one more, without carrying.
LEMMA BumpCounts ==
    ASSUME NEW max \in Nat, NEW n \in 0 .. max, ~Full(n, max)
    PROVE  Bump(n, max) = n + 1 /\ n + 1 \in 0 .. max
<1>1. n + 1 \in 0 .. max
  BY DEF Full
<1>2. (n + 1) % (max + 1) = n + 1
  BY <1>1
<1>3. QED
  BY <1>1, <1>2 DEF Bump

-----------------------------------------------------------------------------
(***************************************************************************)
(* The inductive invariant of the refinement.                              *)
(***************************************************************************)
Pcs == {"idle", "asleep", "woken", "using", "left", "waking", "evicted", "closing", "panicked"}
Ops == {"none", "r", "w", "misc", "close"}
Words == [closed : BOOLEAN, lock : [Modes -> BOOLEAN],
          ref : 0 .. REF_MAX, wait : [Modes -> 0 .. WAIT_MAX]]

TypeInv ==
    /\ mu \in Words
    /\ sema \in [Modes -> Nat] /\ csema \in Nat /\ destroyed \in Nat
    /\ isBlocking \in BOOLEAN /\ evicted \in BOOLEAN
    /\ pc \in [Goroutines -> Pcs] /\ op \in [Goroutines -> Ops]
    /\ owed \in [Goroutines -> [Modes -> Nat]] /\ last \in [Goroutines -> BOOLEAN]

\* Where a goroutine is fits the operation it is in.
OpFits ==
    \A g \in Goroutines :
        /\ pc[g] = "idle" => op[g] = "none"
        /\ pc[g] \in {"asleep", "woken"} => op[g] \in Modes
        /\ pc[g] = "using" => op[g] \in {"r", "w", "misc"}
        /\ pc[g] \in {"waking", "evicted"} => op[g] = "close"

\* Those who have a reference.
Users == {g \in Goroutines : pc[g] \in {"using", "waking", "evicted"}}

\* The reference field counts them.
RefCounts == IsFiniteSet(Users) /\ Cardinality(Users) = mu.ref

\* Whoever reads or writes has the lock, alone.
LockHeld ==
    \A g \in Goroutines : pc[g] = "using" /\ op[g] \in Modes =>
        /\ mu.lock[op[g]]
        /\ \A h \in Goroutines : pc[h] = "using" /\ op[h] = op[g] => h = g

\* One goroutine at most is told that it was the last, when no reference is
\* left and none can be taken, and it destroys the descriptor once.
LastOnce ==
    /\ \A g \in Goroutines : last[g] =>
        /\ pc[g] = "left" /\ mu.closed /\ mu.ref = 0 /\ destroyed = 0
        /\ \A h \in Goroutines : last[h] => h = g
    /\ destroyed = 0 \/ (destroyed = 1 /\ mu.closed /\ mu.ref = 0)

Inv == TypeInv /\ OpFits /\ RefCounts /\ LockHeld /\ LastOnce

LEMMA InitInv == Init => Inv
<1> SUFFICES ASSUME Init PROVE Inv
  OBVIOUS
<1> USE CountAssumption DEF Init, Modes, Nobody, Free
<1>1. TypeInv
  <2>1. Nobody \in [Modes -> 0 .. WAIT_MAX] /\ Nobody \in [Modes -> Nat] /\ Free \in [Modes -> BOOLEAN]
    OBVIOUS
  <2> HIDE DEF Nobody, Free
  <2>2. mu \in Words
    BY <2>1 DEF Words
  <2>3. QED
    BY <2>1, <2>2 DEF TypeInv, Pcs, Ops
<1>2. Users = {}
  BY DEF Users
<1>3. RefCounts
  BY <1>2, FS_EmptySet DEF RefCounts
<1>4. OpFits /\ LockHeld /\ LastOnce
  BY DEF OpFits, LockHeld, LastOnce
<1>5. QED
  BY <1>1, <1>3, <1>4 DEF Inv

-----------------------------------------------------------------------------
(***************************************************************************)
(* Taking a reference.                                                     *)
(***************************************************************************)
\* One user more.
LEMMA UserEnters ==
    ASSUME Inv, NEW g \in Goroutines, pc[g] \in {"idle", "woken"},
           ~Full(mu.ref, REF_MAX),
           NEW to \in {"using", "waking"}, pc' = [pc EXCEPT ![g] = to],
           mu'.ref = WithRef.ref
    PROVE  RefCounts' /\ mu'.ref = mu.ref + 1 /\ mu'.ref \in 0 .. REF_MAX
<1>1. mu.ref \in 0 .. REF_MAX /\ REF_MAX \in Nat
  BY CountAssumption DEF Inv, TypeInv, Words
<1>2. mu'.ref = mu.ref + 1 /\ mu'.ref \in 0 .. REF_MAX
  <2>1. WithRef.ref = Bump(mu.ref, REF_MAX)
    BY DEF WithRef, Inv, TypeInv, Words
  <2>2. QED
    BY <1>1, <2>1, BumpCounts
<1>3. Users' = Users \cup {g} /\ g \notin Users
  BY DEF Users, Inv, TypeInv
<1>4. QED
  BY <1>2, <1>3, FS_AddElement DEF RefCounts, Inv

LEMMA rwlockKeeps ==
    ASSUME Inv, NEW g \in Goroutines, NEW m \in Modes, rwlock(g, m) PROVE Inv'
<1> USE DEF rwlock, Trying, Does, Goto
<1>1. pc[g] \in {"idle", "woken"} /\ pc' = [pc EXCEPT ![g] = "using"] /\ op' = [op EXCEPT ![g] = m]
  OBVIOUS
<1>2. RefCounts' /\ mu'.ref = mu.ref + 1 /\ mu'.ref \in 0 .. REF_MAX
  <2>1. mu'.ref = WithRef.ref
    BY DEF WithRef, Inv, TypeInv, Words
  <2>2. QED
    BY <1>1, <2>1, UserEnters
<1>3. /\ mu'.closed = mu.closed /\ mu'.wait = mu.wait
      /\ mu'.lock = [mu.lock EXCEPT ![m] = TRUE] /\ mu' \in Words
  <2>1. mu' = [mu EXCEPT !.ref = mu'.ref, !.lock = [mu.lock EXCEPT ![m] = TRUE]]
    BY DEF WithRef, Inv, TypeInv, Words
  <2>2. [mu.lock EXCEPT ![m] = TRUE] \in [Modes -> BOOLEAN]
    BY DEF Inv, TypeInv, Words
  <2>3. QED
    BY <1>2, <2>1, <2>2 DEF Inv, TypeInv, Words
<1>4. TypeInv'
  BY <1>1, <1>3 DEF Inv, TypeInv, Pcs, Ops, Modes
<1>5. OpFits'
  BY <1>1 DEF Inv, TypeInv, OpFits, Modes
<1>6. LockHeld'
  BY <1>1, <1>3 DEF Inv, TypeInv, LockHeld, Words
<1>7. LastOnce'
  BY <1>1, <1>3 DEF Inv, TypeInv, LastOnce, Words
<1>8. QED
  BY <1>2, <1>4, <1>5, <1>6, <1>7 DEF Inv

LEMMA increfKeeps ==
    ASSUME Inv, NEW g \in Goroutines, incref(g) PROVE Inv'
<1> USE DEF incref, Does, Goto
<1>1. pc[g] = "idle" /\ pc' = [pc EXCEPT ![g] = "using"] /\ op' = [op EXCEPT ![g] = "misc"]
  OBVIOUS
<1>2. RefCounts' /\ mu'.ref = mu.ref + 1 /\ mu'.ref \in 0 .. REF_MAX
  BY <1>1, UserEnters
<1>3. mu' = [mu EXCEPT !.ref = mu.ref + 1]
  BY <1>2 DEF WithRef, Inv, TypeInv, Words
<1>4. TypeInv'
  BY <1>1, <1>2, <1>3 DEF Inv, TypeInv, Words, Pcs, Ops
<1>5. OpFits'
  BY <1>1 DEF Inv, TypeInv, OpFits, Modes
<1>6. LockHeld'
  BY <1>1, <1>3 DEF Inv, TypeInv, LockHeld, Words, Modes
<1>7. LastOnce'
  BY <1>1, <1>3 DEF Inv, TypeInv, LastOnce, Words
<1>8. QED
  BY <1>2, <1>4, <1>5, <1>6, <1>7 DEF Inv

LEMMA increfAndCloseKeeps ==
    ASSUME Inv, NEW g \in Goroutines, increfAndClose(g) PROVE Inv'
<1> USE DEF increfAndClose, Does, Goto
<1>1. pc[g] = "idle" /\ pc' = [pc EXCEPT ![g] = "waking"] /\ op' = [op EXCEPT ![g] = "close"]
  OBVIOUS
<1>2. RefCounts' /\ mu'.ref = mu.ref + 1 /\ mu'.ref \in 0 .. REF_MAX
  <2>1. mu'.ref = WithRef.ref
    BY DEF WithRef, Inv, TypeInv, Words
  <2>2. QED
    BY <1>1, <2>1, UserEnters
<1>3. mu'.closed /\ mu'.wait = Nobody /\ mu'.lock = mu.lock /\ mu' \in Words
  <2>1. mu' = [mu EXCEPT !.ref = mu'.ref, !.closed = TRUE, !.wait = Nobody]
    BY DEF WithRef, Inv, TypeInv, Words
  <2>2. Nobody \in [Modes -> 0 .. WAIT_MAX]
    BY CountAssumption DEF Nobody
  <2>3. QED
    BY <1>2, <2>1, <2>2 DEF Inv, TypeInv, Words
<1>4. TypeInv'
  <2>1. mu.wait \in [Modes -> Nat]
    BY CountAssumption DEF Inv, TypeInv, Words
  <2>2. owed' \in [Goroutines -> [Modes -> Nat]]
    BY <2>1 DEF Inv, TypeInv, ToWake
  <2>3. QED
    BY <1>1, <1>3, <2>2 DEF Inv, TypeInv, Pcs, Ops
<1>5. OpFits'
  BY <1>1 DEF Inv, TypeInv, OpFits, Modes
<1>6. LockHeld'
  BY <1>1, <1>3 DEF Inv, TypeInv, LockHeld, Words, Modes
<1>7. LastOnce'
  BY <1>1, <1>3 DEF Inv, TypeInv, LastOnce, Words
<1>8. QED
  BY <1>2, <1>4, <1>5, <1>6, <1>7 DEF Inv

-----------------------------------------------------------------------------
(***************************************************************************)
(* Dropping a reference.                                                   *)
(***************************************************************************)
\* One user less; there was one.
LEMMA UserLeaves ==
    ASSUME Inv, NEW g \in Users, pc' = [pc EXCEPT ![g] = "left"], mu'.ref = mu.ref - 1
    PROVE  RefCounts' /\ mu.ref > 0 /\ mu'.ref \in 0 .. REF_MAX
<1>1. Users' = Users \ {g}
  BY DEF Users, Inv, TypeInv
<1>2. RefCounts' /\ Cardinality(Users) \in Nat /\ Cardinality(Users) # 0
  BY <1>1, FS_RemoveElement, FS_EmptySet, FS_CardinalityType DEF RefCounts, Inv
<1>3. QED
  BY <1>2, CountAssumption DEF Inv, RefCounts, TypeInv, Words

LEMMA rwunlockKeeps ==
    ASSUME Inv, NEW g \in Goroutines, NEW m \in Modes, rwunlock(g, m) PROVE Inv'
<1> USE DEF rwunlock, Goto, Last
<1>1. pc[g] = "using" /\ op[g] = m /\ pc' = [pc EXCEPT ![g] = "left"] /\ op' = op
  OBVIOUS
<1>2. mu' = [mu EXCEPT !.lock[m] = FALSE, !.ref = mu.ref - 1, !.wait = Unwait(m)]
  OBVIOUS
<1>3. RefCounts' /\ mu.ref > 0 /\ mu'.ref \in 0 .. REF_MAX
  <2>1. mu'.ref = mu.ref - 1 /\ g \in Users
    BY <1>1, <1>2 DEF Inv, TypeInv, Words, Users
  <2>2. QED
    BY <1>1, <2>1, UserLeaves
<1>4. Unwait(m) \in [Modes -> 0 .. WAIT_MAX]
  BY CountAssumption DEF Unwait, Inv, TypeInv, Words
<1>5. mu'.closed = mu.closed /\ mu'.ref = mu.ref - 1
  BY <1>2 DEF Inv, TypeInv, Words
<1>6. TypeInv'
  <2>1. mu' \in Words
    <3>1. [mu.lock EXCEPT ![m] = FALSE] \in [Modes -> BOOLEAN]
      BY DEF Inv, TypeInv, Words
    <3>2. mu' = [mu EXCEPT !.lock = [mu.lock EXCEPT ![m] = FALSE], !.ref = mu'.ref, !.wait = Unwait(m)]
      BY <1>2 DEF Inv, TypeInv, Words
    <3>3. QED
      BY <1>3, <1>4, <3>1, <3>2 DEF Inv, TypeInv, Words
  <2>2. owed' \in [Goroutines -> [Modes -> Nat]]
    BY DEF Inv, TypeInv
  <2>3. QED
    BY <1>1, <2>1, <2>2 DEF Inv, TypeInv, Pcs, Ops, Words
<1>7. OpFits'
  BY <1>1 DEF Inv, TypeInv, OpFits
<1>8. LockHeld'
  BY <1>1, <1>2 DEF Inv, TypeInv, LockHeld, Words
<1>9. LastOnce'
  BY <1>1, <1>3, <1>5, CountAssumption DEF Inv, TypeInv, LastOnce, Words
<1>10. QED
  BY <1>3, <1>6, <1>7, <1>8, <1>9 DEF Inv

LEMMA decrefKeeps ==
    ASSUME Inv, NEW g \in Goroutines, decref(g) PROVE Inv'
<1> USE DEF decref, Goto, Last
<1>1. /\ pc[g] = "evicted" \/ (pc[g] = "using" /\ op[g] = "misc")
      /\ pc' = [pc EXCEPT ![g] = "left"] /\ op' = op
  OBVIOUS
<1>2. mu' = [mu EXCEPT !.ref = mu.ref - 1]
  OBVIOUS
<1>3. RefCounts' /\ mu.ref > 0 /\ mu'.ref \in 0 .. REF_MAX
  <2>1. mu'.ref = mu.ref - 1 /\ g \in Users
    BY <1>1, <1>2 DEF Inv, TypeInv, Words, Users
  <2>2. QED
    BY <1>1, <2>1, UserLeaves
<1>5. mu'.closed = mu.closed /\ mu'.ref = mu.ref - 1
  BY <1>2 DEF Inv, TypeInv, Words
<1>6. TypeInv'
  BY <1>1, <1>2, <1>3 DEF Inv, TypeInv, Words, Pcs, Ops, Modes
<1>7. OpFits'
  BY <1>1 DEF Inv, TypeInv, OpFits
<1>8. LockHeld'
  BY <1>1, <1>2 DEF Inv, TypeInv, LockHeld, Words, Modes
<1>9. LastOnce'
  BY <1>1, <1>3, <1>5, CountAssumption DEF Inv, TypeInv, LastOnce, Words
<1>10. QED
  BY <1>3, <1>6, <1>7, <1>8, <1>9 DEF Inv

-----------------------------------------------------------------------------
(***************************************************************************)
(* Steps that neither take nor drop a reference.                           *)
(***************************************************************************)
LEMMA SameUsers ==
    ASSUME Inv, NEW g \in Goroutines, NEW to, pc' = [pc EXCEPT ![g] = to],
           pc[g] \in {"using", "waking", "evicted"} <=> to \in {"using", "waking", "evicted"},
           mu'.ref = mu.ref
    PROVE  RefCounts'
<1>1. Users' = Users
  BY DEF Users, Inv, TypeInv
<1>2. QED
  BY <1>1 DEF RefCounts, Inv

LEMMA rwlockWaitKeeps ==
    ASSUME Inv, NEW g \in Goroutines, NEW m \in Modes, rwlockWait(g, m)
    PROVE  /\ Inv' /\ mu'.wait = [mu.wait EXCEPT ![m] = mu.wait[m] + 1]
           /\ mu'.lock = mu.lock /\ mu'.closed = mu.closed
<1> USE DEF rwlockWait, Trying, Does, Goto
<1>1. pc[g] \in {"idle", "woken"} /\ pc' = [pc EXCEPT ![g] = "asleep"] /\ op' = [op EXCEPT ![g] = m]
  OBVIOUS
<1>2. Bump(mu.wait[m], WAIT_MAX) = mu.wait[m] + 1 /\ mu.wait[m] + 1 \in 0 .. WAIT_MAX
  BY BumpCounts, CountAssumption DEF Inv, TypeInv, Words
<1>3. /\ mu' = [mu EXCEPT !.wait = mu'.wait] /\ mu'.wait = [mu.wait EXCEPT ![m] = mu.wait[m] + 1]
      /\ mu'.ref = mu.ref /\ mu'.lock = mu.lock /\ mu'.closed = mu.closed
  BY <1>2 DEF Inv, TypeInv, Words
<1>4. mu' \in Words
  <2>1. mu'.wait \in [Modes -> 0 .. WAIT_MAX]
    BY <1>2, <1>3 DEF Inv, TypeInv, Words
  <2>2. QED
    BY <1>3, <2>1 DEF Inv, TypeInv, Words
<1>5. RefCounts'
  BY <1>1, <1>3, SameUsers
<1>6. TypeInv'
  BY <1>1, <1>4 DEF Inv, TypeInv, Pcs, Ops, Modes
<1>7. OpFits' /\ LockHeld' /\ LastOnce'
  BY <1>1, <1>3 DEF Inv, TypeInv, OpFits, LockHeld, LastOnce
<1>8. QED
  BY <1>3, <1>5, <1>6, <1>7 DEF Inv

LEMMA SemaphoreKeeps ==
    ASSUME Inv, NEW g \in Goroutines, NEW m \in Modes, Semacquire(g, m) \/ Semrelease(g, m)
    PROVE  Inv'
<1>1. CASE Semacquire(g, m)
  <2> USE <1>1 DEF Semacquire, Goto
  <2>1. sema' \in [Modes -> Nat]
    BY DEF Inv, TypeInv
  <2>2. RefCounts'
    BY SameUsers
  <2>3. TypeInv'
    BY <2>1 DEF Inv, TypeInv, Pcs
  <2>4. OpFits' /\ LockHeld' /\ LastOnce'
    BY DEF Inv, TypeInv, OpFits, LockHeld, LastOnce
  <2>5. QED
    BY <2>2, <2>3, <2>4 DEF Inv
<1>2. CASE Semrelease(g, m)
  <2> USE <1>2 DEF Semrelease
  <2>1. sema' \in [Modes -> Nat]
    BY DEF Inv, TypeInv
  <2>2. owed' \in [Goroutines -> [Modes -> Nat]]
    BY DEF Inv, TypeInv
  <2>3. QED
    BY <2>1, <2>2 DEF Inv, TypeInv, RefCounts, Users, OpFits, LockHeld, LastOnce
<1>3. QED
  BY <1>1, <1>2

LEMMA QuietKeeps ==
    ASSUME Inv, NEW g \in Goroutines,
           \/ rwlockClosed(g) \/ SetBlocking(g) \/ Evict(g) \/ NotLast(g) \/ CloseReturns(g) \/ Overflow(g)
    PROVE  Inv'
<1>1. CASE SetBlocking(g)
  BY <1>1 DEF SetBlocking, Inv, TypeInv, RefCounts, Users, OpFits, LockHeld, LastOnce
<1>2. CASE rwlockClosed(g)
  <2> USE <1>2 DEF rwlockClosed, Returns, Does, Goto
  <2>1. RefCounts'
    BY SameUsers
  <2>2. QED
    BY <2>1 DEF Inv, TypeInv, OpFits, LockHeld, LastOnce, Pcs, Ops, Modes
<1>3. CASE Evict(g)
  <2> USE <1>3 DEF Evict, Goto
  <2>1. RefCounts'
    BY SameUsers
  <2>2. QED
    BY <2>1 DEF Inv, TypeInv, OpFits, LockHeld, LastOnce, Pcs, Ops, Modes
<1>4. CASE NotLast(g)
  <2> USE <1>4 DEF NotLast, Returns, Does, Goto
  <2>1. PICK to \in {"closing", "idle"} : pc' = [pc EXCEPT ![g] = to]
    OBVIOUS
  <2>2. RefCounts'
    BY <2>1, SameUsers
  <2>3. TypeInv' /\ OpFits'
    BY <2>1 DEF Inv, TypeInv, OpFits, Pcs, Ops, Modes
  <2>4. LockHeld' /\ LastOnce'
    BY <2>1 DEF Inv, TypeInv, LockHeld, LastOnce
  <2>5. QED
    BY <2>2, <2>3, <2>4 DEF Inv
<1>5. CASE CloseReturns(g)
  <2> USE <1>5 DEF CloseReturns, Returns, Does, Goto
  <2>1. RefCounts'
    BY SameUsers
  <2>2. QED
    BY <2>1 DEF Inv, TypeInv, OpFits, LockHeld, LastOnce, Pcs, Ops, Modes
<1>6. CASE Overflow(g)
  <2> USE <1>6 DEF Overflow, Goto, Trying
  <2>1. pc[g] \in {"idle", "woken"}
    OBVIOUS
  <2>2. RefCounts'
    BY <2>1, SameUsers
  <2>3. TypeInv' /\ OpFits'
    BY <2>1 DEF Inv, TypeInv, OpFits, Pcs
  <2>4. LockHeld' /\ LastOnce'
    BY <2>1 DEF Inv, TypeInv, LockHeld, LastOnce
  <2>5. QED
    BY <2>2, <2>3, <2>4 DEF Inv
<1>7. QED
  BY <1>1, <1>2, <1>3, <1>4, <1>5, <1>6

\* The last to leave closes the descriptor, and nobody else was told to.
LEMMA destroyKeeps ==
    ASSUME Inv, NEW g \in Goroutines, destroy(g) PROVE Inv' /\ destroyed = 0 /\ destroyed' = 1
<1> USE DEF destroy, Returns, Does, Goto, Signal
<1>1. PICK to \in {"closing", "idle"} :
          pc' = [pc EXCEPT ![g] = to] /\ (to = "idle" => op' = [op EXCEPT ![g] = "none"])
  OBVIOUS
<1>2. destroyed = 0 /\ mu.closed /\ mu.ref = 0
  BY DEF Inv, LastOnce
<1>3. RefCounts'
  BY <1>1, SameUsers
<1>4. TypeInv'
  <2>1. op' \in [Goroutines -> Ops] /\ pc' \in [Goroutines -> Pcs]
    BY <1>1 DEF Inv, TypeInv, Pcs, Ops
  <2>2. last' \in [Goroutines -> BOOLEAN] /\ destroyed' \in Nat /\ csema' \in Nat
    BY DEF Inv, TypeInv
  <2>3. QED
    BY <2>1, <2>2 DEF Inv, TypeInv
<1>5. OpFits' /\ LockHeld'
  BY <1>1 DEF Inv, TypeInv, OpFits, LockHeld, Modes
<1>6. LastOnce'
  BY <1>1, <1>2 DEF Inv, TypeInv, LastOnce
<1>7. QED
  BY <1>2, <1>3, <1>4, <1>5, <1>6 DEF Inv

LEMMA InvStep == Inv /\ [Next]_vars => Inv'
<1> SUFFICES ASSUME Inv, [Next]_vars PROVE Inv'
  OBVIOUS
<1>1. CASE UNCHANGED vars
  BY <1>1 DEF vars, Inv, TypeInv, RefCounts, Users, OpFits, LockHeld, LastOnce
<1>2. CASE Next
  <2>1. PICK g \in Goroutines :
            \/ \E m \in Modes : \/ rwlock(g, m) \/ rwlockWait(g, m) \/ rwunlock(g, m)
                                \/ Semacquire(g, m) \/ Semrelease(g, m)
            \/ rwlockClosed(g) \/ incref(g) \/ SetBlocking(g) \/ decref(g)
            \/ increfAndClose(g) \/ Evict(g) \/ NotLast(g) \/ destroy(g) \/ CloseReturns(g)
            \/ Overflow(g)
    BY <1>2 DEF Next
  <2>2. QED
    BY <2>1, rwlockKeeps, rwlockWaitKeeps, rwunlockKeeps, SemaphoreKeeps, increfKeeps,
       decrefKeeps, increfAndCloseKeeps, QuietKeeps, destroyKeeps
<1>3. QED
  BY <1>1, <1>2

-----------------------------------------------------------------------------
(***************************************************************************)
(* The refinement: each operation that takes a reference enters, each one  *)
(* that drops one leaves, destroy closes, and the rest is not seen.        *)
(***************************************************************************)
Phase == CASE destroyed > 1 -> "twice" [] destroyed = 1 -> "closed"
           [] mu.closed /\ destroyed = 0 -> "closing" [] OTHER -> "open"
Use == [g \in Goroutines |-> Holds(g)]

LEMMA PhaseIs ==
    ASSUME Inv
    PROVE  Phase = IF destroyed = 1 THEN "closed" ELSE IF mu.closed THEN "closing" ELSE "open"
BY DEF Inv, TypeInv, LastOnce, Phase

LEMMA PhaseAfter ==
    ASSUME Inv'
    PROVE  Phase' = IF destroyed' = 1 THEN "closed" ELSE IF mu'.closed THEN "closing" ELSE "open"
BY DEF Inv, TypeInv, LastOnce, Phase

\* Before Close the phase is open.
LEMMA OpenPhase == ASSUME Inv, ~mu.closed PROVE Phase = "open" /\ destroyed = 0
BY PhaseIs DEF Inv, LastOnce

\* Who uses what, when one goroutine moves.
LEMMA UseAfter ==
    ASSUME Inv, Inv', NEW g \in Goroutines,
           \A h \in Goroutines \ {g} : pc'[h] = pc[h] /\ op'[h] = op[h]
    PROVE  Use' = [Use EXCEPT ![g] = Holds(g)']
BY DEF Use, Holds

LEMMA EnterStep ==
    ASSUME Inv, Inv', NEW g \in Goroutines, NEW o \in {"r", "w", "misc", "close"},
           ~mu.closed, pc[g] \in {"idle", "woken"}, destroyed' = destroyed,
           \A h \in Goroutines \ {g} : pc'[h] = pc[h] /\ op'[h] = op[h],
           pc'[g] = IF o = "close" THEN "waking" ELSE "using", op'[g] = o,
           mu'.closed <=> o = "close",
           o \in Modes => ~mu.lock[o]
    PROVE  Life!Enter(g, o)
<1>1. Phase = "open" /\ Phase' = IF o = "close" THEN "closing" ELSE "open"
  BY OpenPhase, PhaseAfter
<1>2. Use[g] = "none" /\ Use' = [Use EXCEPT ![g] = o]
  BY UseAfter DEF Use, Holds
<1>3. o \in {"r", "w"} => \A h \in Goroutines : Use[h] # o
  BY DEF Use, Holds, Inv, OpFits, LockHeld, Modes
<1>4. QED
  BY <1>1, <1>2, <1>3 DEF Life!Enter, Life!Exclusive, Phase, Use

LEMMA LeaveStep ==
    ASSUME Inv, Inv', NEW g \in Users,
           mu'.closed = mu.closed, destroyed' = destroyed,
           pc' = [pc EXCEPT ![g] = "left"], op' = op
    PROVE  Life!Leave(g)
<1>1. Phase' = Phase
  BY PhaseIs, PhaseAfter
<1>2. \A h \in Goroutines \ {g} : pc'[h] = pc[h] /\ op'[h] = op[h]
  BY DEF Inv, TypeInv
<1>3. g \in Goroutines /\ pc'[g] = "left" /\ pc[g] \in {"using", "waking", "evicted"}
  BY DEF Inv, TypeInv, Users
<1>4. Use[g] # "none" /\ Use' = [Use EXCEPT ![g] = "none"]
  BY <1>2, <1>3, UseAfter DEF Use, Holds, Inv, OpFits
<1>5. QED
  BY <1>1, <1>4 DEF Life!Leave, Phase, Use

LEMMA QuietStep ==
    ASSUME Inv, Inv', mu'.closed = mu.closed, destroyed' = destroyed,
           \A g \in Goroutines : Holds(g)' = Holds(g)
    PROVE  UNCHANGED Life!lifeVars
<1>1. Phase' = Phase /\ Use' = Use
  BY PhaseIs, PhaseAfter DEF Use
<1>2. QED
  BY <1>1 DEF Life!lifeVars, Phase, Use

LEMMA DestroyStep ==
    ASSUME Inv, Inv', NEW g \in Goroutines, destroy(g) PROVE Life!Destroy
<1>1. mu.closed /\ mu.ref = 0 /\ destroyed = 0 /\ destroyed' = 1
  BY destroyKeeps DEF Inv, LastOnce, destroy
<1>2. Users = {}
  BY <1>1, FS_EmptySet DEF Inv, RefCounts
<1>3. \A h \in Goroutines : Use[h] = "none"
  BY <1>2 DEF Use, Holds, Users
<1>4. Use' = Use
  <2>1. \A h \in Goroutines : pc'[h] \in {"using", "waking", "evicted"} => pc[h] \in {"using", "waking", "evicted"}
    BY DEF destroy, Does, Returns, Goto, Inv, TypeInv
  <2>2. QED
    BY <1>2, <2>1 DEF Use, Holds, Users
<1>5. Phase = "closing" /\ Phase' = "closed"
  BY <1>1, PhaseIs, PhaseAfter
<1>6. QED
  BY <1>3, <1>4, <1>5 DEF Life!Destroy, Phase, Use

LEMMA RefinementStep ==
    ASSUME Inv, Inv', [Next]_vars PROVE [Life!LifeNext]_(Life!lifeVars)
<1>1. CASE UNCHANGED vars
  BY <1>1, QuietStep DEF vars, Holds
<1>2. CASE Next
  <2>1. PICK g \in Goroutines :
            \/ \E m \in Modes : \/ rwlock(g, m) \/ rwlockWait(g, m) \/ rwunlock(g, m)
                                \/ Semacquire(g, m) \/ Semrelease(g, m)
            \/ rwlockClosed(g) \/ incref(g) \/ SetBlocking(g) \/ decref(g)
            \/ increfAndClose(g) \/ Evict(g) \/ NotLast(g) \/ destroy(g) \/ CloseReturns(g)
            \/ Overflow(g)
    BY <1>2 DEF Next
  <2> USE DEF Inv, TypeInv
  <2>2. ASSUME NEW m \in Modes, rwlock(g, m) PROVE Life!Enter(g, m)
    <3>1. mu'.closed = mu.closed
      BY <2>2 DEF rwlock, WithRef, Words
    <3>2. QED
      BY <2>2, <3>1, EnterStep DEF rwlock, Trying, Does, Goto, Modes
  <2>3. ASSUME incref(g) PROVE Life!Enter(g, "misc")
    <3>1. mu'.closed = mu.closed
      BY <2>3 DEF incref, WithRef, Words
    <3>2. QED
      BY <2>3, <3>1, EnterStep DEF incref, Does, Goto, Modes
  <2>4. ASSUME increfAndClose(g) PROVE Life!Enter(g, "close")
    <3>1. mu'.closed
      BY <2>4 DEF increfAndClose, WithRef, Words
    <3>2. QED
      BY <2>4, <3>1, EnterStep DEF increfAndClose, Does, Goto, Modes
  <2>5. ASSUME NEW m \in Modes, rwunlock(g, m) PROVE Life!Leave(g)
    <3>1. mu'.closed = mu.closed
      BY <2>5 DEF rwunlock, Words
    <3>2. QED
      BY <2>5, <3>1, LeaveStep DEF rwunlock, Goto, Users
  <2>6. ASSUME decref(g) PROVE Life!Leave(g)
    <3>1. mu'.closed = mu.closed
      BY <2>6 DEF decref, Words
    <3>2. QED
      BY <2>6, <3>1, LeaveStep DEF decref, Goto, Users
  <2>7. ASSUME NEW m \in Modes, rwlockWait(g, m) PROVE UNCHANGED Life!lifeVars
    <3>1. mu'.closed = mu.closed
      BY <2>7 DEF rwlockWait, Words
    <3>2. QED
      BY <2>7, <3>1, QuietStep DEF rwlockWait, Trying, Does, Goto, Holds
  <2>8. ASSUME NEW m \in Modes, Semacquire(g, m) \/ Semrelease(g, m) PROVE UNCHANGED Life!lifeVars
    BY <2>8, QuietStep DEF Semacquire, Semrelease, Goto, Holds
  <2>9. ASSUME rwlockClosed(g) \/ SetBlocking(g) \/ Evict(g) PROVE UNCHANGED Life!lifeVars
    BY <2>9, QuietStep DEF rwlockClosed, SetBlocking, Evict, Returns, Does, Goto, Holds, OpFits
  <2>10. ASSUME NotLast(g) \/ CloseReturns(g) \/ Overflow(g) PROVE UNCHANGED Life!lifeVars
    BY <2>10, QuietStep DEF NotLast, CloseReturns, Overflow, Trying, Returns, Does, Goto, Holds
  <2>11. ASSUME destroy(g) PROVE Life!Destroy
    BY <2>11, DestroyStep
  <2>12. CASE \E m \in Modes : rwlock(g, m) \/ rwunlock(g, m)
    BY <2>2, <2>5, <2>12 DEF Life!LifeNext, Life!Uses, Modes
  <2>13. CASE incref(g) \/ increfAndClose(g) \/ decref(g) \/ destroy(g)
    BY <2>3, <2>4, <2>6, <2>11, <2>13 DEF Life!LifeNext, Life!Uses
  <2>14. QED
    BY <2>1, <2>7, <2>8, <2>9, <2>10, <2>12, <2>13
<1>3. QED
  BY <1>1, <1>2

LEMMA InitStep == Init => Life!LifeInit
<1> SUFFICES ASSUME Init PROVE Life!LifeInit
  OBVIOUS
<1>1. Phase = "open"
  BY InitInv, PhaseIs DEF Init
<1>2. Use = [g \in Goroutines |-> "none"]
  BY DEF Init, Use, Holds
<1>3. QED
  BY <1>1, <1>2 DEF Life!LifeInit, Phase, Use

\* The word of fdMutex implements FdLife for any number of goroutines and any width
\* of its fields: one reader and one writer at a time, nobody enters after
\* increfAndClose, and destroy runs once, when the last reference is gone.
THEOREM ImplementsFdLife == Spec => IsFdLife
<1>1. Inv /\ [Next]_vars => Inv'
  BY InvStep
<1>2. Inv /\ Inv' /\ [Next]_vars => [Life!LifeNext]_(Life!lifeVars)
  BY RefinementStep
<1>3. QED
  BY InitInv, InitStep, <1>1, <1>2, PTL DEF Spec, IsFdLife, Life!LifeSpec

-----------------------------------------------------------------------------
(***************************************************************************)
(* No waiter is stranded.  What carries the property is a balance: every   *)
(* sleeper is either still counted in the word, or a signal for it has     *)
(* arrived at the semaphore, or somebody owes it one.  With it comes that  *)
(* a lock found free while waiters are counted has someone coming for it.  *)
(***************************************************************************)
\* The signals owed for mode m: of those who owe, the first, the second...
Tokens(m) == {t \in Goroutines \X (Nat \ {0}) : t[2] <= owed[t[1]][m]}

Balanced(m) ==
    /\ IsFiniteSet(Sleepers(m)) /\ IsFiniteSet(Tokens(m))
    /\ Cardinality(Sleepers(m)) = mu.wait[m] + sema[m] + Cardinality(Tokens(m))

Noticed(m) == ~mu.closed /\ mu.wait[m] > 0 => mu.lock[m] \/ Awaited(m)

\* Signals are owed only between leaving the word and the end of the call.
OwedAt == \A g \in Goroutines : pc[g] \notin {"waking", "left"} => owed[g] = Nobody

NoneAfterClose == mu.closed => mu.wait = Nobody

SInv == OwedAt /\ NoneAfterClose /\ \A m \in Modes : Balanced(m) /\ Noticed(m)

LEMMA SInvImplies == ASSUME Inv, SInv PROVE NoStranded
<1> SUFFICES ASSUME NEW m \in Modes, Sleepers(m) # {}, ~Awaited(m)
             PROVE  ~mu.closed /\ mu.lock[m] /\ mu.wait[m] > 0
  BY DEF NoStranded
<1>1. Tokens(m) = {}
  BY DEF Awaited, Tokens, Inv, TypeInv
<1>2. sema[m] = 0 /\ mu.wait[m] \in Nat
  BY CountAssumption DEF Awaited, Inv, TypeInv, Words
<1>3. Cardinality(Sleepers(m)) \in Nat \ {0} /\ Cardinality(Tokens(m)) = 0
  BY <1>1, FS_EmptySet, FS_CardinalityType DEF SInv, Balanced
<1>4. mu.wait[m] > 0
  BY <1>2, <1>3 DEF SInv, Balanced
<1>5. QED
  BY <1>4 DEF SInv, NoneAfterClose, Nobody, Noticed

LEMMA InitSInv == Init => SInv
<1> SUFFICES ASSUME Init PROVE SInv
  OBVIOUS
<1>1. OwedAt /\ NoneAfterClose
  BY DEF Init, OwedAt, NoneAfterClose
<1>2. ASSUME NEW m \in Modes PROVE Balanced(m) /\ Noticed(m)
  <2>1. Sleepers(m) = {} /\ Tokens(m) = {}
    BY DEF Init, Sleepers, Tokens, Nobody
  <2>2. mu.wait[m] = 0 /\ sema[m] = 0
    BY DEF Init, Nobody
  <2>3. QED
    BY <2>1, <2>2, FS_EmptySet DEF Balanced, Noticed
<1>3. QED
  BY <1>1, <1>2 DEF SInv

-----------------------------------------------------------------------------
\* A mode that a step does not concern keeps its balance.
LEMMA SameBalance ==
    ASSUME NEW n \in Modes, Balanced(n), Sleepers(n)' = Sleepers(n),
           \A h \in Goroutines : owed'[h][n] = owed[h][n],
           mu'.wait[n] = mu.wait[n], sema'[n] = sema[n]
    PROVE  Balanced(n)'
<1>1. Tokens(n)' = Tokens(n)
  BY DEF Tokens
<1>2. QED
  BY <1>1 DEF Balanced

\* Nobody falls asleep or wakes up.
LEMMA SameSleepers ==
    ASSUME NEW n \in Modes, NEW g \in Goroutines,
           \A h \in Goroutines \ {g} : pc'[h] = pc[h] /\ op'[h] = op[h],
           pc[g] # "asleep", pc'[g] # "asleep"
    PROVE  Sleepers(n)' = Sleepers(n)
BY DEF Sleepers

\* A step of g that changes neither the word's waiters and locks nor a semaphore
\* nor what is owed, and neither puts g to sleep nor lets go of a wake-up.
LEMMA Unconcerned ==
    ASSUME Inv, Inv', SInv, NEW g \in Goroutines,
           \A h \in Goroutines \ {g} : pc'[h] = pc[h] /\ op'[h] = op[h],
           pc[g] # "asleep", pc'[g] # "asleep",
           mu'.wait = mu.wait, mu'.closed = mu.closed, sema' = sema, owed' = owed,
           \A m \in Modes : mu.lock[m] => mu'.lock[m],
           pc'[g] \notin {"waking", "left"} => owed[g] = Nobody,
           \A m \in Modes : pc[g] \in {"woken", "panicked"} /\ op[g] = m =>
              mu.closed \/ mu'.lock[m] \/ (pc'[g] \in {"woken", "panicked"} /\ op'[g] = m)
    PROVE  SInv'
<1>1. OwedAt' /\ NoneAfterClose'
  BY DEF SInv, OwedAt, NoneAfterClose
<1>2. ASSUME NEW n \in Modes PROVE Balanced(n)'
  BY SameSleepers, SameBalance DEF SInv
<1>3. ASSUME NEW n \in Modes PROVE Noticed(n)'
  BY DEF SInv, Noticed, Awaited
<1>4. QED
  BY <1>1, <1>2, <1>3 DEF SInv

LEMMA rwlockSInv ==
    ASSUME Inv, Inv', SInv, NEW g \in Goroutines, NEW m \in Modes, rwlock(g, m) PROVE SInv'
<1> USE DEF rwlock, Trying, Does, Goto
<1>1. /\ mu'.closed = mu.closed /\ mu'.wait = mu.wait
      /\ mu'.lock = [mu.lock EXCEPT ![m] = TRUE]
  BY DEF WithRef, Inv, TypeInv, Words
<1>2. pc'[g] = "using" /\ \A h \in Goroutines \ {g} : pc'[h] = pc[h] /\ op'[h] = op[h]
  BY DEF Inv, TypeInv
<1>3. owed[g] = Nobody
  BY DEF SInv, OwedAt
<1>4. \A n \in Modes : mu.lock[n] => mu'.lock[n]
  BY <1>1 DEF Inv, TypeInv, Words
<1>5. mu'.lock[m]
  BY <1>1 DEF Inv, TypeInv, Words
<1>6. pc[g] \in {"idle", "woken"} /\ (pc[g] = "woken" => op[g] = m)
  OBVIOUS
<1>7. QED
  BY <1>1, <1>2, <1>3, <1>4, <1>5, <1>6, Unconcerned

\* One sleeper more, and one waiter more in the word.
LEMMA rwlockWaitSInv ==
    ASSUME Inv, Inv', SInv, NEW g \in Goroutines, NEW m \in Modes, rwlockWait(g, m) PROVE SInv'
<1> USE DEF rwlockWait, Trying, Does, Goto
<1>1. /\ mu'.wait = [mu.wait EXCEPT ![m] = mu.wait[m] + 1]
      /\ mu'.lock = mu.lock /\ mu'.closed = mu.closed
  BY rwlockWaitKeeps
<1>2. /\ pc'[g] = "asleep" /\ op'[g] = m
      /\ \A h \in Goroutines \ {g} : pc'[h] = pc[h] /\ op'[h] = op[h]
  BY DEF Inv, TypeInv
<1>3. OwedAt' /\ NoneAfterClose'
  BY <1>1, <1>2 DEF SInv, OwedAt, NoneAfterClose
<1>4. Balanced(m)'
  <2>1. Sleepers(m)' = Sleepers(m) \cup {g} /\ g \notin Sleepers(m)
    BY <1>2 DEF Sleepers
  <2>2. IsFiniteSet(Sleepers(m)') /\ Cardinality(Sleepers(m)') = Cardinality(Sleepers(m)) + 1
    BY <2>1, FS_AddElement DEF SInv, Balanced
  <2>3. Tokens(m)' = Tokens(m) /\ mu'.wait[m] = mu.wait[m] + 1 /\ mu.wait[m] \in Nat /\ sema[m] \in Nat
    BY <1>1, CountAssumption DEF Tokens, Inv, TypeInv, Words
  <2>4. Cardinality(Tokens(m)) \in Nat
    BY FS_CardinalityType DEF SInv, Balanced
  <2>5. QED
    BY <2>2, <2>3, <2>4 DEF SInv, Balanced
<1>5. ASSUME NEW n \in Modes, n # m PROVE Balanced(n)'
  <2>1. Sleepers(n)' = Sleepers(n) /\ mu'.wait[n] = mu.wait[n]
    BY <1>1, <1>2, <1>5 DEF Sleepers, Inv, TypeInv, Words
  <2>2. QED
    BY <2>1, SameBalance DEF SInv
<1>6. ASSUME NEW n \in Modes PROVE Noticed(n)'
  BY <1>1, <1>2 DEF SInv, Noticed, Awaited, Inv, TypeInv, Words
<1>7. QED
  BY <1>3, <1>4, <1>5, <1>6 DEF SInv

\* A sleeper takes a signal, and is then about to look.
LEMMA SemacquireSInv ==
    ASSUME Inv, Inv', SInv, NEW g \in Goroutines, NEW m \in Modes, Semacquire(g, m) PROVE SInv'
<1> USE DEF Semacquire, Goto
<1>1. /\ pc'[g] = "woken" /\ op'[g] = m
      /\ \A h \in Goroutines \ {g} : pc'[h] = pc[h] /\ op'[h] = op[h]
  BY DEF Inv, TypeInv
<1>2. OwedAt' /\ NoneAfterClose'
  BY <1>1 DEF SInv, OwedAt, NoneAfterClose
<1>3. Balanced(m)'
  <2>1. Sleepers(m)' = Sleepers(m) \ {g} /\ g \in Sleepers(m)
    BY <1>1 DEF Sleepers
  <2>2. IsFiniteSet(Sleepers(m)') /\ Cardinality(Sleepers(m)') = Cardinality(Sleepers(m)) - 1
    BY <2>1, FS_RemoveElement DEF SInv, Balanced
  <2>3. Tokens(m)' = Tokens(m) /\ sema'[m] = sema[m] - 1 /\ mu.wait[m] \in Nat /\ sema[m] \in Nat
    BY CountAssumption DEF Tokens, Inv, TypeInv, Words
  <2>4. Cardinality(Tokens(m)) \in Nat
    BY FS_CardinalityType DEF SInv, Balanced
  <2>5. QED
    BY <2>2, <2>3, <2>4 DEF SInv, Balanced
<1>4. ASSUME NEW n \in Modes, n # m PROVE Balanced(n)'
  <2>1. Sleepers(n)' = Sleepers(n) /\ sema'[n] = sema[n]
    BY <1>1, <1>4 DEF Sleepers, Inv, TypeInv
  <2>2. QED
    BY <2>1, SameBalance DEF SInv
<1>5. Noticed(m)'
  BY <1>1 DEF Noticed, Awaited
<1>6. ASSUME NEW n \in Modes, n # m PROVE Noticed(n)'
  BY <1>1, <1>6 DEF SInv, Noticed, Awaited, Inv, TypeInv
<1>7. QED
  BY <1>2, <1>3, <1>4, <1>5, <1>6 DEF SInv

\* A signal that was owed arrives.
LEMMA SemreleaseSInv ==
    ASSUME Inv, Inv', SInv, NEW g \in Goroutines, NEW m \in Modes, Semrelease(g, m) PROVE SInv'
<1> USE DEF Semrelease
<1>1. /\ owed'[g][m] = owed[g][m] - 1 /\ sema'[m] = sema[m] + 1
      /\ \A n \in Modes \ {m} : owed'[g][n] = owed[g][n] /\ sema'[n] = sema[n]
      /\ \A h \in Goroutines \ {g} : owed'[h] = owed[h]
  BY DEF Inv, TypeInv
<1>2. owed[g] # Nobody
  BY DEF Nobody
<1>3. OwedAt' /\ NoneAfterClose'
  BY <1>1, <1>2 DEF SInv, OwedAt, NoneAfterClose
<1>4. Balanced(m)'
  <2> DEFINE t0 == <<g, owed[g][m]>>
  <2>1. owed[g][m] \in Nat \ {0} /\ sema[m] \in Nat /\ mu.wait[m] \in Nat
    BY CountAssumption DEF Inv, TypeInv, Words
  <2>2. Tokens(m)' = Tokens(m) \ {t0}
    <3>1. ASSUME NEW h \in Goroutines, NEW k \in Nat \ {0}
          PROVE  k <= owed'[h][m] <=> k <= owed[h][m] /\ <<h, k>> # t0
      <4>1. owed[h][m] \in Nat
        BY DEF Inv, TypeInv
      <4>2. CASE h = g
        BY <1>1, <2>1, <4>1, <4>2
      <4>3. CASE h # g
        BY <1>1, <4>3
      <4>4. QED
        BY <4>2, <4>3
    <3> HIDE DEF t0
    <3>2. ASSUME NEW t \in Goroutines \X (Nat \ {0})
          PROVE  t[2] <= owed'[t[1]][m] <=> t[2] <= owed[t[1]][m] /\ t # t0
      <4>1. t[1] \in Goroutines /\ t[2] \in Nat \ {0} /\ t = <<t[1], t[2]>>
        OBVIOUS
      <4>2. QED
        BY <3>1, <4>1
    <3>3. QED
      BY <3>2 DEF Tokens
  <2>3. t0 \in Tokens(m)
    BY <2>1 DEF Tokens
  <2> HIDE DEF t0
  <2>4. IsFiniteSet(Tokens(m)') /\ Cardinality(Tokens(m)') = Cardinality(Tokens(m)) - 1
    BY <2>2, <2>3, FS_RemoveElement DEF SInv, Balanced
  <2>5. Cardinality(Tokens(m)) \in Nat
    BY FS_CardinalityType DEF SInv, Balanced
  <2>6. Sleepers(m)' = Sleepers(m)
    BY DEF Sleepers
  <2>7. QED
    BY <1>1, <2>1, <2>4, <2>5, <2>6 DEF SInv, Balanced
<1>5. ASSUME NEW n \in Modes, n # m PROVE Balanced(n)'
  <2>1. Sleepers(n)' = Sleepers(n)
    BY DEF Sleepers
  <2>2. QED
    BY <1>1, <1>5, <2>1, SameBalance DEF SInv
<1>6. ASSUME NEW n \in Modes PROVE Noticed(n)'
  <2>1. CASE n = m
    BY <1>1, <2>1 DEF Noticed, Awaited, Inv, TypeInv
  <2>2. CASE n # m
    BY <1>1, <2>2 DEF SInv, Noticed, Awaited
  <2>3. QED
    BY <2>1, <2>2
<1>7. QED
  BY <1>3, <1>4, <1>5, <1>6 DEF SInv

\* Whoever lets the lock go takes one waiter out of the word and owes it a signal.
LEMMA rwunlockSInv ==
    ASSUME Inv, Inv', SInv, NEW g \in Goroutines, NEW m \in Modes, rwunlock(g, m) PROVE SInv'
<1> USE DEF rwunlock, Goto
<1>1. /\ pc'[g] = "left" /\ op' = op
      /\ \A h \in Goroutines \ {g} : pc'[h] = pc[h]
  BY DEF Inv, TypeInv
<1>2. owed[g] = Nobody
  BY DEF SInv, OwedAt
<1>3. /\ \A h \in Goroutines \ {g} : owed'[h] = owed[h]
      /\ \A n \in Modes \ {m} : owed'[g][n] = owed[g][n]
      /\ owed'[g][m] = IF mu.wait[m] > 0 THEN 1 ELSE 0
      /\ owed[g][m] = 0
  BY <1>2 DEF Inv, TypeInv, Nobody
<1>4. /\ mu'.closed = mu.closed
      /\ mu'.wait[m] = IF mu.wait[m] > 0 THEN mu.wait[m] - 1 ELSE mu.wait[m]
      /\ \A n \in Modes \ {m} : mu'.wait[n] = mu.wait[n] /\ mu'.lock[n] = mu.lock[n]
  BY DEF Unwait, Inv, TypeInv, Words
<1>5. OwedAt'
  BY <1>1, <1>3 DEF SInv, OwedAt
<1>6. NoneAfterClose'
  <2> SUFFICES ASSUME mu.closed PROVE mu'.wait = Nobody
    BY <1>4 DEF NoneAfterClose
  <2>1. \A n \in Modes : mu'.wait[n] = 0
    BY <1>4 DEF SInv, NoneAfterClose, Nobody
  <2>2. mu'.wait \in [Modes -> 0 .. WAIT_MAX]
    BY DEF Inv, TypeInv, Words
  <2>3. QED
    BY <2>1, <2>2 DEF Nobody
<1>7. \A n \in Modes : Sleepers(n)' = Sleepers(n)
  BY <1>1, SameSleepers
<1>8. Balanced(m)'
  <2>1. CASE ~(mu.wait[m] > 0)
    BY <1>3, <1>4, <1>7, <2>1, SameBalance DEF SInv
  <2>2. CASE mu.wait[m] > 0
    <3> DEFINE t0 == <<g, 1>>
    <3>1. Tokens(m)' = Tokens(m) \cup {t0}
      <4>1. ASSUME NEW h \in Goroutines, NEW k \in Nat \ {0}
            PROVE  k <= owed'[h][m] <=> k <= owed[h][m] \/ <<h, k>> = t0
        <5>1. CASE h = g
          BY <1>3, <2>2, <5>1
        <5>2. CASE h # g
          BY <1>3, <5>2
        <5>3. QED
          BY <5>1, <5>2
      <4> HIDE DEF t0
      <4>2. ASSUME NEW t \in Goroutines \X (Nat \ {0})
            PROVE  t[2] <= owed'[t[1]][m] <=> t[2] <= owed[t[1]][m] \/ t = t0
        <5>1. t[1] \in Goroutines /\ t[2] \in Nat \ {0} /\ t = <<t[1], t[2]>>
          OBVIOUS
        <5>2. QED
          BY <4>1, <5>1
      <4>3. t0 \in Goroutines \X (Nat \ {0})
        BY DEF t0
      <4>4. QED
        BY <4>2, <4>3 DEF Tokens
    <3>2. t0 \notin Tokens(m)
      BY <1>3 DEF Tokens
    <3> HIDE DEF t0
    <3>3. IsFiniteSet(Tokens(m)') /\ Cardinality(Tokens(m)') = Cardinality(Tokens(m)) + 1
      BY <3>1, <3>2, FS_AddElement DEF SInv, Balanced
    <3>4. Cardinality(Tokens(m)) \in Nat /\ mu.wait[m] \in Nat /\ sema[m] \in Nat
      BY FS_CardinalityType, CountAssumption DEF SInv, Balanced, Inv, TypeInv, Words
    <3>5. QED
      BY <1>4, <1>7, <2>2, <3>3, <3>4 DEF SInv, Balanced
  <2>3. QED
    BY <2>1, <2>2
<1>9. ASSUME NEW n \in Modes, n # m PROVE Balanced(n)'
  <2>1. \A h \in Goroutines : owed'[h][n] = owed[h][n]
    BY <1>3, <1>9
  <2>2. QED
    BY <1>4, <1>7, <1>9, <2>1, SameBalance DEF SInv
<1>10. ASSUME NEW n \in Modes PROVE Noticed(n)'
  <2>1. CASE n = m
    <3>1. mu'.wait[m] > 0 => owed'[g][m] > 0
      BY <1>3, <1>4
    <3>2. QED
      BY <2>1, <3>1 DEF Noticed, Awaited
  <2>2. CASE n # m
    <3>1. Awaited(n) => Awaited(n)'
      BY <1>1, <1>3, <2>2 DEF Awaited
    <3>2. QED
      BY <1>4, <2>2, <3>1 DEF SInv, Noticed
  <2>3. QED
    BY <2>1, <2>2
<1>11. QED
  BY <1>5, <1>6, <1>8, <1>9, <1>10 DEF SInv

\* Close takes all waiters out of the word and owes each of them a signal.
LEMMA increfAndCloseSInv ==
    ASSUME Inv, Inv', SInv, NEW g \in Goroutines, increfAndClose(g) PROVE SInv'
<1> USE DEF increfAndClose, Does, Goto
<1>1. /\ pc[g] = "idle" /\ pc'[g] = "waking" /\ op'[g] = "close"
      /\ \A h \in Goroutines \ {g} : pc'[h] = pc[h] /\ op'[h] = op[h]
  BY DEF Inv, TypeInv
<1>2. owed[g] = Nobody /\ owed'[g] = mu.wait /\ \A h \in Goroutines \ {g} : owed'[h] = owed[h]
  BY DEF SInv, OwedAt, ToWake, Inv, TypeInv
<1>3. mu'.closed /\ mu'.wait = Nobody
  BY DEF WithRef, Inv, TypeInv, Words
<1>4. OwedAt' /\ NoneAfterClose'
  BY <1>1, <1>2, <1>3 DEF SInv, OwedAt, NoneAfterClose
<1>5. ASSUME NEW m \in Modes PROVE Balanced(m)'
  <2> DEFINE new == {g} \X (1 .. mu.wait[m])
  <2>1. mu.wait[m] \in Nat /\ sema[m] \in Nat /\ sema' = sema /\ mu'.wait[m] = 0
    BY <1>3, CountAssumption DEF Inv, TypeInv, Words, Nobody
  <2>2. Tokens(m)' = Tokens(m) \cup new
    <3>1. ASSUME NEW h \in Goroutines, NEW k \in Nat \ {0}
          PROVE  k <= owed'[h][m] <=> k <= owed[h][m] \/ <<h, k>> \in new
      <4>1. CASE h = g
        BY <1>2, <2>1, <4>1 DEF Nobody
      <4>2. CASE h # g
        BY <1>2, <4>2
      <4>3. QED
        BY <4>1, <4>2
    <3>2. new \subseteq Goroutines \X (Nat \ {0})
      BY <2>1
    <3> HIDE DEF new
    <3>3. ASSUME NEW t \in Goroutines \X (Nat \ {0})
          PROVE  t[2] <= owed'[t[1]][m] <=> t[2] <= owed[t[1]][m] \/ t \in new
      <4>1. t[1] \in Goroutines /\ t[2] \in Nat \ {0} /\ t = <<t[1], t[2]>>
        OBVIOUS
      <4>2. QED
        BY <3>1, <4>1
    <3>4. QED
      BY <3>2, <3>3 DEF Tokens
  <2>3. Tokens(m) \cap new = {}
    BY <1>2, <2>1 DEF Tokens, Nobody
  <2>4. IsFiniteSet(new) /\ Cardinality(new) = mu.wait[m]
    <3>1. IsFiniteSet({g}) /\ Cardinality({g}) = 1
      BY FS_Singleton
    <3>2. IsFiniteSet(1 .. mu.wait[m]) /\ Cardinality(1 .. mu.wait[m]) = mu.wait[m]
      BY <2>1, FS_Interval
    <3>3. IsFiniteSet(new) /\ Cardinality(new) = 1 * mu.wait[m]
      BY <3>1, <3>2, FS_Product
    <3>4. QED
      BY <2>1, <3>3
  <2> HIDE DEF new
  <2>5. IsFiniteSet(Tokens(m)) /\ Cardinality(Tokens(m)) \in Nat
    BY FS_CardinalityType DEF SInv, Balanced
  <2>6. IsFiniteSet(Tokens(m)') /\ Cardinality(Tokens(m)') = Cardinality(Tokens(m)) + mu.wait[m] - 0
    BY <2>2, <2>3, <2>4, <2>5, FS_Union, FS_EmptySet
  <2>7. Sleepers(m)' = Sleepers(m)
    BY <1>1, SameSleepers
  <2>8. QED
    BY <2>1, <2>5, <2>6, <2>7 DEF SInv, Balanced
<1>6. \A m \in Modes : Noticed(m)'
  BY <1>3 DEF Noticed
<1>7. QED
  BY <1>4, <1>5, <1>6 DEF SInv

LEMMA UnseenSInv == ASSUME SInv, UNCHANGED <<mu, sema, pc, op, owed>> PROVE SInv'
BY DEF SInv, OwedAt, NoneAfterClose, Balanced, Noticed, Sleepers, Tokens, Awaited

\* The other steps concern no waiter; a woken one that finds the file closed, or
\* that panics, lets nobody down.
LEMMA OthersSInv ==
    ASSUME Inv, Inv', SInv, NEW g \in Goroutines,
           \/ rwlockClosed(g) \/ incref(g) \/ SetBlocking(g) \/ decref(g) \/ Evict(g)
           \/ NotLast(g) \/ destroy(g) \/ CloseReturns(g) \/ Overflow(g)
    PROVE  SInv'
<1> USE DEF Inv, TypeInv
<1>1. CASE SetBlocking(g)
  <2>1. UNCHANGED <<mu, sema, pc, op, owed>>
    BY <1>1 DEF SetBlocking
  <2>2. QED
    BY <2>1, UnseenSInv
<1>2. CASE incref(g) \/ decref(g)
  <2>1. mu'.wait = mu.wait /\ mu'.closed = mu.closed /\ mu'.lock = mu.lock
    BY <1>2 DEF incref, decref, WithRef, Words
  <2>2. owed[g] = Nobody
    BY <1>2 DEF SInv, OwedAt, incref, decref
  <2>3. QED
    <3>1. /\ pc[g] \in {"idle", "using", "evicted"} /\ pc'[g] \in {"using", "left"}
          /\ \A h \in Goroutines \ {g} : pc'[h] = pc[h] /\ op'[h] = op[h]
          /\ UNCHANGED <<sema, owed>>
      BY <1>2 DEF incref, decref, Does, Goto
    <3>2. QED
      BY <2>1, <2>2, <3>1, Unconcerned
<1>3. CASE rwlockClosed(g)
  <2>1. owed[g] = Nobody
    BY <1>3 DEF SInv, OwedAt, rwlockClosed
  <2>2. QED
    BY <1>3, <2>1, Unconcerned DEF rwlockClosed, Returns, Does, Goto
<1>4. CASE Overflow(g)
  <2>1. owed[g] = Nobody /\ pc[g] \in {"idle", "woken"}
    BY <1>4 DEF SInv, OwedAt, Overflow, Trying
  <2>2. QED
    BY <1>4, <2>1, Unconcerned DEF Overflow, Goto
<1>5. CASE Evict(g) \/ CloseReturns(g)
  <2>1. owed[g] = Nobody
    BY <1>5 DEF SInv, OwedAt, Evict, CloseReturns
  <2>2. QED
    BY <1>5, <2>1, Unconcerned DEF Evict, CloseReturns, Returns, Does, Goto
<1>6. CASE NotLast(g) \/ destroy(g)
  <2>1. /\ owed[g] = Nobody /\ pc[g] = "left" /\ pc'[g] \in {"closing", "idle"}
        /\ \A h \in Goroutines \ {g} : pc'[h] = pc[h] /\ op'[h] = op[h]
        /\ UNCHANGED <<mu, sema, owed>>
    BY <1>6 DEF NotLast, destroy, Returns, Does, Goto
  <2>2. QED
    BY <2>1, Unconcerned
<1>7. QED
  BY <1>1, <1>2, <1>3, <1>4, <1>5, <1>6

LEMMA SInvStep == ASSUME Inv, Inv', SInv, [Next]_vars PROVE SInv'
<1>1. CASE UNCHANGED vars
  BY <1>1, UnseenSInv DEF vars
<1>2. CASE Next
  <2>1. PICK g \in Goroutines :
            \/ \E m \in Modes : \/ rwlock(g, m) \/ rwlockWait(g, m) \/ rwunlock(g, m)
                                \/ Semacquire(g, m) \/ Semrelease(g, m)
            \/ rwlockClosed(g) \/ incref(g) \/ SetBlocking(g) \/ decref(g)
            \/ increfAndClose(g) \/ Evict(g) \/ NotLast(g) \/ destroy(g) \/ CloseReturns(g)
            \/ Overflow(g)
    BY <1>2 DEF Next
  <2>2. QED
    BY <2>1, rwlockSInv, rwlockWaitSInv, rwunlockSInv, SemacquireSInv, SemreleaseSInv,
       increfAndCloseSInv, OthersSInv
<1>3. QED
  BY <1>1, <1>2

\* No goroutine sleeps in rwlock for ever for want of a signal: the waiters that
\* rwunlock and increfAndClose take out of the word are exactly those they signal,
\* also when Close comes between an unlock and its Semrelease.
THEOREM NobodyStranded == Spec => []NoStranded
<1>1. Inv /\ [Next]_vars => Inv'
  BY InvStep
<1>2. Inv /\ Inv' /\ SInv /\ [Next]_vars => SInv'
  BY SInvStep
<1>3. Inv /\ SInv => NoStranded
  BY SInvImplies
<1>4. QED
  BY InitInv, InitSInv, <1>1, <1>2, <1>3, PTL DEF Spec

=============================================================================
