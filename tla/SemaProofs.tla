---------------------------- MODULE SemaProofs ------------------------------
(***************************************************************************)
(* Sema for any number of goroutines and addresses: it implements          *)
(* Semaphore, and no wake-up is missed.                                    *)
(***************************************************************************)
EXTENDS Sema, FiniteSetTheorems, SequenceTheorems, TLAPS

(***************************************************************************)
(* The inductive invariant.  A unit may be passed on in a ticket, so the   *)
(* goroutines that answer for the units of an address are those in flight  *)
(* without one.                                                            *)
(***************************************************************************)
Pcs == {"idle", "easy", "acquire", "try", "parked", "woken", "added", "release", "wake", "ready"}

TypeInv ==
    /\ val \in [Addrs -> Nat] /\ nwait \in Nat /\ queue \in [Addrs -> Seq(Goroutines)]
    /\ pc \in [Goroutines -> Pcs] /\ addr \in [Goroutines -> Addrs \cup {None}]
    /\ opt \in [Goroutines -> BOOLEAN] /\ ticket \in [Goroutines -> BOOLEAN]
    /\ woken \in [Goroutines -> Goroutines \cup {None}]

AddrInv == \A g \in Goroutines : pc[g] = "idle" <=> addr[g] = None

TicketInv == \A g \in Goroutines : ticket[g] => pc[g] \in {"parked", "woken"}

\* A releaser makes ready one parked goroutine of its address, and no other
\* releaser does; before a handoff that one has no ticket.
WokenInv ==
    \A h \in Goroutines :
        /\ woken[h] # None <=> pc[h] \in {"wake", "ready"}
        /\ woken[h] # None => /\ pc[woken[h]] = "parked" /\ addr[woken[h]] = addr[h]
                              /\ \A k \in Goroutines : woken[k] = woken[h] => k = h
        /\ pc[h] = "wake" => ~ticket[woken[h]]

\* Who is in a list is parked on that address, once, with no ticket, and nobody is
\* about to make it ready.
In(g, q) == \E i \in 1 .. Len(q) : q[i] = g
Once(q) == \A i, j \in 1 .. Len(q) : q[i] = q[j] => i = j

QueueInv ==
    \A a \in Addrs :
        /\ Once(queue[a])
        /\ \A g \in Goroutines : In(g, queue[a]) =>
              /\ pc[g] = "parked" /\ addr[g] = a /\ ~ticket[g]
              /\ \A h \in Goroutines : woken[h] # g

\* Who is parked is in a list or about to be made ready.
ParkedInv ==
    \A g \in Goroutines : pc[g] = "parked" =>
        \/ In(g, queue[addr[g]])
        \/ \E h \in Goroutines : woken[h] = g

\* nwait counts those who hold the lock to queue, and those in the lists.
Waiting == {g \in Goroutines : pc[g] = "try" \/ (pc[g] = "parked" /\ \A h \in Goroutines : woken[h] # g)}
CountInv == nwait = Cardinality(Waiting)

\* Those in flight who bring no ticket.
FreeHanded(a) ==
    {g \in Goroutines : /\ addr[g] = a
                        /\ \/ pc[g] \in {"added", "release", "wake"}
                           \/ pc[g] = "ready" /\ ~ticket[woken[g]]
                           \/ pc[g] = "woken" /\ ~ticket[g]}

UnitInv == \A a \in Addrs : queue[a] # <<>> => val[a] <= Cardinality(FreeHanded(a))

Lists == WokenInv /\ QueueInv /\ ParkedInv
Inv == TypeInv /\ AddrInv /\ TicketInv /\ Lists /\ CountInv /\ UnitInv

LEMMA Fin == ASSUME NEW S \in SUBSET Goroutines PROVE IsFiniteSet(S) /\ Cardinality(S) \in Nat
BY SemaAssumption, FS_Subset, FS_CardinalityType

LEMMA InitInv == Init => Inv
<1> SUFFICES ASSUME Init PROVE Inv
  OBVIOUS
<1> USE DEF Init
<1>1. TypeInv /\ AddrInv /\ TicketInv
  BY DEF TypeInv, AddrInv, TicketInv, Pcs
<1>2. Lists /\ UnitInv
  BY DEF Lists, WokenInv, QueueInv, ParkedInv, UnitInv, In, Once
<1>3. Waiting = {}
  BY DEF Waiting
<1>4. CountInv
  BY <1>3, FS_EmptySet DEF CountInv
<1>5. QED
  BY <1>1, <1>2, <1>4 DEF Inv

\* A list is not empty: its first is counted.
LEMMA SomebodyWaits == ASSUME Inv, NEW a \in Addrs, queue[a] # <<>> PROVE nwait # 0
<1>1. queue[a] \in Seq(Goroutines) /\ 1 \in 1 .. Len(queue[a]) /\ queue[a][1] \in Goroutines
  BY EmptySeq DEF Inv, TypeInv
<1>2. queue[a][1] \in Waiting
  BY <1>1 DEF Inv, Lists, QueueInv, In, Waiting
<1>3. Cardinality(Waiting) # 0
  <2>1. Waiting \in SUBSET Goroutines
    BY DEF Waiting
  <2>2. QED
    BY <1>2, <2>1, Fin, FS_EmptySet
<1>4. QED
  BY <1>3 DEF Inv, CountInv

-----------------------------------------------------------------------------
(***************************************************************************)
(* What the steps have in common.                                          *)
(***************************************************************************)
\* Only g moves.
OnlyMoves(g) == \A h \in Goroutines \ {g} : pc'[h] = pc[h] /\ addr'[h] = addr[h] /\ ticket'[h] = ticket[h]

Busy == {"parked", "wake", "ready"}

\* A step of a goroutine that is in no list and is no releaser with a waiter.
LEMMA PlainLists ==
    ASSUME Inv, NEW g \in Goroutines, pc[g] \notin Busy, pc'[g] \notin Busy,
           OnlyMoves(g), queue' = queue, woken' = woken
    PROVE  Lists'
<1>1. \A h \in Goroutines : woken[h] # g
  BY SemaAssumption DEF Inv, Lists, WokenInv, Busy
<1>2. WokenInv'
  BY <1>1 DEF Inv, TypeInv, Lists, WokenInv, Busy, OnlyMoves
<1>3. \A a \in Addrs : ~In(g, queue[a])
  BY DEF Inv, Lists, QueueInv, Busy
<1>4. QueueInv'
  BY <1>3 DEF Inv, Lists, QueueInv, OnlyMoves
<1>5. ParkedInv'
  BY DEF Inv, Lists, ParkedInv, Busy, OnlyMoves
<1>6. QED
  BY <1>2, <1>4, <1>5 DEF Lists

\* The bound of the units at an address, when one goroutine comes or goes.
LEMMA UnitKept ==
    ASSUME Inv, NEW a \in Addrs, NEW g \in Goroutines, val'[a] \in Nat,
           queue'[a] # <<>> => queue[a] # <<>> \/ val'[a] = 0,
           \/ FreeHanded(a)' = FreeHanded(a) /\ val'[a] <= val[a]
           \/ FreeHanded(a)' = FreeHanded(a) \cup {g} /\ g \notin FreeHanded(a) /\ val'[a] <= val[a] + 1
           \/ FreeHanded(a)' = FreeHanded(a) \ {g} /\ (val'[a] < val[a] \/ val'[a] = 0 \/ queue'[a] = <<>>)
    PROVE  queue'[a] # <<>> => val'[a] <= Cardinality(FreeHanded(a)')
<1>1. FreeHanded(a) \in SUBSET Goroutines /\ FreeHanded(a)' \in SUBSET Goroutines
  BY DEF FreeHanded
<1>2. /\ IsFiniteSet(FreeHanded(a)) /\ Cardinality(FreeHanded(a)) \in Nat
      /\ Cardinality(FreeHanded(a)') \in Nat /\ val[a] \in Nat
  BY <1>1, Fin DEF Inv, TypeInv
<1>3. CASE val'[a] = 0 \/ queue'[a] = <<>>
  BY <1>2, <1>3
<1>4. CASE queue[a] # <<>>
  <2>1. val[a] <= Cardinality(FreeHanded(a))
    BY <1>4 DEF Inv, UnitInv
  <2>2. CASE FreeHanded(a)' = FreeHanded(a) /\ val'[a] <= val[a]
    BY <1>2, <2>1, <2>2
  <2>3. CASE FreeHanded(a)' = FreeHanded(a) \cup {g} /\ g \notin FreeHanded(a) /\ val'[a] <= val[a] + 1
    <3>1. Cardinality(FreeHanded(a)') = Cardinality(FreeHanded(a)) + 1
      BY <1>2, <2>3, FS_AddElement
    <3>2. QED
      BY <1>2, <2>1, <2>3, <3>1
  <2>4. CASE FreeHanded(a)' = FreeHanded(a) \ {g} /\ val'[a] < val[a]
    <3>1. \/ Cardinality(FreeHanded(a)') = Cardinality(FreeHanded(a)) - 1
          \/ Cardinality(FreeHanded(a)') = Cardinality(FreeHanded(a))
      BY <1>2, <2>4, FS_RemoveElement
    <3>2. QED
      BY <1>2, <2>1, <2>4, <3>1
  <2>5. QED
    BY <1>3, <2>2, <2>3, <2>4
<1>5. QED
  BY <1>3, <1>4

\* Steps of a plain goroutine leave the others' answers alone.
LEMMA PlainFree ==
    ASSUME Inv, NEW g \in Goroutines, pc[g] \notin Busy, pc'[g] \notin Busy,
           OnlyMoves(g), woken' = woken, NEW a \in Addrs
    PROVE  FreeHanded(a)' \ {g} = FreeHanded(a) \ {g}
<1>1. \A h \in Goroutines : pc[h] = "ready" => woken[h] \in Goroutines \ {g}
  BY DEF Inv, TypeInv, Lists, WokenInv, Busy
<1>2. \A h \in Goroutines \ {g} : h \in FreeHanded(a)' <=> h \in FreeHanded(a)
  BY <1>1 DEF FreeHanded, OnlyMoves
<1>3. FreeHanded(a) \subseteq Goroutines /\ FreeHanded(a)' \subseteq Goroutines
  BY DEF FreeHanded
<1>4. QED
  BY <1>2, <1>3

LEMMA PlainWaiting ==
    ASSUME Inv, NEW g \in Goroutines, pc[g] \notin Busy, pc'[g] \notin Busy,
           OnlyMoves(g), woken' = woken
    PROVE  /\ pc[g] # "try" /\ pc'[g] # "try" => Waiting' = Waiting
           /\ pc[g] # "try" /\ pc'[g] = "try" => Waiting' = Waiting \cup {g} /\ g \notin Waiting
           /\ pc[g] = "try" /\ pc'[g] # "try" => Waiting' = Waiting \ {g} /\ g \in Waiting
<1>1. \A h \in Goroutines \ {g} : h \in Waiting' <=> h \in Waiting
  BY DEF Waiting, OnlyMoves
<1>2. Waiting \subseteq Goroutines /\ Waiting' \subseteq Goroutines
  BY DEF Waiting
<1>3. (g \in Waiting <=> pc[g] = "try") /\ (g \in Waiting' <=> pc'[g] = "try")
  BY DEF Waiting, Busy
<1>4. QED
  BY <1>1, <1>2, <1>3

\* The plain steps, but for what they do to nwait and val.
LEMMA PlainStep ==
    ASSUME Inv, NEW g \in Goroutines, pc[g] \notin Busy, pc'[g] \notin Busy \cup {"try"}, pc[g] # "try",
           OnlyMoves(g), queue' = queue, woken' = woken, nwait' = nwait, TypeInv',
           pc'[g] = "idle" <=> addr'[g] = None,
           ticket'[g] => pc'[g] \in {"parked", "woken"},
           UnitInv'
    PROVE  Inv'
<1>1. Lists' /\ Waiting' = Waiting
  BY PlainLists, PlainWaiting
<1>2. CountInv'
  BY <1>1 DEF Inv, CountInv
<1>3. AddrInv' /\ TicketInv'
  BY DEF Inv, AddrInv, TicketInv, OnlyMoves
<1>4. QED
  BY <1>1, <1>2, <1>3 DEF Inv

-----------------------------------------------------------------------------
(***************************************************************************)
(* semacquire1.                                                            *)
(***************************************************************************)
LEMMA semacquireKeeps ==
    ASSUME Inv, NEW g \in Goroutines, NEW a \in Addrs, NEW o \in BOOLEAN, semacquire(g, a, o)
    PROVE  Inv'
<1> USE DEF semacquire, Calls, Goto
<1>1. pc[g] = "idle" /\ pc'[g] = "easy" /\ addr'[g] = a /\ OnlyMoves(g) /\ ~ticket[g]
  BY DEF Inv, TypeInv, TicketInv, OnlyMoves
<1>2. TypeInv'
  BY DEF Inv, TypeInv, Pcs
<1>3. UnitInv'
  <2> SUFFICES ASSUME NEW b \in Addrs PROVE (queue[b] # <<>> => val[b] <= Cardinality(FreeHanded(b)))'
    BY DEF UnitInv
  <2>1. FreeHanded(b)' \ {g} = FreeHanded(b) \ {g}
    BY <1>1, PlainFree DEF Busy
  <2>2. g \notin FreeHanded(b) /\ g \notin FreeHanded(b)'
    BY <1>1 DEF FreeHanded
  <2>3. FreeHanded(b)' = FreeHanded(b)
    BY <2>1, <2>2
  <2>4. QED
    BY <2>3 DEF Inv, UnitInv
<1>4. QED
  BY <1>1, <1>2, <1>3, PlainStep, SemaAssumption DEF Busy

LEMMA TryUnlockedKeeps ==
    ASSUME Inv, NEW g \in Goroutines, TryUnlocked(g) PROVE Inv'
<1> USE DEF TryUnlocked, cansemacquire, cannot, Returns, Goto
<1>1. /\ pc[g] \in {"easy", "woken"} /\ pc'[g] \in {"idle", "acquire"} /\ OnlyMoves(g)
      /\ ~ticket[g] /\ ticket' = ticket /\ addr[g] \in Addrs
      /\ (pc'[g] = "idle" <=> addr'[g] = None)
  BY SemaAssumption DEF Inv, TypeInv, AddrInv, OnlyMoves
<1>2. TypeInv'
  <2>1. val' \in [Addrs -> Nat]
    BY <1>1 DEF Inv, TypeInv
  <2>2. QED
    BY <2>1 DEF Inv, TypeInv, Pcs
<1>3. UnitInv'
  <2> SUFFICES ASSUME NEW b \in Addrs PROVE (queue[b] # <<>> => val[b] <= Cardinality(FreeHanded(b)))'
    BY DEF UnitInv
  <2>1. FreeHanded(b)' \ {g} = FreeHanded(b) \ {g} /\ g \notin FreeHanded(b)'
    BY <1>1, PlainFree DEF Busy, FreeHanded
  <2>2. CASE b = addr[g]
    <3>1. FreeHanded(b)' = FreeHanded(b) \ {g}
      BY <2>1
    <3>2. val'[b] \in Nat /\ (val'[b] < val[b] \/ val'[b] = 0)
      BY <2>2 DEF Inv, TypeInv
    <3>3. QED
      BY <3>1, <3>2, UnitKept
  <2>3. CASE b # addr[g]
    <3>1. FreeHanded(b)' = FreeHanded(b)
      BY <2>1, <2>3 DEF FreeHanded
    <3>2. val'[b] = val[b]
      BY <1>1, <2>3 DEF Inv, TypeInv
    <3>3. QED
      BY <3>1, <3>2 DEF Inv, UnitInv
  <2>4. QED
    BY <2>2, <2>3
<1>4. QED
  BY <1>1, <1>2, <1>3, PlainStep DEF Busy

LEMMA HasTicketKeeps ==
    ASSUME Inv, NEW g \in Goroutines, HasTicket(g) PROVE Inv'
<1> USE DEF HasTicket, Returns, Goto
<1>1. /\ pc[g] = "woken" /\ pc'[g] = "idle" /\ OnlyMoves(g) /\ ticket[g] /\ ~ticket'[g]
      /\ addr'[g] = None
  BY DEF Inv, TypeInv, OnlyMoves
<1>2. TypeInv'
  BY DEF Inv, TypeInv, Pcs
<1>3. UnitInv'
  <2> SUFFICES ASSUME NEW b \in Addrs PROVE (queue[b] # <<>> => val[b] <= Cardinality(FreeHanded(b)))'
    BY DEF UnitInv
  <2>1. FreeHanded(b)' \ {g} = FreeHanded(b) \ {g}
    BY <1>1, PlainFree DEF Busy
  <2>2. g \notin FreeHanded(b) /\ g \notin FreeHanded(b)'
    BY <1>1 DEF FreeHanded
  <2>3. FreeHanded(b)' = FreeHanded(b)
    BY <2>1, <2>2
  <2>4. QED
    BY <2>3 DEF Inv, UnitInv
<1>4. QED
  BY <1>1, <1>2, <1>3, PlainStep DEF Busy

LEMMA LockAcquireKeeps ==
    ASSUME Inv, NEW g \in Goroutines, LockAcquire(g) PROVE Inv'
<1> USE DEF LockAcquire, Announce, Goto
<1>1. pc[g] = "acquire" /\ pc'[g] = "try" /\ OnlyMoves(g) /\ ~ticket[g]
  BY DEF Inv, TypeInv, TicketInv, OnlyMoves
<1>2. TypeInv'
  BY DEF Inv, TypeInv, Pcs
<1>3. UnitInv'
  <2> SUFFICES ASSUME NEW b \in Addrs PROVE (queue[b] # <<>> => val[b] <= Cardinality(FreeHanded(b)))'
    BY DEF UnitInv
  <2>1. FreeHanded(b)' \ {g} = FreeHanded(b) \ {g}
    BY <1>1, PlainFree DEF Busy
  <2>2. g \notin FreeHanded(b) /\ g \notin FreeHanded(b)'
    BY <1>1 DEF FreeHanded
  <2>3. FreeHanded(b)' = FreeHanded(b)
    BY <2>1, <2>2
  <2>4. QED
    BY <2>3 DEF Inv, UnitInv
<1>4. CountInv'
  <2>1. Waiting' = Waiting \cup {g} /\ g \notin Waiting
    BY <1>1, PlainWaiting DEF Busy
  <2>2. Waiting \in SUBSET Goroutines
    BY DEF Waiting
  <2>3. QED
    BY <2>1, <2>2, Fin, FS_AddElement DEF Inv, CountInv
<1>5. Lists'
  BY <1>1, PlainLists DEF Busy
<1>6. AddrInv' /\ TicketInv'
  BY <1>1 DEF Inv, TypeInv, AddrInv, TicketInv
<1>7. QED
  BY <1>2, <1>3, <1>4, <1>5, <1>6 DEF Inv

LEMMA TryLockedKeeps ==
    ASSUME Inv, NEW g \in Goroutines, TryLocked(g) PROVE Inv'
<1> USE DEF TryLocked, cansemacquire, Returns, Goto
<1>1. /\ pc[g] = "try" /\ pc'[g] = "idle" /\ OnlyMoves(g) /\ ~ticket[g]
      /\ addr[g] \in Addrs /\ addr'[g] = None
  BY DEF Inv, TypeInv, TicketInv, AddrInv, OnlyMoves
<1>2. CountInv' /\ nwait' \in Nat
  <2>1. Waiting' = Waiting \ {g} /\ g \in Waiting
    BY <1>1, PlainWaiting DEF Busy
  <2>2. Waiting \in SUBSET Goroutines /\ Waiting' \in SUBSET Goroutines
    BY DEF Waiting
  <2>3. QED
    BY <2>1, <2>2, Fin, FS_RemoveElement DEF Inv, CountInv
<1>3. TypeInv'
  <2>1. val' \in [Addrs -> Nat]
    BY <1>1 DEF Inv, TypeInv
  <2>2. QED
    BY <1>2, <2>1 DEF Inv, TypeInv, Pcs
<1>4. UnitInv'
  <2> SUFFICES ASSUME NEW b \in Addrs PROVE (queue[b] # <<>> => val[b] <= Cardinality(FreeHanded(b)))'
    BY DEF UnitInv
  <2>1. FreeHanded(b)' \ {g} = FreeHanded(b) \ {g}
    BY <1>1, PlainFree DEF Busy
  <2>2. g \notin FreeHanded(b) /\ g \notin FreeHanded(b)'
    BY <1>1 DEF FreeHanded
  <2>3. FreeHanded(b)' = FreeHanded(b)
    BY <2>1, <2>2
  <2>4. val'[b] <= val[b] /\ val'[b] \in Nat
    BY <1>1 DEF Inv, TypeInv
  <2>5. QED
    BY <2>3, <2>4, UnitKept
<1>5. Lists'
  BY <1>1, PlainLists DEF Busy
<1>6. AddrInv' /\ TicketInv'
  BY <1>1 DEF Inv, TypeInv, AddrInv, TicketInv
<1>7. QED
  BY <1>2, <1>3, <1>4, <1>5, <1>6 DEF Inv

\* A waiter joins a list, at either end.
LEMMA Joins ==
    ASSUME NEW q \in Seq(Goroutines), NEW g \in Goroutines, Once(q), ~In(g, q),
           NEW r, r = <<g>> \o q \/ r = Append(q, g)
    PROVE  /\ r \in Seq(Goroutines) /\ Once(r) /\ r # <<>>
           /\ \A x : In(x, r) <=> x = g \/ In(x, q)
<1>1. CASE r = Append(q, g)
  <2>1. /\ r \in Seq(Goroutines) /\ Len(r) = Len(q) + 1 /\ r[Len(q) + 1] = g
        /\ \A i \in 1 .. Len(q) : r[i] = q[i]
    BY <1>1, AppendProperties
  <2>2. QED
    BY <2>1 DEF In, Once
<1>2. CASE r = <<g>> \o q
  <2>1. <<g>> \in Seq(Goroutines) /\ Len(<<g>>) = 1 /\ <<g>>[1] = g
    OBVIOUS
  <2>2. /\ r \in Seq(Goroutines) /\ Len(r) = 1 + Len(q)
        /\ \A i \in 1 .. 1 + Len(q) : r[i] = IF i <= 1 THEN <<g>>[i] ELSE q[i - 1]
    BY <1>2, <2>1, ConcatProperties
  <2>3. r[1] = g /\ \A i \in 1 .. Len(q) : r[i + 1] = q[i]
    <3>1. Len(q) \in Nat
      OBVIOUS
    <3>2. r[1] = g
      BY <2>1, <2>2, <3>1
    <3>3. ASSUME NEW i \in 1 .. Len(q) PROVE r[i + 1] = q[i]
      <4>1. i + 1 \in 1 .. 1 + Len(q) /\ ~(i + 1 <= 1) /\ i + 1 - 1 = i
        BY <3>1
      <4>2. QED
        BY <2>2, <4>1
    <3>4. QED
      BY <3>2, <3>3
  <2>4. \A j \in 1 .. Len(r) : j = 1 \/ (j - 1 \in 1 .. Len(q) /\ r[j] = q[j - 1])
    BY <2>2
  <2>5. \A x : In(x, r) <=> x = g \/ In(x, q)
    <3>1. ASSUME NEW x, In(x, r) PROVE x = g \/ In(x, q)
      BY <2>3, <2>4, <3>1 DEF In
    <3>2. In(g, r)
      BY <2>2, <2>3 DEF In
    <3>3. ASSUME NEW x, In(x, q) PROVE In(x, r)
      <4>1. PICK i \in 1 .. Len(q) : q[i] = x
        BY <3>3 DEF In
      <4>2. i + 1 \in 1 .. Len(r) /\ r[i + 1] = x
        BY <2>2, <2>3, <4>1
      <4>3. QED
        BY <4>2 DEF In
    <3>4. QED
      BY <3>1, <3>2, <3>3
  <2>6. Once(r)
    <3> SUFFICES ASSUME NEW i \in 1 .. Len(r), NEW j \in 1 .. Len(r), r[i] = r[j] PROVE i = j
      BY DEF Once
    <3>1. CASE i = 1 \/ j = 1
      BY <2>3, <2>4, <3>1 DEF In
    <3>2. CASE i # 1 /\ j # 1
      <4>1. i - 1 = j - 1
        BY <2>4, <3>2 DEF Once
      <4>2. QED
        BY <2>2, <4>1
    <3>3. QED
      BY <3>1, <3>2
  <2>7. QED
    BY <2>2, <2>5, <2>6
<1>3. QED
  BY <1>1, <1>2

\* The first leaves a list.
LEMMA LeavesList ==
    ASSUME NEW q \in Seq(Goroutines), Once(q), q # <<>>
    PROVE  /\ Head(q) \in Goroutines /\ In(Head(q), q)
           /\ Tail(q) \in Seq(Goroutines) /\ Once(Tail(q))
           /\ \A x : In(x, Tail(q)) <=> In(x, q) /\ x # Head(q)
<1>1. /\ Head(q) \in Goroutines /\ Tail(q) \in Seq(Goroutines) /\ Len(Tail(q)) = Len(q) - 1
      /\ \A i \in 1 .. Len(Tail(q)) : Tail(q)[i] = q[i + 1]
  BY HeadTailProperties
<1>2. Len(q) \in Nat \ {0} /\ Head(q) = q[1]
  BY EmptySeq
<1> DEFINE t == Tail(q)
<1> HIDE DEF t
<1>3. \A i \in 1 .. Len(t) : i + 1 \in 1 .. Len(q) /\ i + 1 # 1 /\ t[i] = q[i + 1]
  BY <1>1, <1>2 DEF t
<1>4. Once(t)
  <2> SUFFICES ASSUME NEW i \in 1 .. Len(t), NEW j \in 1 .. Len(t), t[i] = t[j] PROVE i = j
    BY DEF Once
  <2>1. i + 1 = j + 1
    BY <1>3 DEF Once
  <2>2. QED
    BY <2>1
<1>5. ASSUME NEW x, In(x, t) PROVE In(x, q) /\ x # Head(q)
  <2>1. PICK i \in 1 .. Len(t) : t[i] = x
    BY <1>5 DEF In
  <2>2. i + 1 \in 1 .. Len(q) /\ 1 \in 1 .. Len(q) /\ i + 1 # 1 /\ q[i + 1] = x
    BY <1>2, <1>3, <2>1
  <2>3. QED
    BY <1>2, <2>2 DEF In, Once
<1>6. ASSUME NEW x, In(x, q), x # Head(q) PROVE In(x, t)
  <2>1. PICK j \in 1 .. Len(q) : q[j] = x
    BY <1>6 DEF In
  <2>2. j - 1 \in 1 .. Len(t) /\ j - 1 + 1 = j
    BY <1>1, <1>2, <1>6, <2>1 DEF t
  <2>3. t[j - 1] = x
    BY <1>3, <2>1, <2>2
  <2>4. QED
    BY <2>2, <2>3 DEF In
<1>7. In(Head(q), q)
  BY <1>2 DEF In
<1>8. QED
  BY <1>1, <1>4, <1>5, <1>6, <1>7 DEF t

\* root.queue: whoever counted itself is now in the list, and there is no unit.
LEMMA EnqueueKeeps ==
    ASSUME Inv, NEW g \in Goroutines, Enqueue(g) PROVE Inv'
<1> USE DEF Enqueue, cannot, Goto
<1> DEFINE a == addr[g]
<1>1. /\ pc[g] = "try" /\ pc'[g] = "parked" /\ OnlyMoves(g) /\ ~ticket[g] /\ addr'[g] = a
      /\ a \in Addrs /\ addr' = addr /\ ticket' = ticket /\ woken' = woken /\ val' = val /\ val[a] = 0
      /\ nwait' = nwait
  BY DEF Inv, TypeInv, TicketInv, AddrInv, OnlyMoves
<1>2. /\ queue[a] \in Seq(Goroutines) /\ Once(queue[a]) /\ ~In(g, queue[a])
      /\ \A h \in Goroutines : woken[h] # g
  BY <1>1, SemaAssumption DEF Inv, TypeInv, Lists, QueueInv, WokenInv
<1>3. /\ queue'[a] = <<g>> \o queue[a] \/ queue'[a] = Append(queue[a], g)
      /\ \A b \in Addrs \ {a} : queue'[b] = queue[b]
      /\ DOMAIN queue' = Addrs /\ queue' = [queue EXCEPT ![a] = queue'[a]]
  BY <1>1 DEF Inv, TypeInv
<1>4. /\ queue'[a] \in Seq(Goroutines) /\ Once(queue'[a])
      /\ \A x : In(x, queue'[a]) <=> x = g \/ In(x, queue[a])
  BY <1>2, <1>3, Joins
<1> HIDE DEF a
<1>5. TypeInv'
  <2>1. queue' \in [Addrs -> Seq(Goroutines)]
    BY <1>1, <1>3, <1>4 DEF Inv, TypeInv
  <2>2. QED
    BY <1>1, <2>1 DEF Inv, TypeInv, Pcs
<1>6. AddrInv' /\ TicketInv'
  BY <1>1 DEF Inv, TypeInv, AddrInv, TicketInv
<1>7. WokenInv'
  BY <1>1, <1>2 DEF Inv, TypeInv, Lists, WokenInv, OnlyMoves
<1>8. QueueInv'
  <2> SUFFICES ASSUME NEW b \in Addrs
               PROVE  /\ Once(queue'[b])
                      /\ \A x \in Goroutines : In(x, queue'[b]) =>
                            /\ pc'[x] = "parked" /\ addr'[x] = b /\ ~ticket'[x]
                            /\ \A h \in Goroutines : woken'[h] # x
    BY DEF QueueInv
  <2>1. CASE b = a
    BY <1>1, <1>2, <1>4, <2>1 DEF Inv, Lists, QueueInv, OnlyMoves
  <2>2. CASE b # a
    BY <1>1, <1>3, <2>2 DEF Inv, Lists, QueueInv, OnlyMoves
  <2>3. QED
    BY <2>1, <2>2
<1>9. ParkedInv'
  <2> SUFFICES ASSUME NEW x \in Goroutines, pc'[x] = "parked"
               PROVE  In(x, queue'[addr'[x]]) \/ \E h \in Goroutines : woken'[h] = x
    BY DEF ParkedInv
  <2>1. CASE x = g
    BY <1>1, <1>4, <2>1
  <2>2. CASE x # g
    <3>1. pc[x] = "parked" /\ addr'[x] = addr[x] /\ addr[x] \in Addrs
      BY <1>1, <2>2 DEF OnlyMoves, Inv, TypeInv, AddrInv
    <3>2. QED
      BY <1>1, <1>3, <1>4, <3>1 DEF Inv, Lists, ParkedInv
  <2>3. QED
    BY <2>1, <2>2
<1>10. CountInv'
  <2>1. Waiting' = Waiting
    BY <1>1, <1>2 DEF Waiting, OnlyMoves
  <2>2. QED
    BY <1>1, <2>1 DEF Inv, CountInv
<1>11. UnitInv'
  <2> SUFFICES ASSUME NEW b \in Addrs PROVE (queue[b] # <<>> => val[b] <= Cardinality(FreeHanded(b)))'
    BY DEF UnitInv
  <2>1. FreeHanded(b)' = FreeHanded(b)
    BY <1>1 DEF FreeHanded, OnlyMoves
  <2>2. val'[b] = val[b] /\ val[b] \in Nat /\ (queue'[b] # <<>> => queue[b] # <<>> \/ val'[b] = 0)
    BY <1>1, <1>3 DEF Inv, TypeInv
  <2>3. QED
    BY <2>1, <2>2, UnitKept
<1>12. QED
  BY <1>5, <1>6, <1>7, <1>8, <1>9, <1>10, <1>11 DEF Inv, Lists

-----------------------------------------------------------------------------
(***************************************************************************)
(* semrelease1.                                                            *)
(***************************************************************************)
LEMMA semreleaseKeeps ==
    ASSUME Inv, NEW g \in Goroutines, NEW a \in Addrs, NEW o \in BOOLEAN, semrelease(g, a, o)
    PROVE  Inv'
<1> USE DEF semrelease, Calls, Goto
<1>1. pc[g] = "idle" /\ pc'[g] = "added" /\ addr'[g] = a /\ OnlyMoves(g) /\ ~ticket[g]
  BY DEF Inv, TypeInv, TicketInv, OnlyMoves
<1>2. TypeInv'
  <2>1. val' \in [Addrs -> Nat]
    BY DEF Inv, TypeInv
  <2>2. QED
    BY <2>1 DEF Inv, TypeInv, Pcs
<1>3. UnitInv'
  <2> SUFFICES ASSUME NEW b \in Addrs PROVE (queue[b] # <<>> => val[b] <= Cardinality(FreeHanded(b)))'
    BY DEF UnitInv
  <2>1. FreeHanded(b)' \ {g} = FreeHanded(b) \ {g} /\ g \notin FreeHanded(b)
    BY <1>1, PlainFree DEF Busy, FreeHanded
  <2>2. CASE b = a
    <3>1. FreeHanded(b)' = FreeHanded(b) \cup {g}
      BY <1>1, <2>1, <2>2 DEF FreeHanded
    <3>2. val'[b] \in Nat /\ val'[b] <= val[b] + 1
      BY <2>2 DEF Inv, TypeInv
    <3>3. QED
      BY <2>1, <3>1, <3>2, UnitKept
  <2>3. CASE b # a
    <3>1. FreeHanded(b)' = FreeHanded(b) /\ val'[b] = val[b]
      BY <1>1, <2>1, <2>3 DEF FreeHanded, Inv, TypeInv
    <3>2. QED
      BY <3>1 DEF Inv, UnitInv
  <2>4. QED
    BY <2>2, <2>3
<1>4. QED
  BY <1>1, <1>2, <1>3, PlainStep, SemaAssumption DEF Busy

\* Returning without looking is safe: no list has anybody in it, or not this one.
LEMMA ReleaseReturns ==
    ASSUME Inv, NEW g \in Goroutines, pc[g] \in {"added", "release"}, Returns(g),
           UNCHANGED <<val, nwait, queue, ticket, woken>>, nwait = 0 \/ queue[addr[g]] = <<>>
    PROVE  Inv'
<1> USE DEF Returns, Goto
<1>1. /\ pc'[g] = "idle" /\ addr'[g] = None /\ OnlyMoves(g) /\ ~ticket[g]
      /\ addr[g] \in Addrs
  BY DEF Inv, TypeInv, TicketInv, AddrInv, OnlyMoves
<1>2. TypeInv'
  BY DEF Inv, TypeInv, Pcs
<1>3. UnitInv'
  <2> SUFFICES ASSUME NEW b \in Addrs PROVE (queue[b] # <<>> => val[b] <= Cardinality(FreeHanded(b)))'
    BY DEF UnitInv
  <2>1. FreeHanded(b)' \ {g} = FreeHanded(b) \ {g} /\ g \notin FreeHanded(b)'
    BY <1>1, SemaAssumption, PlainFree DEF Busy, FreeHanded
  <2>2. queue[addr[g]] = <<>>
    BY <1>1, SomebodyWaits
  <2>3. CASE b = addr[g]
    BY <2>2, <2>3
  <2>4. CASE b # addr[g]
    <3>1. FreeHanded(b)' = FreeHanded(b)
      BY <2>1, <2>4 DEF FreeHanded
    <3>2. QED
      BY <3>1 DEF Inv, UnitInv
  <2>5. QED
    BY <2>3, <2>4
<1>4. QED
  BY <1>1, <1>2, <1>3, PlainStep DEF Busy

LEMMA NoWaitersKeeps ==
    ASSUME Inv, NEW g \in Goroutines, NoWaiters(g) PROVE Inv'
<1>1. CASE nwait = 0
  BY <1>1, ReleaseReturns DEF NoWaiters
<1>2. CASE nwait # 0
  <2> USE <1>2 DEF NoWaiters, Goto
  <2>1. pc[g] = "added" /\ pc'[g] = "release" /\ OnlyMoves(g) /\ ~ticket[g]
    BY DEF Inv, TypeInv, TicketInv, OnlyMoves
  <2>2. TypeInv'
    BY DEF Inv, TypeInv, Pcs
  <2>3. UnitInv'
    <3> SUFFICES ASSUME NEW b \in Addrs PROVE (queue[b] # <<>> => val[b] <= Cardinality(FreeHanded(b)))'
      BY DEF UnitInv
    <3>1. FreeHanded(b)' \ {g} = FreeHanded(b) \ {g} /\ (g \in FreeHanded(b) <=> g \in FreeHanded(b)')
      BY <2>1, PlainFree DEF Busy, FreeHanded
    <3>2. FreeHanded(b)' = FreeHanded(b)
      BY <3>1
    <3>3. QED
      BY <3>2 DEF Inv, UnitInv
  <2>4. QED
    BY <2>1, <2>2, <2>3, PlainStep DEF Busy, Inv, AddrInv
<1>3. QED
  BY <1>1, <1>2

\* The first of the list is dequeued.
LEMMA DequeueKeeps ==
    ASSUME Inv, NEW g \in Goroutines, LockRelease(g), ~(nwait = 0 \/ queue[addr[g]] = <<>>) PROVE Inv'
<1> USE DEF LockRelease, Rest, Goto
<1> DEFINE a == addr[g]
           w == Head(queue[a])
<1>1. /\ pc[g] = "release" /\ pc'[g] = "wake" /\ OnlyMoves(g) /\ ~ticket[g]
      /\ a \in Addrs /\ addr' = addr /\ ticket' = ticket /\ val' = val
      /\ nwait' = nwait - 1 /\ queue[a] # <<>>
  BY DEF Inv, TypeInv, TicketInv, AddrInv, OnlyMoves
<1>2. queue[a] \in Seq(Goroutines) /\ Once(queue[a])
  BY <1>1 DEF Inv, TypeInv, Lists, QueueInv
<1>3. /\ w \in Goroutines /\ In(w, queue[a])
      /\ Tail(queue[a]) \in Seq(Goroutines) /\ Once(Tail(queue[a]))
      /\ \A x : In(x, Tail(queue[a])) <=> In(x, queue[a]) /\ x # w
  BY <1>1, <1>2, LeavesList
<1>4. /\ woken' = [woken EXCEPT ![g] = w] /\ queue' = [queue EXCEPT ![a] = Tail(queue[a])]
      /\ woken'[g] = w /\ \A h \in Goroutines \ {g} : woken'[h] = woken[h]
      /\ queue'[a] = Tail(queue[a]) /\ \A b \in Addrs \ {a} : queue'[b] = queue[b]
  BY <1>1, <1>2 DEF Inv, TypeInv
<1> HIDE DEF a, w
<1>5. pc[w] = "parked" /\ addr[w] = a /\ ~ticket[w] /\ (\A h \in Goroutines : woken[h] # w) /\ w # g
  BY <1>1, <1>3 DEF Inv, Lists, QueueInv
<1>6. w # None /\ woken[g] = None /\ addr[g] = a
  BY <1>1, <1>3, SemaAssumption DEF Inv, Lists, WokenInv, a
<1>7. CountInv' /\ nwait' \in Nat
  <2>1. Waiting' = Waiting \ {w} /\ w \in Waiting
    <3>1. w \in Waiting /\ w \notin Waiting'
      BY <1>1, <1>3, <1>4, <1>5 DEF Waiting, OnlyMoves
    <3>2. ASSUME NEW x \in Goroutines, x # w PROVE x \in Waiting' <=> x \in Waiting
      <4>1. (\A h \in Goroutines : woken'[h] # x) <=> (\A h \in Goroutines : woken[h] # x)
        BY <1>4, <1>6, <3>2, SemaAssumption
      <4>2. CASE x = g
        BY <1>1, <4>2 DEF Waiting
      <4>3. CASE x # g
        BY <1>1, <4>1, <4>3 DEF Waiting, OnlyMoves
      <4>4. QED
        BY <4>2, <4>3
    <3>3. Waiting \subseteq Goroutines /\ Waiting' \subseteq Goroutines
      BY DEF Waiting
    <3>4. QED
      BY <3>1, <3>2, <3>3
  <2>2. Waiting \in SUBSET Goroutines /\ Waiting' \in SUBSET Goroutines
    BY DEF Waiting
  <2>3. QED
    BY <1>1, <2>1, <2>2, Fin, FS_RemoveElement DEF Inv, CountInv
<1>8. TypeInv'
  <2>1. queue' \in [Addrs -> Seq(Goroutines)] /\ woken' \in [Goroutines -> Goroutines \cup {None}]
    BY <1>1, <1>3, <1>4 DEF Inv, TypeInv
  <2>2. QED
    BY <1>1, <1>7, <2>1 DEF Inv, TypeInv, Pcs
<1>9. AddrInv' /\ TicketInv'
  BY <1>1 DEF Inv, TypeInv, AddrInv, TicketInv
<1>10. WokenInv'
  <2> SUFFICES ASSUME NEW h \in Goroutines
               PROVE  /\ woken'[h] # None <=> pc'[h] \in {"wake", "ready"}
                      /\ woken'[h] # None =>
                            /\ pc'[woken'[h]] = "parked" /\ addr'[woken'[h]] = addr'[h]
                            /\ \A k \in Goroutines : woken'[k] = woken'[h] => k = h
                      /\ pc'[h] = "wake" => ~ticket'[woken'[h]]
    BY DEF WokenInv
  <2>1. CASE h = g
    BY <1>1, <1>3, <1>4, <1>5, <1>6, <2>1 DEF OnlyMoves
  <2>2. CASE h # g
    <3>1. woken'[h] = woken[h] /\ pc'[h] = pc[h] /\ woken[h] # w
      BY <1>1, <1>4, <1>5, <2>2 DEF OnlyMoves
    <3>2. woken[h] # None => woken[h] \in Goroutines \ {g}
      BY <1>1 DEF Inv, TypeInv, Lists, WokenInv
    <3>3. QED
      BY <1>1, <1>4, <3>1, <3>2 DEF Inv, Lists, WokenInv, OnlyMoves
  <2>3. QED
    BY <2>1, <2>2
<1>11. QueueInv'
  <2> SUFFICES ASSUME NEW b \in Addrs
               PROVE  /\ Once(queue'[b])
                      /\ \A x \in Goroutines : In(x, queue'[b]) =>
                            /\ pc'[x] = "parked" /\ addr'[x] = b /\ ~ticket'[x]
                            /\ \A h \in Goroutines : woken'[h] # x
    BY DEF QueueInv
  <2>1. Once(queue'[b]) /\ \A x : In(x, queue'[b]) => In(x, queue[b]) /\ (b = a => x # w)
    BY <1>3, <1>4 DEF Inv, Lists, QueueInv
  <2>2. ASSUME NEW x \in Goroutines, In(x, queue'[b])
        PROVE  /\ pc'[x] = "parked" /\ addr'[x] = b /\ ~ticket'[x]
               /\ \A h \in Goroutines : woken'[h] # x
    <3>1. /\ pc[x] = "parked" /\ addr[x] = b /\ ~ticket[x]
          /\ \A h \in Goroutines : woken[h] # x
      BY <2>1, <2>2 DEF Inv, Lists, QueueInv
    <3>2. x # g /\ x # w
      BY <1>1, <1>5, <2>1, <2>2, <3>1
    <3>3. QED
      BY <1>1, <1>4, <3>1, <3>2 DEF OnlyMoves
  <2>3. QED
    BY <2>1, <2>2
<1>12. ParkedInv'
  <2> SUFFICES ASSUME NEW x \in Goroutines, pc'[x] = "parked"
               PROVE  In(x, queue'[addr'[x]]) \/ \E h \in Goroutines : woken'[h] = x
    BY DEF ParkedInv
  <2>1. CASE x = w
    BY <1>4, <2>1
  <2>2. CASE x # w
    <3>1. pc[x] = "parked" /\ addr'[x] = addr[x] /\ addr[x] \in Addrs
      BY <1>1 DEF OnlyMoves, Inv, TypeInv, AddrInv
    <3>2. CASE In(x, queue[addr[x]])
      BY <1>3, <1>4, <2>2, <3>1, <3>2
    <3>3. CASE \E h \in Goroutines : woken[h] = x
      BY <1>4, <1>6, <3>3, SemaAssumption
    <3>4. QED
      BY <3>1, <3>2, <3>3 DEF Inv, Lists, ParkedInv
  <2>3. QED
    BY <2>1, <2>2
<1>13. UnitInv'
  <2> SUFFICES ASSUME NEW b \in Addrs PROVE (queue[b] # <<>> => val[b] <= Cardinality(FreeHanded(b)))'
    BY DEF UnitInv
  <2>1. FreeHanded(b)' = FreeHanded(b)
    BY <1>1, <1>4 DEF FreeHanded, OnlyMoves
  <2>2. val'[b] = val[b] /\ val[b] \in Nat /\ (queue'[b] # <<>> => queue[b] # <<>>)
    BY <1>1, <1>4 DEF Inv, TypeInv
  <2>3. QED
    BY <2>1, <2>2, UnitKept
<1>14. QED
  BY <1>7, <1>8, <1>9, <1>10, <1>11, <1>12, <1>13 DEF Inv, Lists

LEMMA LockReleaseKeeps ==
    ASSUME Inv, NEW g \in Goroutines, LockRelease(g) PROVE Inv'
<1>1. CASE nwait = 0 \/ queue[addr[g]] = <<>>
  BY <1>1, ReleaseReturns DEF LockRelease
<1>2. QED
  BY <1>1, DequeueKeeps

\* What a releaser with a waiter knows of it.
LEMMA Target ==
    ASSUME Inv, NEW g \in Goroutines, pc[g] \in {"wake", "ready"}
    PROVE  /\ woken[g] \in Goroutines \ {g} /\ pc[woken[g]] = "parked"
           /\ addr[woken[g]] = addr[g] /\ addr[g] \in Addrs
           /\ \A k \in Goroutines : woken[k] = woken[g] => k = g
           /\ \A b \in Addrs : ~In(woken[g], queue[b])
BY DEF Inv, TypeInv, AddrInv, Lists, WokenInv, QueueInv

\* With a ticket or without: the waiter keeps its place, the unit is accounted for.
LEMMA HandoffKeeps ==
    ASSUME Inv, NEW g \in Goroutines, Handoff(g) \/ NoHandoff(g) PROVE Inv'
<1> USE DEF Handoff, NoHandoff, Pays, Goto
<1> DEFINE w == woken[g]
           a == addr[g]
<1>1. /\ pc[g] = "wake" /\ pc'[g] = "ready" /\ UNCHANGED <<nwait, queue, addr, opt, woken>>
      /\ (\A h \in Goroutines \ {g} : pc'[h] = pc[h]) /\ pc' \in [Goroutines -> Pcs]
  BY DEF Inv, TypeInv, Pcs
<1>2. /\ w \in Goroutines \ {g} /\ pc[w] = "parked" /\ addr[w] = a /\ a \in Addrs
      /\ (\A k \in Goroutines : woken[k] = w => k = g) /\ \A b \in Addrs : ~In(w, queue[b])
  BY <1>1, Target
<1>3. ~ticket[w] /\ w # None
  BY <1>1, SemaAssumption DEF Inv, Lists, WokenInv
<1>4. \A h \in Goroutines \ {w} : ticket'[h] = ticket[h]
  BY <1>2 DEF Inv, TypeInv
<1>5. TypeInv'
  <2>1. val' \in [Addrs -> Nat]
    BY <1>2 DEF Inv, TypeInv
  <2>2. ticket' \in [Goroutines -> BOOLEAN]
    BY DEF Inv, TypeInv
  <2>3. QED
    BY <1>1, <2>1, <2>2 DEF Inv, TypeInv
<1>6. \/ ticket'[w] /\ val'[a] = val[a] - 1 /\ val[a] > 0 /\ \A b \in Addrs \ {a} : val'[b] = val[b]
      \/ ~ticket'[w] /\ val' = val
  BY <1>2, <1>3 DEF Inv, TypeInv
<1> HIDE DEF w
<1>7. AddrInv' /\ TicketInv'
  BY <1>1, <1>2, <1>4 DEF Inv, AddrInv, TicketInv
<1>8. WokenInv'
  BY <1>1, <1>2, <1>4 DEF Inv, TypeInv, Lists, WokenInv
<1>9. QueueInv'
  BY <1>1, <1>2, <1>4 DEF Inv, Lists, QueueInv
<1>10. ParkedInv'
  BY <1>1 DEF Inv, Lists, ParkedInv
<1>11. CountInv'
  <2>1. Waiting' = Waiting
    BY <1>1 DEF Waiting
  <2>2. QED
    BY <1>1, <2>1 DEF Inv, CountInv
<1>12. UnitInv'
  <2> SUFFICES ASSUME NEW b \in Addrs PROVE (queue[b] # <<>> => val[b] <= Cardinality(FreeHanded(b)))'
    BY DEF UnitInv
  <2>1. ASSUME NEW h \in Goroutines, h # g PROVE h \in FreeHanded(b)' <=> h \in FreeHanded(b)
    <3>1. CASE h = w
      BY <1>1, <1>2, <3>1 DEF FreeHanded
    <3>2. CASE h # w
      <4>1. pc[h] = "ready" => woken[h] \in Goroutines \ {w}
        BY <1>2, <2>1, Target
      <4>2. QED
        BY <1>1, <1>4, <2>1, <3>2, <4>1 DEF FreeHanded
    <3>3. QED
      BY <3>1, <3>2
  <2>2. FreeHanded(b) \subseteq Goroutines /\ FreeHanded(b)' \subseteq Goroutines
    BY DEF FreeHanded
  <2>3. g \in FreeHanded(b)' <=> b = a /\ ~ticket'[w]
    BY <1>1 DEF FreeHanded, w
  <2>4. g \in FreeHanded(b) <=> b = a
    BY <1>1 DEF FreeHanded
  <2>5. val'[b] \in Nat /\ val[b] \in Nat
    BY <1>5 DEF Inv, TypeInv
  <2>6. CASE b = a /\ ticket'[w]
    <3>1. FreeHanded(b)' = FreeHanded(b) \ {g}
      BY <2>1, <2>2, <2>3, <2>6
    <3>2. val'[b] < val[b]
      BY <1>6, <2>5, <2>6
    <3>3. QED
      BY <1>1, <2>5, <3>1, <3>2, UnitKept
  <2>7. CASE ~(b = a /\ ticket'[w])
    <3>1. FreeHanded(b)' = FreeHanded(b)
      BY <2>1, <2>2, <2>3, <2>4, <2>7
    <3>2. val'[b] = val[b]
      BY <1>6, <2>7
    <3>3. QED
      BY <1>1, <3>1, <3>2 DEF Inv, UnitInv
  <2>8. QED
    BY <2>6, <2>7
<1>13. QED
  BY <1>5, <1>7, <1>8, <1>9, <1>10, <1>11, <1>12 DEF Inv, Lists

\* The waiter takes the releaser's place.
LEMMA readyWithTimeKeeps ==
    ASSUME Inv, NEW g \in Goroutines, readyWithTime(g) PROVE Inv'
<1> USE DEF readyWithTime
<1> DEFINE w == woken[g]
           a == addr[g]
<1>1. pc[g] = "ready" /\ UNCHANGED <<val, nwait, queue, ticket>>
  OBVIOUS
<1>2. /\ w \in Goroutines \ {g} /\ pc[w] = "parked" /\ addr[w] = a /\ a \in Addrs
      /\ (\A k \in Goroutines : woken[k] = w => k = g) /\ \A b \in Addrs : ~In(w, queue[b])
  BY <1>1, Target
<1>3. /\ pc'[g] = "idle" /\ pc'[w] = "woken" /\ \A h \in Goroutines \ {g, w} : pc'[h] = pc[h]
      /\ addr'[g] = None /\ \A h \in Goroutines \ {g} : addr'[h] = addr[h]
      /\ woken'[g] = None /\ \A h \in Goroutines \ {g} : woken'[h] = woken[h]
  BY <1>2 DEF Inv, TypeInv
<1>4. TypeInv'
  BY <1>2 DEF Inv, TypeInv, Pcs
<1>5. w # None /\ ~ticket[g] /\ a # None
  BY <1>1, <1>2, SemaAssumption DEF Inv, TicketInv
<1> HIDE DEF w, a, readyWithTime
<1>6. AddrInv' /\ TicketInv'
  BY <1>1, <1>2, <1>3, <1>5 DEF Inv, AddrInv, TicketInv
<1>7. WokenInv'
  <2> SUFFICES ASSUME NEW h \in Goroutines
               PROVE  /\ woken'[h] # None <=> pc'[h] \in {"wake", "ready"}
                      /\ woken'[h] # None =>
                            /\ pc'[woken'[h]] = "parked" /\ addr'[woken'[h]] = addr'[h]
                            /\ \A k \in Goroutines : woken'[k] = woken'[h] => k = h
                      /\ pc'[h] = "wake" => ~ticket'[woken'[h]]
    BY DEF WokenInv
  <2>1. CASE h = g
    BY <1>3, <2>1
  <2>2. CASE h = w
    <3>1. woken[w] = None
      BY <1>2 DEF Inv, Lists, WokenInv
    <3>2. QED
      BY <1>2, <1>3, <2>2, <3>1
  <2>3. CASE h # g /\ h # w
    <3>1. woken[h] # None => woken[h] \in Goroutines \ {g, w}
      BY <1>1, <1>2, <2>3 DEF Inv, TypeInv, Lists, WokenInv
    <3>2. woken'[h] = woken[h] /\ pc'[h] = pc[h] /\ addr'[h] = addr[h]
      BY <1>3, <2>3
    <3>3. woken[h] # None => pc'[woken[h]] = pc[woken[h]] /\ addr'[woken[h]] = addr[woken[h]]
      BY <1>3, <3>1
    <3>4. woken[h] # None => \A k \in Goroutines : woken'[k] = woken[h] => woken[k] = woken[h]
      BY <1>3
    <3>5. QED
      BY <1>1, <3>2, <3>3, <3>4 DEF Inv, Lists, WokenInv
  <2>4. QED
    BY <2>1, <2>2, <2>3
<1>8. QueueInv'
  <2>1. \A b \in Addrs : ~In(g, queue[b]) /\ ~In(w, queue[b])
    BY <1>1, <1>2 DEF Inv, Lists, QueueInv
  <2>2. \A x \in Goroutines : (\A h \in Goroutines : woken[h] # x) => \A h \in Goroutines : woken'[h] # x
    BY <1>3, SemaAssumption
  <2>3. QED
    BY <1>1, <1>3, <2>1, <2>2 DEF Inv, Lists, QueueInv
<1>9. ParkedInv'
  <2> SUFFICES ASSUME NEW x \in Goroutines, pc'[x] = "parked"
               PROVE  In(x, queue'[addr'[x]]) \/ \E h \in Goroutines : woken'[h] = x
    BY DEF ParkedInv
  <2>1. x # g /\ x # w /\ pc[x] = "parked" /\ addr'[x] = addr[x]
    BY <1>2, <1>3
  <2>2. \A h \in Goroutines : woken[h] = x => woken'[h] = x
    BY <1>3, <2>1 DEF w
  <2>3. QED
    BY <1>1, <2>1, <2>2 DEF Inv, Lists, ParkedInv
<1>10. CountInv'
  <2>1. ASSUME NEW x \in Goroutines PROVE x \in Waiting' <=> x \in Waiting
    <3>1. CASE x = g
      BY <1>1, <1>3, <3>1 DEF Waiting
    <3>2. CASE x = w
      <4>1. x \notin Waiting
        BY <1>2, <3>2 DEF Waiting, w
      <4>2. x \notin Waiting'
        BY <1>3, <3>2 DEF Waiting
      <4>3. QED
        BY <4>1, <4>2
    <3>3. CASE x # g /\ x # w
      <4>1. (\A h \in Goroutines : woken'[h] # x) <=> (\A h \in Goroutines : woken[h] # x)
        BY <1>3, <3>3, SemaAssumption DEF w
      <4>2. QED
        BY <1>3, <3>3, <4>1 DEF Waiting
    <3>4. QED
      BY <3>1, <3>2, <3>3
  <2>2. Waiting' = Waiting
    BY <2>1 DEF Waiting
  <2>3. QED
    BY <1>1, <2>2 DEF Inv, CountInv
<1>11. UnitInv'
  <2> SUFFICES ASSUME NEW b \in Addrs PROVE (queue[b] # <<>> => val[b] <= Cardinality(FreeHanded(b)))'
    BY DEF UnitInv
  <2>1. ASSUME NEW h \in Goroutines, h # g, h # w PROVE h \in FreeHanded(b)' <=> h \in FreeHanded(b)
    BY <1>1, <1>3, <2>1 DEF FreeHanded
  <2>2. FreeHanded(b) \in SUBSET Goroutines /\ FreeHanded(b)' \in SUBSET Goroutines
    BY DEF FreeHanded
  <2>3. g \notin FreeHanded(b)' /\ w \notin FreeHanded(b)
    BY <1>2, <1>3 DEF FreeHanded
  <2>4. g \in FreeHanded(b) <=> b = a /\ ~ticket[w]
    BY <1>1 DEF FreeHanded, w, a
  <2>5. w \in FreeHanded(b)' <=> b = a /\ ~ticket[w]
    BY <1>1, <1>2, <1>3 DEF FreeHanded
  <2>6. CASE b = a /\ ~ticket[w]
    <3>1. FreeHanded(b)' = (FreeHanded(b) \ {g}) \cup {w}
      BY <1>2, <2>1, <2>2, <2>3, <2>5, <2>6
    <3>2. IsFiniteSet(FreeHanded(b)) /\ Cardinality(FreeHanded(b)) \in Nat
      BY <2>2, Fin
    <3>3. /\ IsFiniteSet(FreeHanded(b) \ {g})
          /\ Cardinality(FreeHanded(b) \ {g}) = Cardinality(FreeHanded(b)) - 1
      BY <2>4, <2>6, <3>2, FS_RemoveElement
    <3>4. Cardinality(FreeHanded(b)') = Cardinality(FreeHanded(b)) - 1 + 1
      BY <2>3, <3>1, <3>3, FS_AddElement
    <3>5. QED
      BY <1>1, <3>2, <3>4 DEF Inv, UnitInv
  <2>7. CASE ~(b = a /\ ~ticket[w])
    <3>1. FreeHanded(b)' = FreeHanded(b)
      BY <2>1, <2>2, <2>3, <2>4, <2>5, <2>7
    <3>2. QED
      BY <1>1, <3>1 DEF Inv, UnitInv
  <2>8. QED
    BY <2>6, <2>7
<1>12. QED
  BY <1>4, <1>6, <1>7, <1>8, <1>9, <1>10, <1>11 DEF Inv, Lists

LEMMA InvStep == Inv /\ [Next]_vars => Inv'
<1> SUFFICES ASSUME Inv, [Next]_vars PROVE Inv'
  OBVIOUS
<1>1. CASE UNCHANGED vars
  <2>1. Waiting' = Waiting /\ \A a \in Addrs : FreeHanded(a)' = FreeHanded(a)
    BY <1>1 DEF vars, Waiting, FreeHanded
  <2>2. QED
    BY <1>1, <2>1 DEF vars, Inv, TypeInv, AddrInv, TicketInv, Lists, WokenInv, QueueInv,
                      ParkedInv, CountInv, UnitInv
<1>2. CASE Next
  <2>1. PICK g \in Goroutines :
            \/ Runs(g)
            \/ \E a \in Addrs, o \in BOOLEAN : semacquire(g, a, o) \/ semrelease(g, a, o)
    BY <1>2 DEF Next
  <2>2. QED
    BY <2>1, semacquireKeeps, semreleaseKeeps, TryUnlockedKeeps, HasTicketKeeps, LockAcquireKeeps,
       TryLockedKeeps, EnqueueKeeps, NoWaitersKeeps, LockReleaseKeeps, HandoffKeeps,
       readyWithTimeKeeps DEF Runs
<1>3. QED
  BY <1>1, <1>2

\* No wake-up is missed, for any number of goroutines, on any number of addresses
\* that share a root: the units of an address with waiters are covered by those
\* in flight, though semrelease1 looks at nwait without the lock, and whoever is
\* parked is in its list or about to be made ready.
THEOREM NoWakeupMissed == Spec => []NoMissedWakeup
<1>1. Inv => NoMissedWakeup
  <2> SUFFICES ASSUME Inv PROVE NoMissedWakeup
    OBVIOUS
  <2>1. ASSUME NEW a \in Addrs, queue[a] # <<>> PROVE val[a] <= Cardinality(InFlight(a))
    <3>1. InFlight(a) \in SUBSET Goroutines /\ FreeHanded(a) \in SUBSET InFlight(a)
      BY DEF InFlight, FreeHanded
    <3>2. FreeHanded(a) \in SUBSET Goroutines
      BY <3>1
    <3>3. /\ IsFiniteSet(InFlight(a)) /\ Cardinality(InFlight(a)) \in Nat
          /\ Cardinality(FreeHanded(a)) \in Nat /\ val[a] \in Nat
      BY <3>1, <3>2, Fin DEF Inv, TypeInv
    <3>4. Cardinality(FreeHanded(a)) <= Cardinality(InFlight(a))
      BY <3>1, <3>3, FS_Subset
    <3>5. val[a] <= Cardinality(FreeHanded(a))
      BY <2>1 DEF Inv, UnitInv
    <3>6. QED
      BY <3>3, <3>4, <3>5
  <2>2. ASSUME NEW a \in Addrs, NEW g \in Parked(a)
        PROVE  \/ \E i \in DOMAIN queue[a] : queue[a][i] = g
               \/ \E h \in Goroutines : woken[h] = g
    <3>1. queue[a] \in Seq(Goroutines) /\ DOMAIN queue[a] = 1 .. Len(queue[a])
      BY LenProperties DEF Inv, TypeInv
    <3>2. QED
      BY <3>1 DEF Parked, Inv, Lists, ParkedInv, In
  <2>3. \A g \in Goroutines : pc[g] = "wake" => ~ticket[woken[g]]
    BY DEF Inv, Lists, WokenInv
  <2>4. QED
    BY <2>1, <2>2, <2>3 DEF NoMissedWakeup
<1>2. QED
  BY <1>1, InitInv, InvStep, PTL DEF Spec

-----------------------------------------------------------------------------
(***************************************************************************)
(* The refinement: a unit is counted in the word or in a ticket.           *)
(***************************************************************************)
Units == [a \in Addrs |-> val[a] + Cardinality(Tickets(a))]
Does == [g \in Goroutines |-> IF Acquiring(g) THEN addr[g]
                              ELSE IF pc[g] = "idle" THEN None ELSE "giving"]

DoesFor(p, x) == IF p \in {"easy", "acquire", "try", "parked", "woken"} THEN x
                 ELSE IF p = "idle" THEN None ELSE "giving"

LEMMA DoesAfter ==
    ASSUME NEW g \in Goroutines,
           \A h \in Goroutines \ {g} : DoesFor(pc'[h], addr'[h]) = DoesFor(pc[h], addr[h])
    PROVE  Does[g] = DoesFor(pc[g], addr[g]) /\ Does' = [Does EXCEPT ![g] = DoesFor(pc'[g], addr'[g])]
<1>1. /\ Does = [h \in Goroutines |-> DoesFor(pc[h], addr[h])]
      /\ Does' = [h \in Goroutines |-> DoesFor(pc'[h], addr'[h])]
  BY DEF Does, Acquiring, DoesFor
<1>2. QED
  BY <1>1

LEMMA UnitsType ==
    ASSUME Inv PROVE \A a \in Addrs : Cardinality(Tickets(a)) \in Nat /\ IsFiniteSet(Tickets(a)) /\ val[a] \in Nat
<1>1. \A a \in Addrs : Tickets(a) \in SUBSET Goroutines
  BY DEF Tickets
<1>2. QED
  BY <1>1, Fin DEF Inv, TypeInv

LEMMA UnitsAt ==
    \A a \in Addrs : /\ Units[a] = val[a] + Cardinality(Tickets(a))
                     /\ Units'[a] = val'[a] + Cardinality(Tickets(a)')
BY DEF Units

\* The tickets are where they were.
LEMMA SameTickets ==
    ASSUME Inv, NEW g \in Goroutines, ~ticket[g], ticket' = ticket,
           \A h \in Goroutines \ {g} : addr'[h] = addr[h]
    PROVE  \A a \in Addrs : Tickets(a)' = Tickets(a)
BY DEF Tickets

LEMMA TakeStep ==
    ASSUME Inv, NEW g \in Goroutines, TryUnlocked(g) \/ TryLocked(g), pc'[g] = "idle",
           NEW a \in Addrs, a = addr[g]
    PROVE  Abstract!Take(g, a)
<1>1. /\ pc[g] \in {"easy", "woken", "try"} /\ a \in Addrs /\ ~ticket[g] /\ ticket' = ticket
      /\ addr'[g] = None /\ OnlyMoves(g) /\ val[a] > 0 /\ val' = [val EXCEPT ![a] = val[a] - 1]
  BY DEF TryUnlocked, TryLocked, cansemacquire, cannot, Returns, Goto, Inv, TypeInv, AddrInv, TicketInv, OnlyMoves
<1>2. \A b \in Addrs : Tickets(b)' = Tickets(b)
  BY <1>1, SameTickets DEF OnlyMoves
<1>3. Does[g] = a /\ Does' = [Does EXCEPT ![g] = None]
  BY <1>1, DoesAfter DEF DoesFor, OnlyMoves
<1>4. Units[a] > 0
  BY <1>1, UnitsType, UnitsAt
<1>5. Units' = [Units EXCEPT ![a] = Units[a] - 1]
  <2>1. ASSUME NEW b \in Addrs PROVE Units'[b] = IF b = a THEN Units[b] - 1 ELSE Units[b]
    <3>1. val'[b] = IF b = a THEN val[b] - 1 ELSE val[b]
      BY <1>1 DEF Inv, TypeInv
    <3>2. QED
      BY <1>2, <3>1, UnitsType, UnitsAt
  <2>2. QED
    BY <2>1 DEF Units
<1>6. QED
  BY <1>3, <1>4, <1>5 DEF Abstract!Take, Abstract!Now, Units, Does

LEMMA TicketTakeStep ==
    ASSUME Inv, NEW g \in Goroutines, HasTicket(g), NEW a \in Addrs, a = addr[g]
    PROVE  Abstract!Take(g, a)
<1>1. /\ pc[g] = "woken" /\ pc'[g] = "idle" /\ a \in Addrs /\ ticket[g] /\ ~ticket'[g]
      /\ addr'[g] = None /\ OnlyMoves(g) /\ val' = val
  BY DEF HasTicket, Returns, Goto, Inv, TypeInv, AddrInv, OnlyMoves
<1>2. /\ \A b \in Addrs : Tickets(b)' = IF b = a THEN Tickets(b) \ {g} ELSE Tickets(b)
      /\ g \in Tickets(a)
  BY <1>1 DEF Tickets, OnlyMoves
<1>3. /\ \A b \in Addrs : Cardinality(Tickets(b)') = IF b = a THEN Cardinality(Tickets(b)) - 1
                                                    ELSE Cardinality(Tickets(b))
      /\ Cardinality(Tickets(a)) # 0
  BY <1>1, <1>2, UnitsType, FS_RemoveElement, FS_EmptySet
<1>4. Does[g] = a /\ Does' = [Does EXCEPT ![g] = None]
  BY <1>1, DoesAfter DEF DoesFor, OnlyMoves
<1>5. Units[a] > 0
  BY <1>1, <1>3, UnitsType, UnitsAt
<1>6. Units' = [Units EXCEPT ![a] = Units[a] - 1]
  <2>1. ASSUME NEW b \in Addrs PROVE Units'[b] = IF b = a THEN Units[b] - 1 ELSE Units[b]
    BY <1>1, <1>3, UnitsType, UnitsAt
  <2>2. QED
    BY <2>1 DEF Units
<1>7. QED
  BY <1>4, <1>5, <1>6 DEF Abstract!Take, Abstract!Now, Units, Does

LEMMA WantStep ==
    ASSUME Inv, NEW g \in Goroutines, NEW a \in Addrs, NEW o \in BOOLEAN, semacquire(g, a, o)
    PROVE  Abstract!Want(g, a)
<1>1. /\ pc[g] = "idle" /\ pc'[g] = "easy" /\ addr'[g] = a /\ OnlyMoves(g) /\ ~ticket[g]
      /\ ticket' = ticket /\ val' = val
  BY DEF semacquire, Calls, Goto, Inv, TypeInv, TicketInv, OnlyMoves
<1>2. \A b \in Addrs : Tickets(b)' = Tickets(b)
  BY <1>1, SameTickets DEF OnlyMoves
<1>3. Does[g] = None /\ Does' = [Does EXCEPT ![g] = a]
  BY <1>1, DoesAfter DEF DoesFor, OnlyMoves
<1>4. Units' = Units
  BY <1>1, <1>2 DEF Units
<1>5. QED
  BY <1>3, <1>4 DEF Abstract!Want, Abstract!Now, Units, Does

LEMMA GiveStep ==
    ASSUME Inv, NEW g \in Goroutines, NEW a \in Addrs, NEW o \in BOOLEAN, semrelease(g, a, o)
    PROVE  Abstract!Give(g, a)
<1>1. /\ pc[g] = "idle" /\ pc'[g] = "added" /\ OnlyMoves(g) /\ ~ticket[g]
      /\ ticket' = ticket /\ val' = [val EXCEPT ![a] = val[a] + 1]
  BY DEF semrelease, Calls, Goto, Inv, TypeInv, TicketInv, OnlyMoves
<1>2. \A b \in Addrs : Tickets(b)' = Tickets(b)
  BY <1>1, SameTickets DEF OnlyMoves
<1>3. Does[g] = None /\ Does' = [Does EXCEPT ![g] = "giving"]
  BY <1>1, DoesAfter DEF DoesFor, OnlyMoves
<1>4. Units' = [Units EXCEPT ![a] = Units[a] + 1]
  <2>1. ASSUME NEW b \in Addrs PROVE Units'[b] = IF b = a THEN Units[b] + 1 ELSE Units[b]
    <3>1. val'[b] = IF b = a THEN val[b] + 1 ELSE val[b]
      BY <1>1 DEF Inv, TypeInv
    <3>2. QED
      BY <1>2, <3>1, UnitsType, UnitsAt
  <2>2. QED
    BY <2>1 DEF Units
<1>5. QED
  BY <1>3, <1>4 DEF Abstract!Give, Abstract!Now, Units, Does

LEMMA GivenStep ==
    ASSUME Inv, NEW g \in Goroutines, pc[g] \in {"added", "release", "ready"}, pc'[g] = "idle",
           \A h \in Goroutines \ {g} : /\ DoesFor(pc'[h], addr'[h]) = DoesFor(pc[h], addr[h])
                                       /\ addr'[h] = addr[h],
           ticket' = ticket, val' = val
    PROVE  Abstract!Given(g)
<1>1. ~ticket[g]
  BY DEF Inv, TicketInv
<1>2. \A b \in Addrs : Tickets(b)' = Tickets(b)
  BY <1>1, SameTickets
<1>3. Does[g] = "giving" /\ Does' = [Does EXCEPT ![g] = None]
  BY DoesAfter DEF DoesFor
<1>4. Units' = Units
  BY <1>2 DEF Units
<1>5. QED
  BY <1>3, <1>4 DEF Abstract!Given, Abstract!Now, Units, Does

LEMMA SameStep ==
    ASSUME Inv, val' = val, ticket' = ticket, addr' = addr,
           \A h \in Goroutines : DoesFor(pc'[h], addr'[h]) = DoesFor(pc[h], addr[h])
    PROVE  UNCHANGED Abstract!semVars
<1>1. Units' = Units
  BY DEF Units, Tickets
<1>2. Does' = Does
  BY DEF Does, DoesFor, Acquiring
<1>3. QED
  BY <1>1, <1>2 DEF Abstract!semVars, Units, Does

\* A handoff moves a unit from the word into a ticket.
LEMMA HandoffStep ==
    ASSUME Inv, NEW g \in Goroutines, Handoff(g) PROVE UNCHANGED Abstract!semVars
<1> PICK a \in Addrs : a = addr[g]
  BY Target DEF Handoff
<1> PICK w \in Goroutines \ {g} : w = woken[g] /\ addr[w] = a
  BY Target DEF Handoff
<1>1. w \in Goroutines \ {g} /\ addr[w] = a /\ a \in Addrs
  OBVIOUS
<1>2. ~ticket[w]
  BY DEF Handoff, Inv, Lists, WokenInv
<1>3. /\ val[a] > 0 /\ val' = [val EXCEPT ![a] = val[a] - 1] /\ ticket' = [ticket EXCEPT ![w] = TRUE]
      /\ addr' = addr /\ pc[g] = "wake" /\ pc' = [pc EXCEPT ![g] = "ready"]
  BY <1>1 DEF Handoff, Pays, Goto, Inv, TypeInv
<1>4. /\ \A b \in Addrs : Tickets(b)' = IF b = a THEN Tickets(b) \cup {w} ELSE Tickets(b)
      /\ w \notin Tickets(a)
  BY <1>1, <1>2, <1>3 DEF Tickets, Inv, TypeInv
<1>5. \A b \in Addrs : Cardinality(Tickets(b)') = IF b = a THEN Cardinality(Tickets(b)) + 1
                                                 ELSE Cardinality(Tickets(b))
  BY <1>1, <1>4, UnitsType, FS_AddElement
<1>6. Units' = Units
  <2>1. ASSUME NEW b \in Addrs
        PROVE  val'[b] + Cardinality(Tickets(b)') = val[b] + Cardinality(Tickets(b))
    <3>1. val'[b] = IF b = a THEN val[b] - 1 ELSE val[b]
      BY <1>3 DEF Inv, TypeInv
    <3>2. QED
      BY <1>5, <3>1, UnitsType
  <2>2. QED
    BY <2>1 DEF Units
<1>7. Does' = Does
  BY <1>3 DEF Does, Acquiring, Inv, TypeInv
<1>8. QED
  BY <1>6, <1>7 DEF Abstract!semVars, Units, Does

LEMMA RefinementStep ==
    ASSUME Inv, Inv', [Next]_vars PROVE [Abstract!SemNext]_(Abstract!semVars)
<1>1. CASE UNCHANGED vars
  BY <1>1, SameStep DEF vars
<1>2. CASE Next
  <2>1. PICK g \in Goroutines :
            \/ Runs(g)
            \/ \E a \in Addrs, o \in BOOLEAN : semacquire(g, a, o) \/ semrelease(g, a, o)
    BY <1>2 DEF Next
  <2>2. pc \in [Goroutines -> Pcs] /\ (pc[g] # "idle" => addr[g] \in Addrs)
    BY DEF Inv, TypeInv, AddrInv
  <2>3. CASE \E a \in Addrs, o \in BOOLEAN : semacquire(g, a, o) \/ semrelease(g, a, o)
    BY <2>3, WantStep, GiveStep DEF Abstract!SemNext
  <2>4. CASE TryUnlocked(g) \/ TryLocked(g)
    <3>1. CASE pc'[g] = "idle"
      <4>1. PICK a \in Addrs : a = addr[g]
        BY <2>2, <2>4 DEF TryUnlocked, TryLocked
      <4>2. Abstract!Take(g, a)
        BY <2>4, <3>1, <4>1, TakeStep
      <4>3. QED
        BY <4>2 DEF Abstract!SemNext
    <3>2. CASE pc'[g] # "idle"
      <4>1. /\ val' = val /\ ticket' = ticket /\ addr' = addr
            /\ pc[g] \in {"easy", "woken"} /\ pc' = [pc EXCEPT ![g] = "acquire"]
        BY <2>2, <2>4, <3>2 DEF TryUnlocked, TryLocked, Returns, Goto, cannot
      <4>2. QED
        BY <2>2, <4>1, SameStep DEF DoesFor
    <3>3. QED
      BY <3>1, <3>2
  <2>5. CASE HasTicket(g)
    <3>1. PICK a \in Addrs : a = addr[g]
      BY <2>2, <2>5 DEF HasTicket
    <3>2. Abstract!Take(g, a)
      BY <2>5, <3>1, TicketTakeStep
    <3>3. QED
      BY <3>2 DEF Abstract!SemNext
  <2>6. CASE LockAcquire(g) \/ Enqueue(g) \/ NoHandoff(g)
    BY <2>2, <2>6, SameStep DEF LockAcquire, Enqueue, cannot, NoHandoff, Goto, DoesFor
  <2>7. CASE NoWaiters(g) \/ LockRelease(g)
    <3>1. CASE pc'[g] = "idle"
      <4>1. Abstract!Given(g)
        BY <2>2, <2>7, <3>1, GivenStep DEF NoWaiters, LockRelease, Returns, Goto, Inv, TypeInv
      <4>2. QED
        BY <4>1 DEF Abstract!SemNext
    <3>2. CASE pc'[g] # "idle"
      <4>1. /\ val' = val /\ ticket' = ticket /\ addr' = addr
            /\ pc[g] \in {"added", "release"} /\ \E to \in {"release", "wake"} : pc' = [pc EXCEPT ![g] = to]
        BY <2>2, <2>7, <3>2 DEF NoWaiters, LockRelease, Returns, Goto
      <4>2. QED
        BY <2>2, <4>1, SameStep DEF DoesFor
    <3>3. QED
      BY <3>1, <3>2
  <2>8. CASE Handoff(g)
    BY <2>8, HandoffStep
  <2>9. CASE readyWithTime(g)
    <3>1. woken[g] \in Goroutines \ {g} /\ pc[woken[g]] = "parked"
      BY <2>9, Target DEF readyWithTime
    <3>2. Abstract!Given(g)
      BY <2>2, <2>9, <3>1, GivenStep DEF readyWithTime, DoesFor, Inv, TypeInv
    <3>3. QED
      BY <3>2 DEF Abstract!SemNext
  <2>10. QED
    BY <2>1, <2>3, <2>4, <2>5, <2>6, <2>7, <2>8, <2>9 DEF Runs
<1>3. QED
  BY <1>1, <1>2

LEMMA InitStep == Init => Abstract!SemInit
<1> SUFFICES ASSUME Init PROVE Abstract!SemInit
  OBVIOUS
<1>1. \A a \in Addrs : Tickets(a) = {} /\ val[a] = 0
  BY DEF Init, Tickets
<1>2. Units = [a \in Addrs |-> 0]
  BY <1>1, FS_EmptySet DEF Units
<1>3. Does = [g \in Goroutines |-> None]
  BY DEF Init, Does, Acquiring
<1>4. QED
  BY <1>2, <1>3 DEF Abstract!SemInit, Units, Does

\* semacquire1 returns only with a unit that a semrelease1 gave and nobody else
\* took, found in the word or handed over in a ticket, for any number of
\* goroutines and addresses.
THEOREM ImplementsSemaphore == Spec => IsSemaphore
<1>1. Inv /\ Inv' /\ [Next]_vars => [Abstract!SemNext]_(Abstract!semVars)
  BY RefinementStep
<1>2. QED
  BY InitInv, InitStep, InvStep, <1>1, PTL DEF Spec, IsSemaphore, Abstract!SemSpec

=============================================================================
