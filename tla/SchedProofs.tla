----------------------------- MODULE SchedProofs -----------------------------
(***************************************************************************)
(* Proofs about Sched, for any number of threads, Ps and goroutines.       *)
(***************************************************************************)
EXTENDS Sched, FiniteSetTheorems, TLAPS

-----------------------------------------------------------------------------
(***************************************************************************)
(* The states of a thread.                                                 *)
(***************************************************************************)
\* Where a thread has a P, where it has none; the steps of injectglist and of
\* handoffp.
WithP == {"run", "count", "find", "poll", "steal", "limit", "scan", "release", "wakep", "wakeP",
          "reset", "respin", "spun"}
Handoffs == {"handoff", "handoffSpin", "handoffIdle", "handoffCas", "handoffStore", "handoffLock"}
WithoutP == {"parked", "syscall", "exit0", "drop", "again", "queues", "getP", "mayBlock", "polling",
             "polled", "pollP", "sysmon"} \cup Handoffs
Injects == {"injectG", "startIdle", "injectP", "adjust"}
PCs == WithP \cup WithoutP \cup Injects \cup {"startm"}
Rets == {"run", "find", "scan", "sysmon", "reset"} \cup Injects
AnyP == Ps \cup {NoP}

ThreadStates == [pc : PCs, p : AnyP, old : AnyP, spin : BOOLEAN, hold : AnyP, hspin : BOOLEAN,
                 ret : Rets, n : Nat, rest : Nat, owed : Nat, seen : SUBSET Ps,
                 nm : Int, was : BOOLEAN]

\* Where thread w is, or will be once startm has returned.
Place(w) == IF w.pc = "startm" THEN w.ret ELSE w.pc

\* The P of w is there when it is needed.
HasP(w) ==
    /\ w.pc \in WithP => w.p \in Ps
    /\ w.pc \in WithoutP => w.p = NoP
    /\ w.pc = "syscall" => w.old \in Ps
    /\ w.pc = "startm" => /\ w.ret \in {"run", "find"} => w.p \in Ps
                          /\ w.ret = "sysmon" => w.p = NoP
    /\ w.hold # NoP <=> w.pc \in {"startm"} \cup Handoffs
    /\ w.hold # NoP => w.p # w.hold

\* Where w goes on after startm, wakep and becomeSpinning.
Returns(w) ==
    /\ w.pc \in {"wakep", "wakeP"} => w.ret \in {"run", "find"}
    /\ w.pc \in {"respin", "spun"} => w.ret \in {"reset", "find", "scan"}
    /\ w.pc = "startm" => w.ret \in {"run", "find", "sysmon", "startIdle", "injectP", "adjust"}
    /\ w.pc \in Handoffs => w.ret = "sysmon"

\* A thread spins only while it looks for work or injects what it has found.
Spins(w) ==
    /\ w.spin => /\ \/ w.pc \in {"spun", "find", "poll", "steal", "scan", "release", "drop",
                               "reset"}
                    \/ Place(w) \in Injects
                 /\ w.p \in Ps \/ w.pc = "drop"
    /\ w.pc \in {"spun", "reset", "drop"} => w.spin
    /\ w.hspin => w.pc \in {"startm", "handoffStore"}
    /\ w.pc = "handoffStore" => w.hspin

\* The goroutines a thread injects, and what it owes for them.
Owes(w) ==
    /\ (w.owed > 0) <=> Place(w) \in Injects
    /\ (w.rest > 0) => Place(w) \in Injects \cup {"polled", "pollP"}
    /\ Place(w) = "injectG" => 0 < w.n /\ w.n <= w.rest /\ (w.p = NoP => w.rest = w.n)
    /\ Place(w) = "startIdle" => 0 < w.n /\ (w.p = NoP => w.rest = 0)
    /\ Place(w) = "injectP" => 0 < w.rest /\ w.p \in Ps
    /\ Place(w) = "adjust" => w.rest = 0

ThreadOK(w) == HasP(w) /\ Returns(w) /\ Spins(w) /\ Owes(w)

TypeInv ==
    /\ lq \in [Ps -> Nat] /\ gq \in Nat /\ pidle \in SUBSET Ps /\ insys \in SUBSET Ps
    /\ nmspinning \in Int /\ netw \in Nat /\ netev \in Nat /\ blocked \in Nat
    /\ th \in [Threads -> ThreadStates]

ThreadsInv == /\ \A t \in Threads : ThreadOK(th[t])
              /\ th[Sysmon].p = NoP /\ ~th[Sysmon].spin

-----------------------------------------------------------------------------
(***************************************************************************)
(* Who has a P.                                                            *)
(***************************************************************************)
Owns(w, p) == w.p = p \/ w.hold = p

\* Every P is nobody's, in U, or exactly one thread's.
Owned(h, U) ==
    /\ \A p \in Ps : p \in U \/ \E t \in Threads : Owns(h[t], p)
    /\ \A p \in Ps : \A t \in Threads : Owns(h[t], p) => p \notin U
    /\ \A p \in Ps : \A t, s \in Threads : Owns(h[t], p) /\ Owns(h[s], p) => t = s

\* The P of w whose run queue is known to be empty.
Drained(w, p) == \/ w.pc \in {"poll", "steal", "limit", "scan", "release"} /\ w.p = p
                 \/ w.pc \in {"respin", "spun"} /\ w.ret = "scan" /\ w.p = p
                 \/ /\ w.hold = p
                    /\ w.pc \in {"handoffSpin", "handoffIdle", "handoffCas", "handoffStore",
                                "handoffLock"}

Empty == /\ \A p \in pidle : lq[p] = 0
         /\ \A p \in Ps : \A t \in Threads : Drained(th[t], p) => lq[p] = 0

\* How much of nmspinning is about thread w.
Bit(b) == IF b THEN 1 ELSE 0
Counts(w) == Bit(w.spin) + Bit(w.pc = "wakeP") + Bit(w.hspin)

SpinTotal(h) == Cardinality({t \in Threads : h[t].spin})
                  + Cardinality({t \in Threads : h[t].pc = "wakeP"})
                  + Cardinality({t \in Threads : h[t].hspin})

Carried(h) == Sum([t \in Threads |-> Carries(h[t])], Threads)

Goroutines == gq + blocked + netw + netev + Sum(lq, Ps)

Inv == /\ TypeInv /\ ThreadsInv
       /\ Owned(th, pidle \cup insys) /\ pidle \cap insys = {}
       /\ Empty
       /\ nmspinning = SpinTotal(th)
       /\ Goroutines + Carried(th) = GS

-----------------------------------------------------------------------------
(***************************************************************************)
(* Counting.                                                               *)
(***************************************************************************)
\* The units of a sum: a finite set of pairs.
Units(f, S) == UNION {{x} \X (1 .. f[x]) : x \in S}

LEMMA UnitsFinite ==
    ASSUME NEW S, IsFiniteSet(S), NEW f \in [S -> Nat]
    PROVE  IsFiniteSet(Units(f, S)) /\ Cardinality(Units(f, S)) \in Nat
<1> DEFINE F == {{x} \X (1 .. f[x]) : x \in S}
<1>1. IsFiniteSet(F)
  <2> DEFINE g == [x \in S |-> {x} \X (1 .. f[x])]
  <2>1. g \in [S -> F] /\ \A y \in F : \E x \in S : g[x] = y
    OBVIOUS
  <2> HIDE DEF g, F
  <2>2. g \in Surjection(S, F)
    BY <2>1 DEF Surjection
  <2>3. QED
    BY <2>2, FS_Surjection
<1>2. ASSUME NEW T \in F PROVE IsFiniteSet(T)
  <2>1. PICK x \in S : T = {x} \X (1 .. f[x])
    OBVIOUS
  <2>2. f[x] \in Int /\ 1 \in Int
    OBVIOUS
  <2>3. IsFiniteSet({x}) /\ IsFiniteSet(1 .. f[x])
    BY <2>2, FS_Singleton, FS_Interval
  <2>4. QED
    BY <2>1, <2>3, FS_Product
<1> HIDE DEF F
<1>3. IsFiniteSet(UNION F)
  BY <1>1, <1>2, FS_UNION
<1>4. QED
  BY <1>3, FS_CardinalityType DEF F, Units

\* The size of the units of one place.
LEMMA UnitsOfOne ==
    ASSUME NEW x, NEW v \in Nat
    PROVE  IsFiniteSet({x} \X (1 .. v)) /\ Cardinality({x} \X (1 .. v)) = v
<1>1. IsFiniteSet({x}) /\ Cardinality({x}) = 1
  BY FS_Singleton
<1>2. IsFiniteSet(1 .. v) /\ Cardinality(1 .. v) = v
  BY FS_Interval
<1>3. /\ IsFiniteSet({x} \X (1 .. v))
      /\ Cardinality({x} \X (1 .. v)) = Cardinality({x}) * Cardinality(1 .. v)
  BY <1>1, <1>2, FS_Product
<1>4. QED
  BY <1>1, <1>2, <1>3

\* A sum, split at one place.
LEMMA SumSplits ==
    ASSUME NEW S, IsFiniteSet(S), NEW f \in [S -> Nat], NEW g \in [S -> Nat], NEW x \in S,
           g[x] = 0, \A y \in S : y # x => g[y] = f[y]
    PROVE  Sum(f, S) = Sum(g, S) + f[x] /\ Sum(f, S) \in Nat /\ Sum(g, S) \in Nat
<1>1. g[x] = 0 /\ \A y \in S : y # x => g[y] = f[y]
  OBVIOUS
<1> DEFINE A == Units(g, S)
           B == {x} \X (1 .. f[x])
<1>2. A \cap B = {}
  <2>1. SUFFICES ASSUME NEW e \in A, e \in B PROVE FALSE
    OBVIOUS
  <2>2. PICK y \in S : e \in {y} \X (1 .. g[y])
    BY DEF Units
  <2>3. e[1] = y /\ e[2] \in 1 .. g[y] /\ e[1] = x
    BY <2>1, <2>2
  <2>4. QED
    BY <1>1, <2>3
<1>3. Units(f, S) = A \cup B
  <2>1. ASSUME NEW e \in Units(f, S) PROVE e \in A \cup B
    <3>1. PICK y \in S : e \in {y} \X (1 .. f[y])
      BY DEF Units
    <3>2. CASE y = x
      BY <3>1, <3>2
    <3>3. CASE y # x
      BY <1>1, <3>1, <3>3 DEF Units
    <3>4. QED
      BY <3>2, <3>3
  <2>2. ASSUME NEW e \in A PROVE e \in Units(f, S)
    <3>1. PICK y \in S : e \in {y} \X (1 .. g[y])
      BY DEF Units
    <3>2. y # x
      BY <1>1, <3>1
    <3>3. QED
      BY <1>1, <3>1, <3>2 DEF Units
  <2>3. ASSUME NEW e \in B PROVE e \in Units(f, S)
    BY DEF Units
  <2>4. QED
    BY <2>1, <2>2, <2>3
<1>4. IsFiniteSet(A) /\ Cardinality(A) \in Nat /\ IsFiniteSet(Units(f, S))
      /\ Cardinality(Units(f, S)) \in Nat
  BY <1>1, UnitsFinite
<1>5. IsFiniteSet(B) /\ Cardinality(B) = f[x]
  BY UnitsOfOne
<1> HIDE DEF A, B
<1>6. Cardinality(A \cup B) = Cardinality(A) + Cardinality(B) - Cardinality(A \cap B)
  BY <1>4, <1>5, FS_Union
<1>7. Cardinality(A \cap B) = 0
  BY <1>2, FS_EmptySet
<1>8. Cardinality(Units(f, S)) = Cardinality(A) + f[x] - 0
  BY <1>3, <1>5, <1>6, <1>7, Zenon
<1>9. PICK a \in Nat : a = Cardinality(A)
  BY <1>4
<1>10. PICK b \in Nat : b = f[x]
  OBVIOUS
<1>11. Cardinality(Units(f, S)) = a + b
  BY <1>8, <1>9, <1>10
<1>12. Sum(f, S) = Cardinality(Units(f, S)) /\ Sum(g, S) = Cardinality(A)
  BY DEF Sum, Units, A
<1>13. QED
  BY <1>4, <1>9, <1>10, <1>11, <1>12

\* A sum moves by as much as the one place that changes.
LEMMA SumMoves ==
    ASSUME NEW S, IsFiniteSet(S), NEW f \in [S -> Nat], NEW h \in [S -> Nat], NEW x \in S,
           \A y \in S : y # x => h[y] = f[y]
    PROVE  /\ Sum(f, S) \in Nat /\ Sum(h, S) \in Nat
           /\ Sum(h, S) = Sum(f, S) - f[x] + h[x]
<1> DEFINE g == [y \in S |-> IF y = x THEN 0 ELSE f[y]]
<1>1. g \in [S -> Nat] /\ g[x] = 0 /\ \A y \in S : y # x => g[y] = f[y] /\ g[y] = h[y]
  OBVIOUS
<1> HIDE DEF g
<1>2. Sum(f, S) = Sum(g, S) + f[x] /\ Sum(f, S) \in Nat /\ Sum(g, S) \in Nat
  BY <1>1, SumSplits
<1>3. Sum(h, S) = Sum(g, S) + h[x] /\ Sum(h, S) \in Nat
  BY <1>1, SumSplits
<1>4. f[x] \in Nat /\ h[x] \in Nat
  OBVIOUS
<1>5. Sum(h, S) = Sum(f, S) - f[x] + h[x]
  BY <1>2, <1>3, <1>4
<1>6. QED
  BY <1>2, <1>3, <1>5

\* The sum of nothing.
LEMMA SumOfZeros ==
    ASSUME NEW S, NEW f, \A x \in S : f[x] = 0
    PROVE  Sum(f, S) = 0
<1>1. UNION {{x} \X (1 .. f[x]) : x \in S} = {}
  OBVIOUS
<1>2. QED
  BY <1>1, FS_EmptySet DEF Sum

\* A count moves with the one element that may enter or leave.
LEMMA CountMoves ==
    ASSUME NEW T, IsFiniteSet(T), NEW A, NEW B, A \subseteq T, B \subseteq T, NEW x \in T,
           \A y \in T : y # x => (y \in A <=> y \in B)
    PROVE  /\ Cardinality(A) \in Nat /\ Cardinality(B) \in Nat
           /\ Cardinality(B) = Cardinality(A) + Bit(x \in B) - Bit(x \in A)
<1>1. IsFiniteSet(A) /\ IsFiniteSet(B)
  BY FS_Subset
<1>2. Cardinality(A) \in Nat /\ Cardinality(B) \in Nat
  BY <1>1, FS_CardinalityType
<1>3. CASE (x \in A) <=> (x \in B)
  <2>1. A = B
    BY <1>3
  <2>2. QED
    BY <1>2, <2>1 DEF Bit
<1>4. CASE x \in B /\ x \notin A
  <2>1. B = A \cup {x}
    BY <1>4
  <2>2. Cardinality(A \cup {x}) = Cardinality(A) + 1
    BY <1>1, <1>4, FS_AddElement
  <2>3. QED
    BY <1>2, <1>4, <2>1, <2>2 DEF Bit
<1>5. CASE x \in A /\ x \notin B
  <2>1. A = B \cup {x}
    BY <1>5
  <2>2. Cardinality(B \cup {x}) = Cardinality(B) + 1
    BY <1>1, <1>5, FS_AddElement
  <2>3. QED
    BY <1>2, <1>5, <2>1, <2>2 DEF Bit
<1>6. QED
  BY <1>2, <1>3, <1>4, <1>5

-----------------------------------------------------------------------------
(***************************************************************************)
(* A step of one thread.                                                   *)
(***************************************************************************)
LEMMA ThreadsFinite == IsFiniteSet(Threads) /\ IsFiniteSet(Ps) /\ Sysmon \in Threads
BY SchedAssumption, FS_AddElement DEF Threads

\* The state of a thread that sleeps.
LEMMA ThreadFields ==
    /\ Thread \in ThreadStates /\ Thread.pc = "parked" /\ Thread.p = NoP /\ Thread.old = NoP
    /\ Thread.spin = FALSE /\ Thread.hold = NoP /\ Thread.hspin = FALSE /\ Thread.ret = "run"
    /\ Thread.n = 0 /\ Thread.rest = 0 /\ Thread.owed = 0 /\ Thread.was = FALSE
<1>1. /\ Thread.pc \in PCs /\ NoP \in AnyP /\ Thread.ret \in Rets /\ 0 \in Nat /\ 0 \in Int
      /\ {} \in SUBSET Ps
  BY DEF Thread, PCs, WithoutP, AnyP, Rets
<1>2. QED
  BY <1>1 DEF Thread, ThreadStates

\* What a thread carries is a number.
LEMMA CarriesType ==
    ASSUME NEW w \in ThreadStates PROVE Carries(w) \in Nat /\ Counts(w) \in Nat
<1>1. w.rest \in Nat
  BY DEF ThreadStates
<1>2. QED
  BY <1>1 DEF Carries, Counts, Bit

\* The count of those that spin moves with the thread.
LEMMA SpinMoves ==
    ASSUME NEW h \in [Threads -> ThreadStates], NEW t \in Threads, NEW w \in ThreadStates,
           NEW k, k = [h EXCEPT ![t] = w]
    PROVE  /\ SpinTotal(h) \in Int /\ SpinTotal(k) \in Int
           /\ SpinTotal(k) = SpinTotal(h) + Counts(w) - Counts(h[t])
<1>1. k[t] = w /\ \A s \in Threads : s # t => k[s] = h[s]
  OBVIOUS
<1> DEFINE A(f) == {s \in Threads : f[s].spin}
           B(f) == {s \in Threads : f[s].pc = "wakeP"}
           C(f) == {s \in Threads : f[s].hspin}
<1>2. /\ Cardinality(A(h)) \in Nat /\ Cardinality(A(k)) \in Nat
      /\ Cardinality(A(k)) = Cardinality(A(h)) + Bit(t \in A(k)) - Bit(t \in A(h))
  <2> DEFINE X == A(h)
             Y == A(k)
  <2>1. X \subseteq Threads /\ Y \subseteq Threads /\ \A s \in Threads : s # t => (s \in X <=> s \in Y)
    BY <1>1
  <2> HIDE DEF X, Y
  <2>2. /\ Cardinality(X) \in Nat /\ Cardinality(Y) \in Nat
        /\ Cardinality(Y) = Cardinality(X) + Bit(t \in Y) - Bit(t \in X)
    BY <2>1, ThreadsFinite, CountMoves
  <2>3. QED
    BY <2>2 DEF X, Y
<1>3. /\ Cardinality(B(h)) \in Nat /\ Cardinality(B(k)) \in Nat
      /\ Cardinality(B(k)) = Cardinality(B(h)) + Bit(t \in B(k)) - Bit(t \in B(h))
  <2> DEFINE X == B(h)
             Y == B(k)
  <2>1. X \subseteq Threads /\ Y \subseteq Threads /\ \A s \in Threads : s # t => (s \in X <=> s \in Y)
    BY <1>1
  <2> HIDE DEF X, Y
  <2>2. /\ Cardinality(X) \in Nat /\ Cardinality(Y) \in Nat
        /\ Cardinality(Y) = Cardinality(X) + Bit(t \in Y) - Bit(t \in X)
    BY <2>1, ThreadsFinite, CountMoves
  <2>3. QED
    BY <2>2 DEF X, Y
<1>4. /\ Cardinality(C(h)) \in Nat /\ Cardinality(C(k)) \in Nat
      /\ Cardinality(C(k)) = Cardinality(C(h)) + Bit(t \in C(k)) - Bit(t \in C(h))
  <2> DEFINE X == C(h)
             Y == C(k)
  <2>1. X \subseteq Threads /\ Y \subseteq Threads /\ \A s \in Threads : s # t => (s \in X <=> s \in Y)
    BY <1>1
  <2> HIDE DEF X, Y
  <2>2. /\ Cardinality(X) \in Nat /\ Cardinality(Y) \in Nat
        /\ Cardinality(Y) = Cardinality(X) + Bit(t \in Y) - Bit(t \in X)
    BY <2>1, ThreadsFinite, CountMoves
  <2>3. QED
    BY <2>2 DEF X, Y
<1>5. /\ Bit(t \in A(h)) = Bit(h[t].spin) /\ Bit(t \in A(k)) = Bit(w.spin)
      /\ Bit(t \in B(h)) = Bit(h[t].pc = "wakeP") /\ Bit(t \in B(k)) = Bit(w.pc = "wakeP")
      /\ Bit(t \in C(h)) = Bit(h[t].hspin) /\ Bit(t \in C(k)) = Bit(w.hspin)
  BY <1>1 DEF Bit
<1>6. /\ SpinTotal(h) = Cardinality(A(h)) + Cardinality(B(h)) + Cardinality(C(h))
      /\ SpinTotal(k) = Cardinality(A(k)) + Cardinality(B(k)) + Cardinality(C(k))
  BY DEF SpinTotal
<1> HIDE DEF A, B, C
<1>7. PICK a, b, c \in Int : a = Cardinality(A(h)) /\ b = Cardinality(B(h)) /\ c = Cardinality(C(h))
  BY <1>2, <1>3, <1>4
<1>8. PICK x1, x2, x3 \in Int :
        x1 = Bit(h[t].spin) /\ x2 = Bit(h[t].pc = "wakeP") /\ x3 = Bit(h[t].hspin)
  BY DEF Bit
<1>9. PICK y1, y2, y3 \in Int :
        y1 = Bit(w.spin) /\ y2 = Bit(w.pc = "wakeP") /\ y3 = Bit(w.hspin)
  BY DEF Bit
<1>10. /\ Cardinality(A(k)) = a + y1 - x1 /\ Cardinality(B(k)) = b + y2 - x2
       /\ Cardinality(C(k)) = c + y3 - x3
  BY <1>2, <1>3, <1>4, <1>5, <1>7, <1>8, <1>9, Zenon
<1>11. SpinTotal(h) = a + b + c /\ SpinTotal(k) = (a + y1 - x1) + (b + y2 - x2) + (c + y3 - x3)
  BY <1>6, <1>7, <1>10, Zenon
<1>12. Counts(w) = y1 + y2 + y3 /\ Counts(h[t]) = x1 + x2 + x3
  BY <1>8, <1>9, Zenon DEF Counts
<1>13. QED
  BY <1>11, <1>12

\* What the threads carry moves with the thread.
LEMMA CarriedMoves ==
    ASSUME NEW h \in [Threads -> ThreadStates], NEW t \in Threads, NEW w \in ThreadStates,
           NEW k, k = [h EXCEPT ![t] = w]
    PROVE  /\ Carried(h) \in Nat /\ Carried(k) \in Nat
           /\ Carried(k) = Carried(h) - Carries(h[t]) + Carries(w)
<1> DEFINE f == [s \in Threads |-> Carries(h[s])]
           g == [s \in Threads |-> Carries(k[s])]
<1>1. f \in [Threads -> Nat] /\ Carries(w) \in Nat
  BY CarriesType
<1>2. /\ g[t] = Carries(w) /\ f[t] = Carries(h[t])
      /\ \A s \in Threads : s # t => g[s] = f[s]
  OBVIOUS
<1>7. g \in [Threads -> Nat]
  <2>1. k \in [Threads -> ThreadStates]
    OBVIOUS
  <2>2. QED
    BY <2>1, CarriesType
<1>3. Carried(h) = Sum(f, Threads) /\ Carried(k) = Sum(g, Threads)
  BY DEF Carried
<1> HIDE DEF f, g
<1>4. IsFiniteSet(Threads)
  BY ThreadsFinite
<1>5. /\ Sum(f, Threads) \in Nat /\ Sum(g, Threads) \in Nat
      /\ Sum(g, Threads) = Sum(f, Threads) - f[t] + g[t]
  BY <1>1, <1>2, <1>7, <1>4, SumMoves
<1>6. QED
  BY <1>2, <1>3, <1>5

\* A P that a thread takes was nobody's, one that it lets go is nobody's.
LEMMA OwnMoves ==
    ASSUME NEW h \in [Threads -> ThreadStates], NEW t \in Threads, NEW w \in ThreadStates,
           NEW k, k = [h EXCEPT ![t] = w], NEW U, NEW V, Owned(h, U),
           \A p \in Ps : Owns(w, p) => Owns(h[t], p) \/ p \in U,
           \A p \in Ps : p \in V <=> ~Owns(w, p) /\ (p \in U \/ Owns(h[t], p))
    PROVE  Owned(k, V)
<1>1. k[t] = w /\ \A s \in Threads : s # t => k[s] = h[s]
  OBVIOUS
<1>2. ASSUME NEW p \in Ps PROVE p \in V \/ \E s \in Threads : Owns(k[s], p)
  BY <1>1 DEF Owned
<1>3. ASSUME NEW p \in Ps, NEW s \in Threads, Owns(k[s], p) PROVE p \notin V
  <2>1. CASE s = t
    BY <1>1, <1>3, <2>1
  <2>2. CASE s # t
    <3>1. Owns(h[s], p) /\ p \notin U /\ ~Owns(h[t], p)
      BY <1>1, <1>3, <2>2 DEF Owned
    <3>2. QED
      BY <3>1
  <2>3. QED
    BY <2>1, <2>2
<1>4. ASSUME NEW p \in Ps, NEW r \in Threads, NEW s \in Threads, Owns(k[r], p), Owns(k[s], p)
      PROVE  r = s
  <2>1. ASSUME NEW q \in Threads, q # t, Owns(k[q], p) PROVE Owns(h[q], p) /\ ~Owns(w, p)
    BY <1>1, <2>1 DEF Owned
  <2>2. CASE r = t \/ s = t
    BY <1>1, <1>4, <2>1, <2>2
  <2>3. CASE r # t /\ s # t
    BY <1>4, <2>1, <2>3 DEF Owned
  <2>4. QED
    BY <2>2, <2>3
<1>5. QED
  BY <1>2, <1>3, <1>4 DEF Owned

\* What a step of thread t, which leaves it as w, does to the threads,
Moved(t, w) ==
    /\ w \in ThreadStates /\ ThreadOK(w)
    /\ t = Sysmon => w.p = NoP /\ ~w.spin
    /\ th' = [th EXCEPT ![t] = w]

\* to the Ps,
OwnStep(c, w) ==
    /\ pidle' \in SUBSET Ps /\ insys' \in SUBSET Ps /\ pidle' \cap insys' = {}
    /\ \A p \in Ps : Owns(w, p) => Owns(c, p) \/ p \in pidle \cup insys
    /\ \A p \in Ps : p \in pidle' \cup insys' <=> ~Owns(w, p) /\ (p \in pidle \cup insys \/ Owns(c, p))

\* to the run queues,
QueueStep(w) ==
    /\ lq' \in [Ps -> Nat]
    /\ \A p \in Ps : lq'[p] <= lq[p] \/ Owns(w, p)
    /\ \A p \in pidle' : p \in pidle \/ lq'[p] = 0
    /\ \A p \in Ps : Drained(w, p) => lq'[p] = 0

\* and to the counts.
CountStep(c, w) ==
    /\ nmspinning' = nmspinning + Counts(w) - Counts(c)
    /\ gq' \in Nat /\ blocked' \in Nat /\ netw' \in Nat /\ netev' \in Nat
    /\ gq' + blocked' + netw' + netev' + Sum(lq', Ps) + Carries(w)
         = gq + blocked + netw + netev + Sum(lq, Ps) + Carries(c)

LEMMA SumType == ASSUME NEW f \in [Ps -> Nat] PROVE Sum(f, Ps) \in Nat
<1>1. PICK p \in Ps : TRUE
  BY SchedAssumption
<1>2. QED
  BY SumMoves, ThreadsFinite

\* Such a step keeps the invariant.
LEMMA StepKeeps ==
    ASSUME Inv, NEW t \in Threads, NEW w, Moved(t, w), OwnStep(th[t], w), QueueStep(w),
           CountStep(th[t], w)
    PROVE  Inv'
<1>1. /\ th \in [Threads -> ThreadStates] /\ w \in ThreadStates /\ th' = [th EXCEPT ![t] = w]
      /\ th[t] \in ThreadStates
  BY DEF Inv, TypeInv, Moved
<1>2. th'[t] = w /\ \A s \in Threads : s # t => th'[s] = th[s]
  BY <1>1
<1>3. Counts(w) \in Nat /\ Counts(th[t]) \in Nat /\ Carries(w) \in Nat /\ Carries(th[t]) \in Nat
  BY <1>1, CarriesType
<1>4. TypeInv'
  <2>1. th' \in [Threads -> ThreadStates]
    BY <1>1
  <2>2. nmspinning' \in Int
    BY <1>3 DEF Inv, TypeInv, CountStep
  <2>3. QED
    BY <2>1, <2>2 DEF TypeInv, OwnStep, QueueStep, CountStep
<1>5. ThreadsInv'
  BY <1>2, ThreadsFinite DEF Inv, ThreadsInv, Moved
<1>6. Owned(th', pidle' \cup insys')
  BY <1>1, OwnMoves DEF Inv, OwnStep
<1>7. Empty'
  <2>1. ASSUME NEW p \in pidle' PROVE lq'[p] = 0
    <3>1. p \in Ps /\ ~Owns(w, p)
      BY DEF OwnStep
    <3>2. CASE p \in pidle
      <4>1. lq[p] = 0 /\ lq'[p] <= lq[p] /\ lq'[p] \in Nat
        BY <3>1, <3>2 DEF Inv, Empty, QueueStep
      <4>2. QED
        BY <4>1
    <3>3. CASE p \notin pidle
      BY <3>3 DEF QueueStep
    <3>4. QED
      BY <3>2, <3>3
  <2>2. ASSUME NEW p \in Ps, NEW s \in Threads, Drained(th'[s], p) PROVE lq'[p] = 0
    <3>1. CASE s = t
      BY <1>2, <2>2, <3>1 DEF QueueStep
    <3>2. CASE s # t
      <4>1. Drained(th[s], p) /\ Owns(th'[s], p)
        BY <1>2, <2>2, <3>2 DEF Drained, Owns
      <4>2. ~Owns(w, p)
        BY <1>2, <1>6, <3>2, <4>1 DEF Owned
      <4>3. lq[p] = 0 /\ lq'[p] <= lq[p] /\ lq'[p] \in Nat
        BY <4>1, <4>2 DEF Inv, Empty, QueueStep
      <4>4. QED
        BY <4>3
    <3>3. QED
      BY <3>1, <3>2
  <2>3. QED
    BY <2>1, <2>2 DEF Empty
<1>8. nmspinning' = SpinTotal(th')
  BY <1>1, <1>3, SpinMoves DEF Inv, CountStep
<1>9. Goroutines' + Carried(th') = GS
  <2>1. /\ Carried(th) \in Nat /\ Carried(th') \in Nat
        /\ Carried(th') = Carried(th) - Carries(th[t]) + Carries(w)
    BY <1>1, CarriedMoves
  <2>2. Sum(lq, Ps) \in Nat /\ Sum(lq', Ps) \in Nat
    BY SumType DEF Inv, TypeInv, QueueStep
  <2>3. /\ Goroutines = gq + blocked + netw + netev + Sum(lq, Ps)
        /\ Goroutines' = gq' + blocked' + netw' + netev' + Sum(lq', Ps)
    BY DEF Goroutines, Sum
  <2>4. Goroutines \in Nat /\ Goroutines' \in Nat
    BY <2>2, <2>3 DEF Inv, TypeInv, CountStep
  <2>5. Goroutines' + Carries(w) = Goroutines + Carries(th[t])
    BY <2>3 DEF CountStep
  <2>6. Goroutines + Carried(th) = GS
    BY DEF Inv
  <2>7. QED
    BY <1>3, <2>1, <2>4, <2>5, <2>6
<1>10. pidle' \cap insys' = {}
  BY DEF OwnStep
<1>11. QED
  BY <1>4, <1>5, <1>6, <1>7, <1>8, <1>9, <1>10 DEF Inv, Owned, SpinTotal, Carried, Sum

-----------------------------------------------------------------------------
(***************************************************************************)
(* Kinds of steps.                                                         *)
(***************************************************************************)
\* What the invariant says of one thread and of the rest.
LEMMA Facts ==
    ASSUME Inv, NEW t \in Threads
    PROVE  /\ th[t] \in ThreadStates /\ ThreadOK(th[t])
           /\ t = Sysmon => th[t].p = NoP /\ ~th[t].spin
           /\ lq \in [Ps -> Nat] /\ gq \in Nat /\ pidle \in SUBSET Ps /\ insys \in SUBSET Ps
           /\ pidle \cap insys = {}
           /\ nmspinning \in Int /\ netw \in Nat /\ netev \in Nat /\ blocked \in Nat
           /\ Sum(lq, Ps) \in Nat /\ Counts(th[t]) \in Nat /\ Carries(th[t]) \in Nat
           /\ \A p \in Ps : Drained(th[t], p) => lq[p] = 0
           /\ \A p \in Ps : Owns(th[t], p) => p \notin pidle \cup insys
BY SumType, CarriesType DEF Inv, TypeInv, ThreadsInv, Empty, Owned

\* The thread keeps its P.
LEMMA OwnSame ==
    ASSUME Inv, NEW t \in Threads, NEW w, w.p = th[t].p, w.hold = th[t].hold,
           pidle' = pidle, insys' = insys
    PROVE  OwnStep(th[t], w)
BY Facts DEF OwnStep, Owns

\* The thread takes an idle P, or one that is in a system call, for itself or
\* for the thread it starts.
LEMMA OwnTakes ==
    ASSUME Inv, NEW t \in Threads, NEW w, NEW p \in pidle \cup insys,
           pidle' = pidle \ {p}, insys' = insys \ {p},
           \/ w.p = p /\ th[t].p = NoP /\ w.hold = th[t].hold
           \/ w.hold = p /\ th[t].hold = NoP /\ w.p = th[t].p
    PROVE  OwnStep(th[t], w)
<1>1. pidle \in SUBSET Ps /\ insys \in SUBSET Ps /\ pidle \cap insys = {} /\ NoP \notin Ps
  BY Facts, SchedAssumption
<1>2. \A q \in Ps : Owns(th[t], q) => q \notin pidle \cup insys
  BY Facts
<1>3. \A q \in Ps : Owns(w, q) <=> Owns(th[t], q) \/ q = p
  BY <1>1 DEF Owns
<1>4. QED
  BY <1>1, <1>2, <1>3 DEF OwnStep

\* The thread lets its P go.
LEMMA OwnGives ==
    ASSUME Inv, NEW t \in Threads, NEW w, NEW p \in Ps,
           \/ pidle' = pidle \cup {p} /\ insys' = insys
           \/ pidle' = pidle /\ insys' = insys \cup {p},
           \/ th[t].p = p /\ w.p = NoP /\ w.hold = th[t].hold /\ w.hold # p
           \/ th[t].hold = p /\ w.hold = NoP /\ w.p = th[t].p /\ w.p # p
    PROVE  OwnStep(th[t], w)
<1>1. pidle \in SUBSET Ps /\ insys \in SUBSET Ps /\ pidle \cap insys = {} /\ NoP \notin Ps
  BY Facts, SchedAssumption
<1>2. \A q \in Ps : Owns(th[t], q) => q \notin pidle \cup insys
  BY Facts
<1>3. \A q \in Ps : Owns(w, q) <=> Owns(th[t], q) /\ q # p
  BY <1>1 DEF Owns
<1>4. Owns(th[t], p)
  BY DEF Owns
<1>5. QED
  BY <1>1, <1>2, <1>3, <1>4 DEF OwnStep

\* The run queues stay as they are.
LEMMA QueueSame ==
    ASSUME Inv, NEW t \in Threads, NEW w, lq' = lq, \A p \in pidle' : p \in pidle \/ lq[p] = 0,
           \A p \in Ps : Drained(w, p) => Drained(th[t], p) \/ lq[p] = 0
    PROVE  QueueStep(w)
<1>1. lq \in [Ps -> Nat] /\ \A p \in Ps : Drained(th[t], p) => lq[p] = 0
  BY Facts
<1>2. QED
  BY <1>1 DEF QueueStep

\* Nothing is counted, nothing changes hands.
LEMMA CountSame ==
    ASSUME Inv, NEW t \in Threads, NEW w, Counts(w) = Counts(th[t]), Carries(w) = Carries(th[t]),
           lq' = lq, gq' = gq, nmspinning' = nmspinning, blocked' = blocked, netw' = netw,
           netev' = netev
    PROVE  CountStep(th[t], w)
<1>1. /\ gq \in Nat /\ nmspinning \in Int /\ netw \in Nat /\ netev \in Nat /\ blocked \in Nat
      /\ Counts(th[t]) \in Nat
  BY Facts
<1>2. nmspinning = nmspinning + Counts(th[t]) - Counts(th[t])
  BY <1>1
<1>3. QED
  BY <1>1, <1>2, Zenon DEF CountStep

\* The thread goes on, and that is all.
LEMMA PlainStep ==
    ASSUME Inv, NEW t \in Threads, NEW w, Moved(t, w), w.p = th[t].p, w.hold = th[t].hold,
           \A p \in Ps : Drained(w, p) => Drained(th[t], p) \/ lq[p] = 0,
           Counts(w) = Counts(th[t]), Carries(w) = Carries(th[t]),
           lq' = lq, gq' = gq, pidle' = pidle, insys' = insys, nmspinning' = nmspinning,
           blocked' = blocked, netw' = netw, netev' = netev
    PROVE  Inv'
<1>1. OwnStep(th[t], w)
  BY OwnSame
<1>2. QueueStep(w)
  BY QueueSame
<1>3. CountStep(th[t], w)
  BY CountSame
<1>4. QED
  BY <1>1, <1>2, <1>3, StepKeeps

\* A run queue of the thread's own P moves by k.
LEMMA EnqueueStep ==
    ASSUME lq \in [Ps -> Nat], NEW p \in Ps, NEW k \in Int, lq[p] + k \in Nat, Enqueue(p, k)
    PROVE  /\ lq' \in [Ps -> Nat] /\ lq'[p] = lq[p] + k /\ \A q \in Ps : q # p => lq'[q] = lq[q]
           /\ Sum(lq, Ps) \in Nat /\ Sum(lq', Ps) = Sum(lq, Ps) + k
<1>1. lq' \in [Ps -> Nat] /\ lq'[p] = lq[p] + k /\ \A q \in Ps : q # p => lq'[q] = lq[q]
  BY DEF Enqueue
<1>2. /\ Sum(lq, Ps) \in Nat /\ Sum(lq', Ps) = Sum(lq, Ps) - lq[p] + lq'[p]
  <2>1. PICK f \in [Ps -> Nat] : f = lq'
    BY <1>1
  <2>2. \A q \in Ps : q # p => f[q] = lq[q]
    BY <1>1, <2>1
  <2>3. Sum(lq, Ps) \in Nat /\ Sum(f, Ps) = Sum(lq, Ps) - lq[p] + f[p]
    BY <2>2, SumMoves, ThreadsFinite
  <2>4. QED
    BY <2>1, <2>3
<1>3. lq[p] \in Nat
  OBVIOUS
<1>4. QED
  BY <1>1, <1>2, <1>3

\* The steps that only take a thread from one place to another.
Edges == {<<"count", "find">>, <<"find", "poll">>, <<"poll", "steal">>, <<"steal", "scan">>,
          <<"steal", "limit">>, <<"limit", "release">>, <<"scan", "release">>,
          <<"again", "queues">>, <<"queues", "getP">>, <<"queues", "mayBlock">>,
          <<"getP", "mayBlock">>, <<"mayBlock", "polling">>, <<"polled", "pollP">>,
          <<"syscall", "exit0">>, <<"handoff", "startm">>, <<"handoff", "handoffSpin">>,
          <<"handoffSpin", "handoffIdle">>, <<"handoffSpin", "handoffLock">>,
          <<"handoffIdle", "handoffCas">>, <<"handoffIdle", "handoffLock">>,
          <<"handoffCas", "handoffLock">>, <<"handoffStore", "startm">>,
          <<"handoffLock", "startm">>}

\* State w of a thread is c but for its place, and for what only findRunnable and
\* exitsyscall look at.
Alike(w, c) ==
    /\ w \in ThreadStates /\ w.ret = c.ret /\ w.p = c.p /\ w.spin = c.spin /\ w.hold = c.hold
    /\ w.hspin = c.hspin /\ w.n = c.n /\ w.rest = c.rest /\ w.owed = c.owed

LEMMA EdgeThread ==
    ASSUME NEW c \in ThreadStates, ThreadOK(c), NEW w, Alike(w, c), <<c.pc, w.pc>> \in Edges,
           w.pc = "limit" => ~c.spin
    PROVE  /\ ThreadOK(w) /\ Counts(w) = Counts(c) /\ Carries(w) = Carries(c)
           /\ \A p : Drained(w, p) => \/ Drained(c, p)
                                      \/ (c.pc = "find" /\ p = c.p)
                                      \/ (c.pc = "handoff" /\ p = c.hold)
<1>2. /\ w.ret = c.ret /\ w.p = c.p /\ w.spin = c.spin
      /\ w.hold = c.hold /\ w.hspin = c.hspin /\ w.n = c.n /\ w.rest = c.rest
      /\ w.owed = c.owed
  BY DEF Alike
<1>3. c.pc \in Handoffs => c.ret = "sysmon"
  BY DEF ThreadOK, Returns
<1>4. HasP(w)
  BY <1>2, <1>3 DEF Edges, ThreadOK, HasP, WithP, WithoutP, Handoffs
<1>5. Returns(w)
  BY <1>2, <1>3 DEF Edges, ThreadOK, Returns, Handoffs
<1>6. Spins(w)
  <2>1. Spins(c) /\ <<c.pc, w.pc>> \in Edges
    BY DEF ThreadOK
  <2>2. c.pc # "startm" /\ c.pc \notin Injects /\ w.pc \notin Injects
    BY <2>1 DEF Edges, Injects
  <2>3. w.pc = "startm" => w.ret = "sysmon" \/ c.pc \in Handoffs
    BY <2>1 DEF Edges, Handoffs
  <2>4. w.spin => w.pc \in {"find", "poll", "steal", "scan", "release"} /\ w.p \in Ps
    BY <1>2, <2>1, <2>2 DEF Spins, Place, Edges
  <2>5. w.hspin => w.pc \in {"startm", "handoffStore"}
    BY <1>2, <2>1, <2>2, Zenon DEF Spins, Edges
  <2>6. w.pc \notin {"spun", "reset", "drop", "handoffStore"}
    BY <2>1 DEF Edges
  <2>7. QED
    BY <2>4, <2>5, <2>6 DEF Spins
<1>7. Owes(w)
  BY <1>2, <1>3 DEF Edges, ThreadOK, Owes, Place, Injects, Handoffs
<1>8. Counts(w) = Counts(c)
  BY <1>2 DEF Edges, Counts, Bit
<1>9. Carries(w) = Carries(c)
  BY <1>2, <1>3 DEF Edges, Carries, Handoffs
<1>10. \A p : Drained(w, p) => \/ Drained(c, p)
                               \/ (c.pc = "find" /\ p = c.p)
                               \/ (c.pc = "handoff" /\ p = c.hold)
  BY <1>2 DEF Edges, Drained, Handoffs
<1>11. QED
  BY <1>2, <1>4, <1>5, <1>6, <1>7, <1>8, <1>9, <1>10 DEF ThreadOK

LEMMA MoveKeeps ==
    ASSUME Inv, NEW t \in Threads, NEW w, Alike(w, th[t]), <<th[t].pc, w.pc>> \in Edges,
           w.pc = "limit" => ~th[t].spin, Become(t, w),
           th[t].pc = "find" => lq[th[t].p] = 0,
           th[t].pc = "handoff" /\ w.pc # "startm" => lq[th[t].hold] = 0,
           lq' = lq, gq' = gq, pidle' = pidle, insys' = insys, nmspinning' = nmspinning,
           blocked' = blocked, netw' = netw, netev' = netev
    PROVE  Inv'
<1> DEFINE c == th[t]
<1>1. c \in ThreadStates /\ ThreadOK(c) /\ (t = Sysmon => c.p = NoP /\ ~c.spin)
  BY Facts
<1>2. th' = [th EXCEPT ![t] = w] /\ w \in ThreadStates /\ w.p = c.p /\ w.hold = c.hold
      /\ w.spin = c.spin
  BY DEF Become, Alike
<1>3. /\ ThreadOK(w) /\ Counts(w) = Counts(c) /\ Carries(w) = Carries(c)
      /\ \A p : Drained(w, p) => \/ Drained(c, p)
                                 \/ (c.pc = "find" /\ p = c.p)
                                 \/ (c.pc = "handoff" /\ p = c.hold)
  <2>1. Alike(w, c) /\ <<c.pc, w.pc>> \in Edges /\ (w.pc = "limit" => ~c.spin)
    OBVIOUS
  <2> HIDE DEF c
  <2>2. QED
    BY <1>1, <2>1, EdgeThread
<1>5. Moved(t, w)
  BY <1>1, <1>2, <1>3 DEF Moved
<1>6. \A p \in Ps : Drained(w, p) => Drained(c, p) \/ lq[p] = 0
  BY <1>3 DEF Drained, Handoffs
<1>7. QED
  BY <1>2, <1>3, <1>5, <1>6, PlainStep

\* Goto is such a step.
LEMMA GotoAlike ==
    ASSUME NEW c \in ThreadStates, NEW to \in PCs
    PROVE  /\ Alike([c EXCEPT !.pc = to, !.seen = {}], c)
           /\ [c EXCEPT !.pc = to, !.seen = {}].pc = to
BY DEF Alike, ThreadStates

LEMMA EdgeKeeps ==
    ASSUME Inv, NEW t \in Threads, NEW to, <<th[t].pc, to>> \in Edges, Goto(t, to), to # "limit",
           th[t].pc = "find" => lq[th[t].p] = 0,
           th[t].pc = "handoff" /\ to # "startm" => lq[th[t].hold] = 0,
           lq' = lq, gq' = gq, pidle' = pidle, insys' = insys, nmspinning' = nmspinning,
           blocked' = blocked, netw' = netw, netev' = netev
    PROVE  Inv'
<1> DEFINE w == [th[t] EXCEPT !.pc = to, !.seen = {}]
<1>1. th[t] \in ThreadStates /\ to \in PCs
  BY Facts DEF Edges, PCs, WithP, WithoutP, Handoffs
<1>2. Become(t, w)
  BY DEF Goto
<1>3. Alike(w, th[t]) /\ w.pc = to
  <2>1. PICK c \in ThreadStates : c = th[t]
    BY <1>1
  <2>2. /\ Alike([c EXCEPT !.pc = to, !.seen = {}], c)
        /\ [c EXCEPT !.pc = to, !.seen = {}].pc = to
    BY <1>1, GotoAlike
  <2>3. QED
    BY <2>1, <2>2, Zenon
<1> HIDE DEF w
<1>4. QED
  BY <1>2, <1>3, MoveKeeps

\* A thread that looked for work and has found a goroutine.
LEMMA FoundThread ==
    ASSUME NEW c \in ThreadStates, ThreadOK(c), c.pc \in {"find", "scan", "release"},
           NEW w, w = Found(c)
    PROVE  /\ w \in ThreadStates /\ ThreadOK(w) /\ w.p = c.p /\ w.hold = c.hold /\ w.spin = c.spin
           /\ Counts(w) = Counts(c) /\ Carries(w) = Carries(c) + 1 /\ Carries(c) \in Nat
           /\ \A p : ~Drained(w, p)
<1> DEFINE to == IF c.spin THEN "reset" ELSE "run"
<1>1. to \in PCs /\ w = [c EXCEPT !.pc = to, !.seen = {}]
  BY DEF Found, PCs, WithP
<1>2. /\ w \in ThreadStates
      /\ w.pc = to /\ w.ret = c.ret /\ w.p = c.p /\ w.old = c.old /\ w.spin = c.spin
      /\ w.hold = c.hold /\ w.hspin = c.hspin /\ w.n = c.n /\ w.rest = c.rest
      /\ w.owed = c.owed
  BY <1>1 DEF ThreadStates
<1>3. c.p \in Ps /\ c.owed = 0 /\ c.rest \in Nat /\ ~c.hspin /\ c.hold = NoP
  BY DEF ThreadOK, HasP, Owes, Place, Injects, WithP, Spins, ThreadStates, Handoffs
<1>4. ThreadOK(w)
  BY <1>2, <1>3 DEF ThreadOK, HasP, Returns, Spins, Owes, Place, WithP, WithoutP, Handoffs, Injects
<1>5. Counts(w) = Counts(c)
  BY <1>2 DEF Counts, Bit
<1>6. Carries(w) = Carries(c) + 1 /\ Carries(c) \in Nat
  BY <1>2, <1>3 DEF Carries
<1>7. QED
  BY <1>2, <1>4, <1>5, <1>6 DEF Drained

\* It keeps its P, and the goroutine comes from one of the queues.
LEMMA FoundKeeps ==
    ASSUME Inv, NEW t \in Ms, th[t].pc \in {"find", "scan", "release"}, Become(t, Found(th[t])),
           lq' \in [Ps -> Nat], \A p \in Ps : lq'[p] <= lq[p] \/ p = th[t].p,
           gq' \in Nat, gq' + Sum(lq', Ps) = gq + Sum(lq, Ps) - 1,
           pidle' = pidle, insys' = insys, nmspinning' = nmspinning,
           blocked' = blocked, netw' = netw, netev' = netev
    PROVE  Inv'
<1> DEFINE c == th[t]
           w == Found(c)
<1>1. t \in Threads /\ t # Sysmon
  BY SchedAssumption DEF Threads
<1>2. /\ c \in ThreadStates /\ ThreadOK(c) /\ gq \in Nat /\ netw \in Nat /\ netev \in Nat
      /\ blocked \in Nat /\ nmspinning \in Int /\ Sum(lq, Ps) \in Nat /\ Counts(c) \in Nat
  BY <1>1, Facts
<1>3. /\ w \in ThreadStates /\ ThreadOK(w) /\ w.p = c.p /\ w.hold = c.hold /\ w.spin = c.spin
      /\ Counts(w) = Counts(c) /\ Carries(w) = Carries(c) + 1 /\ Carries(c) \in Nat
      /\ \A p : ~Drained(w, p)
  BY <1>2, FoundThread
<1>4. th' = [th EXCEPT ![t] = w]
  BY DEF Become
<1> HIDE DEF w
<1>5. Moved(t, w)
  BY <1>1, <1>3, <1>4 DEF Moved
<1>6. OwnStep(c, w)
  BY <1>1, <1>3, OwnSame
<1>7. QueueStep(w)
  BY <1>3 DEF QueueStep, Owns
<1>8. CountStep(c, w)
  <2>1. Sum(lq', Ps) \in Nat
    BY SumType
  <2>2. PICK x, y \in Nat : x = Sum(lq', Ps) /\ y = Sum(lq, Ps)
    BY <1>2, <2>1
  <2>3. gq' + blocked + netw + netev + x + Carries(w) = gq + blocked + netw + netev + y + Carries(c)
    BY <1>2, <1>3, <2>2
  <2>4. QED
    BY <1>2, <1>3, <2>2, <2>3 DEF CountStep
<1>9. QED
  BY <1>1, <1>5, <1>6, <1>7, <1>8, StepKeeps


\* What a proof about a step of a thread in state c starts from.
Sound(c) ==
    /\ c \in ThreadStates /\ ThreadOK(c)
    /\ lq \in [Ps -> Nat] /\ gq \in Nat /\ pidle \in SUBSET Ps /\ insys \in SUBSET Ps
    /\ pidle \cap insys = {} /\ NoP \notin Ps
    /\ nmspinning \in Int /\ netw \in Nat /\ netev \in Nat /\ blocked \in Nat
    /\ Sum(lq, Ps) \in Nat
    /\ \A p \in Ps : Drained(c, p) => lq[p] = 0
    /\ \A p \in Ps : Owns(c, p) => p \notin pidle \cup insys
    /\ \A p \in pidle : lq[p] = 0

LEMMA SoundNow == ASSUME Inv, NEW t \in Threads PROVE Sound(th[t])
BY Facts, SchedAssumption DEF Sound, Inv, Empty

-----------------------------------------------------------------------------
(***************************************************************************)
(* What a running goroutine does.                                          *)
(***************************************************************************)

LEMMA readyKeeps == ASSUME Inv, NEW m \in Ms, ready(m) PROVE Inv'
<1> DEFINE c == th[m]
           w == [c EXCEPT !.pc = "wakep", !.ret = "run"]
<1>1. m \in Threads /\ m # Sysmon
  BY SchedAssumption DEF Threads
<1>2. Sound(c)
  BY <1>1, SoundNow
<1>3. /\ th' = [th EXCEPT ![m] = w] /\ c.pc = "run" /\ blocked > 0 /\ blocked' = blocked - 1
      /\ Enqueue(c.p, 1) /\ gq' = gq /\ pidle' = pidle /\ insys' = insys
      /\ nmspinning' = nmspinning /\ netw' = netw /\ netev' = netev
  BY DEF ready, At, Become, Goto, Return, P, queues, idle, spinning, net, others
<1>4. /\ lq' \in [Ps -> Nat] /\ (\A q \in Ps : q # c.p => lq'[q] = lq[q])
      /\ Sum(lq', Ps) = Sum(lq, Ps) + 1
  BY <1>2, <1>3, EnqueueStep DEF Sound, ThreadOK, HasP, WithP
<1>5. /\ w \in ThreadStates /\ w.pc = "wakep" /\ w.p = c.p /\ w.old = c.old /\ w.spin = c.spin
      /\ w.hold = c.hold /\ w.hspin = c.hspin /\ w.ret = "run" /\ w.n = c.n /\ w.rest = c.rest
      /\ w.owed = c.owed
  BY <1>2, <1>3, <1>4 DEF Sound, ThreadStates, PCs, Rets, WithP, WithoutP, Handoffs, Injects
<1> HIDE DEF w
<1>6. /\ c.p \in Ps /\ c.hold = NoP /\ c.spin = FALSE /\ c.hspin = FALSE /\ c.owed = 0
      /\ c.rest = 0
  BY <1>2, <1>3, <1>4 DEF Sound, ThreadStates, ThreadOK, HasP, Returns, Spins, Owes, Place,
     WithP, WithoutP, Handoffs, Injects
<1>7. ThreadOK(w)
  BY <1>2, <1>3, <1>4, <1>5, <1>6 DEF Sound, ThreadOK, HasP, Returns, Spins, Owes, Place, WithP,
     WithoutP, Handoffs, Injects
<1>8. Moved(m, w)
  BY <1>1, <1>2, <1>3, <1>4, <1>5, <1>6, <1>7 DEF Moved, Sound
<1>9. OwnStep(c, w)
  BY <1>1, <1>3, <1>4, <1>5, <1>6, OwnSame
<1>10. QueueStep(w)
  BY <1>2, <1>3, <1>4, <1>5, <1>6 DEF QueueStep, Owns, Drained, Sound
<1>11. Counts(w) = 0 /\ Counts(c) = 0 /\ Carries(w) = 1 /\ Carries(c) = 1
  BY <1>2, <1>3, <1>4, <1>5, <1>6, CarriesType DEF Sound, ThreadStates, Counts, Carries, Bit
<1>12. CountStep(c, w)
  BY <1>2, <1>3, <1>4, <1>5, <1>6, <1>11 DEF Sound, CountStep
<1>13. QED
  BY <1>1, <1>8, <1>9, <1>10, <1>12, StepKeeps

LEMMA parkKeeps == ASSUME Inv, NEW m \in Ms, park(m) PROVE Inv'
<1> DEFINE c == th[m]
           w == [c EXCEPT !.pc = "find", !.seen = {}]
<1>1. m \in Threads /\ m # Sysmon
  BY SchedAssumption DEF Threads
<1>2. Sound(c)
  BY <1>1, SoundNow
<1>3. /\ th' = [th EXCEPT ![m] = w] /\ c.pc = "run" /\ blocked' = blocked + 1 /\ gq' = gq
      /\ lq' = lq /\ pidle' = pidle /\ insys' = insys /\ nmspinning' = nmspinning
      /\ netw' = netw /\ netev' = netev
  BY DEF park, At, Become, Goto, Return, P, queues, idle, spinning, net, others
<1>4. /\ w \in ThreadStates /\ w.pc = "find" /\ w.p = c.p /\ w.old = c.old /\ w.spin = c.spin
      /\ w.hold = c.hold /\ w.hspin = c.hspin /\ w.ret = c.ret /\ w.n = c.n /\ w.rest = c.rest
      /\ w.owed = c.owed
  BY <1>2, <1>3 DEF Sound, ThreadStates, PCs, Rets, WithP, WithoutP, Handoffs, Injects
<1> HIDE DEF w
<1>5. /\ c.p \in Ps /\ c.hold = NoP /\ c.spin = FALSE /\ c.hspin = FALSE /\ c.owed = 0
      /\ c.rest = 0
  BY <1>2, <1>3 DEF Sound, ThreadStates, ThreadOK, HasP, Returns, Spins, Owes, Place, WithP,
     WithoutP, Handoffs, Injects
<1>6. ThreadOK(w)
  BY <1>2, <1>3, <1>4, <1>5 DEF Sound, ThreadOK, HasP, Returns, Spins, Owes, Place, WithP,
     WithoutP, Handoffs, Injects
<1>7. Moved(m, w)
  BY <1>1, <1>2, <1>3, <1>4, <1>5, <1>6 DEF Moved, Sound
<1>8. OwnStep(c, w)
  BY <1>1, <1>3, <1>4, <1>5, OwnSame
<1>9. QueueStep(w)
  BY <1>1, <1>2, <1>3, <1>4, <1>5, QueueSame DEF Drained
<1>10. Counts(w) = 0 /\ Counts(c) = 0 /\ Carries(w) = 0 /\ Carries(c) = 1
  BY <1>2, <1>3, <1>4, <1>5, CarriesType DEF Sound, ThreadStates, Counts, Carries, Bit
<1>11. CountStep(c, w)
  BY <1>2, <1>3, <1>4, <1>5, <1>10 DEF Sound, CountStep
<1>12. QED
  BY <1>1, <1>7, <1>8, <1>9, <1>11, StepKeeps

LEMMA parkNetKeeps == ASSUME Inv, NEW m \in Ms, parkNet(m) PROVE Inv'
<1> DEFINE c == th[m]
           w == [c EXCEPT !.pc = "count", !.seen = {}]
<1>1. m \in Threads /\ m # Sysmon
  BY SchedAssumption DEF Threads
<1>2. Sound(c)
  BY <1>1, SoundNow
<1>3. /\ th' = [th EXCEPT ![m] = w] /\ c.pc = "run" /\ blocked' = blocked /\ gq' = gq
      /\ lq' = lq /\ pidle' = pidle /\ insys' = insys /\ nmspinning' = nmspinning
      /\ netw' = netw + 1 /\ netev' = netev
  BY DEF parkNet, At, Become, Goto, Return, P, queues, idle, spinning, net, others
<1>4. /\ w \in ThreadStates /\ w.pc = "count" /\ w.p = c.p /\ w.old = c.old /\ w.spin = c.spin
      /\ w.hold = c.hold /\ w.hspin = c.hspin /\ w.ret = c.ret /\ w.n = c.n /\ w.rest = c.rest
      /\ w.owed = c.owed
  BY <1>2, <1>3 DEF Sound, ThreadStates, PCs, Rets, WithP, WithoutP, Handoffs, Injects
<1> HIDE DEF w
<1>5. /\ c.p \in Ps /\ c.hold = NoP /\ c.spin = FALSE /\ c.hspin = FALSE /\ c.owed = 0
      /\ c.rest = 0
  BY <1>2, <1>3 DEF Sound, ThreadStates, ThreadOK, HasP, Returns, Spins, Owes, Place, WithP,
     WithoutP, Handoffs, Injects
<1>6. ThreadOK(w)
  BY <1>2, <1>3, <1>4, <1>5 DEF Sound, ThreadOK, HasP, Returns, Spins, Owes, Place, WithP,
     WithoutP, Handoffs, Injects
<1>7. Moved(m, w)
  BY <1>1, <1>2, <1>3, <1>4, <1>5, <1>6 DEF Moved, Sound
<1>8. OwnStep(c, w)
  BY <1>1, <1>3, <1>4, <1>5, OwnSame
<1>9. QueueStep(w)
  BY <1>1, <1>2, <1>3, <1>4, <1>5, QueueSame DEF Drained
<1>10. Counts(w) = 0 /\ Counts(c) = 0 /\ Carries(w) = 0 /\ Carries(c) = 1
  BY <1>2, <1>3, <1>4, <1>5, CarriesType DEF Sound, ThreadStates, Counts, Carries, Bit
<1>11. CountStep(c, w)
  BY <1>2, <1>3, <1>4, <1>5, <1>10 DEF Sound, CountStep
<1>12. QED
  BY <1>1, <1>7, <1>8, <1>9, <1>11, StepKeeps

LEMMA goschedImplKeeps == ASSUME Inv, NEW m \in Ms, goschedImpl(m) PROVE Inv'
<1> DEFINE c == th[m]
           w == [c EXCEPT !.pc = "wakep", !.ret = "find"]
<1>1. m \in Threads /\ m # Sysmon
  BY SchedAssumption DEF Threads
<1>2. Sound(c)
  BY <1>1, SoundNow
<1>3. /\ th' = [th EXCEPT ![m] = w] /\ c.pc = "run" /\ blocked' = blocked /\ gq' = gq + 1
      /\ lq' = lq /\ pidle' = pidle /\ insys' = insys /\ nmspinning' = nmspinning
      /\ netw' = netw /\ netev' = netev
  BY DEF goschedImpl, At, Become, Goto, Return, P, queues, idle, spinning, net, others
<1>4. /\ w \in ThreadStates /\ w.pc = "wakep" /\ w.p = c.p /\ w.old = c.old /\ w.spin = c.spin
      /\ w.hold = c.hold /\ w.hspin = c.hspin /\ w.ret = "find" /\ w.n = c.n /\ w.rest = c.rest
      /\ w.owed = c.owed
  BY <1>2, <1>3 DEF Sound, ThreadStates, PCs, Rets, WithP, WithoutP, Handoffs, Injects
<1> HIDE DEF w
<1>5. /\ c.p \in Ps /\ c.hold = NoP /\ c.spin = FALSE /\ c.hspin = FALSE /\ c.owed = 0
      /\ c.rest = 0
  BY <1>2, <1>3 DEF Sound, ThreadStates, ThreadOK, HasP, Returns, Spins, Owes, Place, WithP,
     WithoutP, Handoffs, Injects
<1>6. ThreadOK(w)
  BY <1>2, <1>3, <1>4, <1>5 DEF Sound, ThreadOK, HasP, Returns, Spins, Owes, Place, WithP,
     WithoutP, Handoffs, Injects
<1>7. Moved(m, w)
  BY <1>1, <1>2, <1>3, <1>4, <1>5, <1>6 DEF Moved, Sound
<1>8. OwnStep(c, w)
  BY <1>1, <1>3, <1>4, <1>5, OwnSame
<1>9. QueueStep(w)
  BY <1>1, <1>2, <1>3, <1>4, <1>5, QueueSame DEF Drained
<1>10. Counts(w) = 0 /\ Counts(c) = 0 /\ Carries(w) = 0 /\ Carries(c) = 1
  BY <1>2, <1>3, <1>4, <1>5, CarriesType DEF Sound, ThreadStates, Counts, Carries, Bit
<1>11. CountStep(c, w)
  BY <1>2, <1>3, <1>4, <1>5, <1>10 DEF Sound, CountStep
<1>12. QED
  BY <1>1, <1>7, <1>8, <1>9, <1>11, StepKeeps

LEMMA entersyscallKeeps == ASSUME Inv, NEW m \in Ms, entersyscall(m) PROVE Inv'
<1> DEFINE c == th[m]
           w == [c EXCEPT !.pc = "syscall", !.old = c.p, !.p = NoP]
<1>1. m \in Threads /\ m # Sysmon
  BY SchedAssumption DEF Threads
<1>2. Sound(c)
  BY <1>1, SoundNow
<1>3. /\ th' = [th EXCEPT ![m] = w] /\ c.pc = "run" /\ gq' = gq /\ lq' = lq /\ pidle' = pidle
      /\ insys' = insys \cup {c.p} /\ blocked' = blocked /\ nmspinning' = nmspinning
      /\ netw' = netw /\ netev' = netev
  BY DEF entersyscall, At, Become, Goto, Return, P, queues, idle, spinning, net, others
<1>4. /\ w \in ThreadStates /\ w.pc = "syscall" /\ w.p = NoP /\ w.old = c.p /\ w.spin = c.spin
      /\ w.hold = c.hold /\ w.hspin = c.hspin /\ w.ret = c.ret /\ w.n = c.n /\ w.rest = c.rest
      /\ w.owed = c.owed
  BY <1>2, <1>3 DEF Sound, ThreadStates, PCs, WithoutP, AnyP
<1> HIDE DEF w
<1>5. /\ c.p \in Ps /\ c.hold = NoP /\ c.spin = FALSE /\ c.hspin = FALSE /\ c.owed = 0
      /\ c.rest = 0
  BY <1>2, <1>3 DEF Sound, ThreadStates, ThreadOK, HasP, Returns, Spins, Owes, Place, WithP,
     WithoutP, Handoffs, Injects
<1>6. ThreadOK(w)
  BY <1>2, <1>3, <1>4, <1>5 DEF Sound, ThreadOK, HasP, Returns, Spins, Owes, Place, WithP,
     WithoutP, Handoffs, Injects
<1>7. Moved(m, w)
  BY <1>1, <1>2, <1>3, <1>4, <1>5, <1>6 DEF Moved, Sound
<1>8. OwnStep(c, w)
  BY <1>1, <1>2, <1>3, <1>4, <1>5, OwnGives DEF Sound
<1>9. QueueStep(w)
  BY <1>1, <1>2, <1>3, <1>4, <1>5, QueueSame DEF Drained
<1>10. Counts(w) = 0 /\ Counts(c) = 0 /\ Carries(w) = 1 /\ Carries(c) = 1
  BY <1>2, <1>3, <1>4, <1>5, CarriesType DEF Sound, ThreadStates, Counts, Carries, Bit
<1>11. CountStep(c, w)
  BY <1>2, <1>3, <1>4, <1>5, <1>10 DEF Sound, CountStep
<1>12. QED
  BY <1>1, <1>7, <1>8, <1>9, <1>11, StepKeeps

LEMMA exitsyscallfastKeeps == ASSUME Inv, NEW m \in Ms, exitsyscallfast(m) PROVE Inv'
<1> DEFINE c == th[m]
           w == [c EXCEPT !.pc = "run", !.p = c.old, !.old = NoP]
<1>1. m \in Threads /\ m # Sysmon
  BY SchedAssumption DEF Threads
<1>2. Sound(c)
  BY <1>1, SoundNow
<1>3. /\ th' = [th EXCEPT ![m] = w] /\ c.pc = "syscall" /\ c.old \in insys /\ gq' = gq
      /\ lq' = lq /\ pidle' = pidle /\ insys' = insys \ {c.old} /\ blocked' = blocked
      /\ nmspinning' = nmspinning /\ netw' = netw /\ netev' = netev
  BY DEF exitsyscallfast, At, Become, Goto, Return, P, queues, idle, spinning, net, others
<1>4. /\ w \in ThreadStates /\ w.pc = "run" /\ w.p = c.old /\ w.old = NoP /\ w.spin = c.spin
      /\ w.hold = c.hold /\ w.hspin = c.hspin /\ w.ret = c.ret /\ w.n = c.n /\ w.rest = c.rest
      /\ w.owed = c.owed
  BY <1>2, <1>3 DEF Sound, ThreadStates, PCs, WithP, AnyP
<1> HIDE DEF w
<1>5. /\ c.p = NoP /\ c.hold = NoP /\ c.spin = FALSE /\ c.hspin = FALSE /\ c.owed = 0
      /\ c.rest = 0 /\ c.old \in Ps
  BY <1>2, <1>3 DEF Sound, ThreadStates, ThreadOK, HasP, Returns, Spins, Owes, Place, WithP,
     WithoutP, Handoffs, Injects
<1>6. ThreadOK(w)
  BY <1>2, <1>3, <1>4, <1>5 DEF Sound, ThreadOK, HasP, Returns, Spins, Owes, Place, WithP,
     WithoutP, Handoffs, Injects
<1>7. Moved(m, w)
  BY <1>1, <1>2, <1>3, <1>4, <1>5, <1>6 DEF Moved, Sound
<1>8. OwnStep(c, w)
  <2>1. pidle' = pidle \ {c.old}
    BY <1>2, <1>3 DEF Sound
  <2>2. QED
    BY <1>1, <1>3, <1>4, <1>5, <2>1, OwnTakes
<1>9. QueueStep(w)
  BY <1>1, <1>2, <1>3, <1>4, <1>5, QueueSame DEF Drained
<1>10. Counts(w) = 0 /\ Counts(c) = 0 /\ Carries(w) = 1 /\ Carries(c) = 1
  BY <1>2, <1>3, <1>4, <1>5, CarriesType DEF Sound, ThreadStates, Counts, Carries, Bit
<1>11. CountStep(c, w)
  BY <1>2, <1>3, <1>4, <1>5, <1>10 DEF Sound, CountStep
<1>12. QED
  BY <1>1, <1>7, <1>8, <1>9, <1>11, StepKeeps

LEMMA exitsyscallLostKeeps == ASSUME Inv, NEW m \in Ms, exitsyscallLost(m) PROVE Inv'
<1> DEFINE w == [th[m] EXCEPT !.pc = "exit0", !.old = NoP]
<1>1. m \in Threads
  BY DEF Threads
<1>2. /\ Become(m, w) /\ th[m].pc = "syscall" /\ lq' = lq /\ gq' = gq /\ pidle' = pidle
      /\ insys' = insys /\ nmspinning' = nmspinning /\ blocked' = blocked /\ netw' = netw
      /\ netev' = netev
  BY DEF exitsyscallLost, At, queues, idle, spinning, net, others
<1>3. th[m] \in ThreadStates
  BY <1>1, Facts
<1>4. Alike(w, th[m]) /\ w.pc = "exit0"
  BY <1>3 DEF Alike, ThreadStates, PCs, WithoutP, AnyP
<1> HIDE DEF w
<1>5. QED
  BY <1>1, <1>2, <1>4, MoveKeeps DEF Edges

LEMMA exitsyscall0Keeps == ASSUME Inv, NEW m \in Ms, exitsyscall0(m) PROVE Inv'
<1>1. ASSUME NEW p \in pidle, pidle' = pidle \ {p}, gq' = gq,
             Become(m, [th[m] EXCEPT !.pc = "run", !.p = p])
      PROVE  Inv'
  <2> DEFINE c == th[m]
             w == [c EXCEPT !.pc = "run", !.p = p]
  <2>1. m \in Threads /\ m # Sysmon
    BY SchedAssumption DEF Threads
  <2>2. Sound(c)
    BY <2>1, SoundNow
  <2>3. /\ th' = [th EXCEPT ![m] = w] /\ c.pc = "exit0" /\ insys' = insys /\ lq' = lq
        /\ blocked' = blocked /\ nmspinning' = nmspinning /\ netw' = netw /\ netev' = netev
    BY <1>1 DEF exitsyscall0, At, Become, Goto, Return, P, queues, idle, spinning, net, others
  <2>4. /\ w \in ThreadStates /\ w.pc = "run" /\ w.p = p /\ w.old = c.old /\ w.spin = c.spin
        /\ w.hold = c.hold /\ w.hspin = c.hspin /\ w.ret = c.ret /\ w.n = c.n /\ w.rest = c.rest
        /\ w.owed = c.owed
    BY <2>2, <2>3 DEF Sound, ThreadStates, PCs, WithP, AnyP
  <2> HIDE DEF w
  <2>5. /\ c.p = NoP /\ c.hold = NoP /\ c.spin = FALSE /\ c.hspin = FALSE /\ c.owed = 0
        /\ c.rest = 0 /\ p \in Ps
    BY <2>2, <2>3 DEF Sound, ThreadStates, ThreadOK, HasP, Returns, Spins, Owes, Place, WithP,
       WithoutP, Handoffs, Injects
  <2>6. ThreadOK(w)
    BY <2>2, <2>3, <2>4, <2>5 DEF Sound, ThreadOK, HasP, Returns, Spins, Owes, Place, WithP,
       WithoutP, Handoffs, Injects
  <2>7. Moved(m, w)
    BY <2>1, <2>2, <2>3, <2>4, <2>5, <2>6 DEF Moved, Sound
  <2>8. OwnStep(c, w)
    <3>1. insys' = insys \ {p}
      BY <2>2, <2>3 DEF Sound
    <3>2. QED
      BY <1>1, <2>1, <2>3, <2>4, <2>5, <3>1, OwnTakes
  <2>9. QueueStep(w)
    BY <1>1, <2>1, <2>2, <2>3, <2>4, <2>5, QueueSame DEF Drained
  <2>10. Counts(w) = 0 /\ Counts(c) = 0 /\ Carries(w) = 1 /\ Carries(c) = 1
    BY <2>2, <2>3, <2>4, <2>5, CarriesType DEF Sound, ThreadStates, Counts, Carries, Bit
  <2>11. CountStep(c, w)
    BY <2>2, <2>3, <2>4, <2>5, <2>10, <1>1 DEF Sound, CountStep
  <2>12. QED
    BY <2>1, <2>7, <2>8, <2>9, <2>11, StepKeeps
<1>2. ASSUME pidle = {}, pidle' = pidle, gq' = gq + 1, Become(m, Thread)
      PROVE  Inv'
  <2> DEFINE c == th[m]
             w == Thread
  <2>1. m \in Threads /\ m # Sysmon
    BY SchedAssumption DEF Threads
  <2>2. Sound(c)
    BY <2>1, SoundNow
  <2>3. /\ th' = [th EXCEPT ![m] = w] /\ c.pc = "exit0" /\ insys' = insys /\ lq' = lq
        /\ blocked' = blocked /\ nmspinning' = nmspinning /\ netw' = netw /\ netev' = netev
    BY <1>2 DEF exitsyscall0, At, Become, Goto, Return, P, queues, idle, spinning, net, others
  <2>4. /\ w \in ThreadStates /\ w.pc = "parked" /\ w.p = NoP /\ w.old = NoP /\ w.spin = FALSE
        /\ w.hold = NoP /\ w.hspin = FALSE /\ w.ret = "run" /\ w.n = 0 /\ w.rest = 0
        /\ w.owed = 0
    BY ThreadFields
  <2> HIDE DEF w
  <2>5. /\ c.p = NoP /\ c.hold = NoP /\ c.spin = FALSE /\ c.hspin = FALSE /\ c.owed = 0
        /\ c.rest = 0
    BY <2>2, <2>3 DEF Sound, ThreadStates, ThreadOK, HasP, Returns, Spins, Owes, Place, WithP,
       WithoutP, Handoffs, Injects
  <2>6. ThreadOK(w)
    BY <2>2, <2>3, <2>4, <2>5 DEF Sound, ThreadOK, HasP, Returns, Spins, Owes, Place, WithP,
       WithoutP, Handoffs, Injects
  <2>7. Moved(m, w)
    BY <2>1, <2>2, <2>3, <2>4, <2>5, <2>6 DEF Moved, Sound
  <2>8. OwnStep(c, w)
    BY <1>2, <2>1, <2>3, <2>4, <2>5, OwnSame
  <2>9. QueueStep(w)
    BY <1>2, <2>1, <2>2, <2>3, <2>4, <2>5, QueueSame DEF Drained
  <2>10. Counts(w) = 0 /\ Counts(c) = 0 /\ Carries(w) = 0 /\ Carries(c) = 1
    BY <2>2, <2>3, <2>4, <2>5, CarriesType DEF Sound, ThreadStates, Counts, Carries, Bit
  <2>11. CountStep(c, w)
    BY <2>2, <2>3, <2>4, <2>5, <2>10, <1>2 DEF Sound, CountStep
  <2>12. QED
    BY <2>1, <2>7, <2>8, <2>9, <2>11, StepKeeps
<1>3. QED
  BY <1>1, <1>2 DEF exitsyscall0

-----------------------------------------------------------------------------
(***************************************************************************)
(* wakep, resetspinning and becomeSpinning.                                *)
(***************************************************************************)

LEMMA wakepKeeps == ASSUME Inv, NEW m \in Ms, wakep(m) PROVE Inv'
<1>1. ASSUME nmspinning = 0, nmspinning' = 1, Goto(m, "wakeP") PROVE Inv'
  <2> DEFINE c == th[m]
             w == [c EXCEPT !.pc = "wakeP", !.seen = {}]
  <2>1. m \in Threads /\ m # Sysmon
    BY SchedAssumption DEF Threads
  <2>2. Sound(c)
    BY <2>1, SoundNow
  <2>3. /\ th' = [th EXCEPT ![m] = w] /\ c.pc = "wakep" /\ lq' = lq /\ pidle' = pidle
        /\ insys' = insys /\ gq' = gq /\ blocked' = blocked /\ netw' = netw /\ netev' = netev
    BY <1>1 DEF wakep, At, Become, Goto, Return, P, queues, idle, spinning, net, others
  <2>4. /\ w \in ThreadStates /\ w.pc = "wakeP" /\ w.p = c.p /\ w.old = c.old /\ w.spin = c.spin
        /\ w.hold = c.hold /\ w.hspin = c.hspin /\ w.ret = c.ret /\ w.n = c.n /\ w.rest = c.rest
        /\ w.owed = c.owed
    BY <2>2, <2>3 DEF Sound, ThreadStates, PCs, Rets, WithP, WithoutP, Handoffs, Injects
  <2> HIDE DEF w
  <2>5. /\ c.p \in Ps /\ c.hold = NoP /\ c.spin = FALSE /\ c.hspin = FALSE /\ c.owed = 0
        /\ c.rest = 0 /\ c.ret \in {"run", "find"}
    BY <2>2, <2>3 DEF Sound, ThreadStates, ThreadOK, HasP, Returns, Spins, Owes, Place, WithP,
       WithoutP, Handoffs, Injects
  <2>6. ThreadOK(w)
    BY <2>2, <2>3, <2>4, <2>5 DEF Sound, ThreadOK, HasP, Returns, Spins, Owes, Place, WithP,
       WithoutP, Handoffs, Injects
  <2>7. Moved(m, w)
    BY <2>1, <2>2, <2>3, <2>4, <2>5, <2>6 DEF Moved, Sound
  <2>8. OwnStep(c, w)
    BY <2>1, <2>3, <2>4, <2>5, OwnSame
  <2>9. QueueStep(w)
    BY <2>1, <2>2, <2>3, <2>4, <2>5, QueueSame DEF Drained
  <2>10. Counts(w) = 1 /\ Counts(c) = 0 /\ Carries(w) = Carries(c) /\ Carries(c) \in Nat
    BY <2>2, <2>3, <2>4, <2>5, CarriesType DEF Sound, ThreadStates, Counts, Carries, Bit
  <2>11. CountStep(c, w)
    BY <2>2, <2>3, <2>4, <2>5, <2>10, <1>1 DEF Sound, CountStep
  <2>12. QED
    BY <2>1, <2>7, <2>8, <2>9, <2>11, StepKeeps
<1>2. ASSUME nmspinning' = nmspinning, Return(m) PROVE Inv'
  <2> DEFINE c == th[m]
             w == [c EXCEPT !.pc = c.ret, !.ret = "run"]
  <2>1. m \in Threads /\ m # Sysmon
    BY SchedAssumption DEF Threads
  <2>2. Sound(c)
    BY <2>1, SoundNow
  <2>3. /\ th' = [th EXCEPT ![m] = w] /\ c.pc = "wakep" /\ c.ret \in {"run", "find"} /\ lq' = lq
        /\ pidle' = pidle /\ insys' = insys /\ gq' = gq /\ blocked' = blocked /\ netw' = netw
        /\ netev' = netev
    BY <1>2, <2>2 DEF Sound, ThreadOK, Returns, wakep, At, Become, Goto, Return, P, queues,
       idle, spinning, net, others
  <2>4. /\ w \in ThreadStates /\ w.pc = c.ret /\ w.p = c.p /\ w.old = c.old /\ w.spin = c.spin
        /\ w.hold = c.hold /\ w.hspin = c.hspin /\ w.ret = "run" /\ w.n = c.n /\ w.rest = c.rest
        /\ w.owed = c.owed
    BY <2>2, <2>3 DEF Sound, ThreadStates, PCs, Rets, WithP, WithoutP, Handoffs, Injects
  <2> HIDE DEF w
  <2>5. /\ c.p \in Ps /\ c.hold = NoP /\ c.spin = FALSE /\ c.hspin = FALSE /\ c.owed = 0
        /\ c.rest = 0 /\ c.ret \in {"run", "find"}
    BY <2>2, <2>3 DEF Sound, ThreadStates, ThreadOK, HasP, Returns, Spins, Owes, Place, WithP,
       WithoutP, Handoffs, Injects
  <2>6. ThreadOK(w)
    BY <2>2, <2>3, <2>4, <2>5 DEF Sound, ThreadOK, HasP, Returns, Spins, Owes, Place, WithP,
       WithoutP, Handoffs, Injects
  <2>7. Moved(m, w)
    BY <2>1, <2>2, <2>3, <2>4, <2>5, <2>6 DEF Moved, Sound
  <2>8. OwnStep(c, w)
    BY <2>1, <2>3, <2>4, <2>5, OwnSame
  <2>9. QueueStep(w)
    BY <2>1, <2>2, <2>3, <2>4, <2>5, QueueSame DEF Drained
  <2>10. Counts(w) = 0 /\ Counts(c) = 0 /\ Carries(w) = Carries(c) /\ Carries(c) \in Nat
    BY <2>2, <2>3, <2>4, <2>5, CarriesType DEF Sound, ThreadStates, Counts, Carries, Bit
  <2>11. CountStep(c, w)
    BY <2>2, <2>3, <2>4, <2>5, <2>10, <1>2 DEF Sound, CountStep
  <2>12. QED
    BY <2>1, <2>7, <2>8, <2>9, <2>11, StepKeeps
<1>3. QED
  BY <1>1, <1>2 DEF wakep

LEMMA wakepGetKeeps == ASSUME Inv, NEW m \in Ms, wakepGet(m) PROVE Inv'
<1>1. ASSUME NEW p \in pidle, pidle' = pidle \ {p}, UNCHANGED spinning,
             Become(m, [th[m] EXCEPT !.pc = "startm", !.hold = p, !.hspin = TRUE])
      PROVE  Inv'
  <2> DEFINE c == th[m]
             w == [c EXCEPT !.pc = "startm", !.hold = p, !.hspin = TRUE]
  <2>1. m \in Threads /\ m # Sysmon
    BY SchedAssumption DEF Threads
  <2>2. Sound(c)
    BY <2>1, SoundNow
  <2>3. /\ th' = [th EXCEPT ![m] = w] /\ c.pc = "wakeP" /\ insys' = insys /\ lq' = lq
        /\ nmspinning' = nmspinning /\ gq' = gq /\ blocked' = blocked /\ netw' = netw
        /\ netev' = netev
    BY <1>1 DEF wakepGet, At, Become, Goto, Return, P, queues, idle, spinning, net, others
  <2>4. c.p # p /\ p # NoP
    BY <2>2, <2>3 DEF Sound, Owns
  <2>5. /\ w \in ThreadStates /\ w.pc = "startm" /\ w.p = c.p /\ w.old = c.old
        /\ w.spin = c.spin /\ w.hold = p /\ w.hspin = TRUE /\ w.ret = c.ret /\ w.n = c.n
        /\ w.rest = c.rest /\ w.owed = c.owed
    BY <2>2, <2>3, <2>4 DEF Sound, ThreadStates, PCs, AnyP
  <2> HIDE DEF w
  <2>6. /\ c.p \in Ps /\ c.hold = NoP /\ c.spin = FALSE /\ c.hspin = FALSE /\ c.owed = 0
        /\ c.rest = 0 /\ c.ret \in {"run", "find"} /\ p \in Ps /\ c.p # p
    BY <2>2, <2>3, <2>4 DEF Sound, ThreadStates, ThreadOK, HasP, Returns, Spins, Owes, Place,
       WithP, WithoutP, Handoffs, Injects
  <2>7. ThreadOK(w)
    BY <2>2, <2>3, <2>4, <2>5, <2>6 DEF Sound, ThreadOK, HasP, Returns, Spins, Owes, Place,
       WithP, WithoutP, Handoffs, Injects
  <2>8. Moved(m, w)
    BY <2>1, <2>2, <2>3, <2>5, <2>6, <2>7 DEF Moved, Sound
  <2>9. OwnStep(c, w)
    <3>1. insys' = insys \ {p}
      BY <2>2, <2>3 DEF Sound
    <3>2. QED
      BY <1>1, <2>1, <2>3, <2>5, <2>6, <3>1, OwnTakes
  <2>10. QueueStep(w)
    BY <1>1, <2>1, <2>2, <2>3, <2>5, <2>6, QueueSame DEF Drained
  <2>11. Counts(w) = 1 /\ Counts(c) = 1 /\ Carries(w) = Carries(c) /\ Carries(c) \in Nat
    BY <2>2, <2>3, <2>4, <2>5, <2>6, CarriesType DEF Sound, ThreadStates, Counts, Carries, Bit
  <2>12. CountStep(c, w)
    BY <2>2, <2>3, <2>4, <2>5, <2>6, <2>11 DEF Sound, CountStep
  <2>13. QED
    BY <2>1, <2>8, <2>9, <2>10, <2>12, StepKeeps
<1>2. ASSUME pidle' = pidle, nmspinning' = nmspinning - 1, Return(m) PROVE Inv'
  <2> DEFINE c == th[m]
             w == [c EXCEPT !.pc = c.ret, !.ret = "run"]
  <2>1. m \in Threads /\ m # Sysmon
    BY SchedAssumption DEF Threads
  <2>2. Sound(c)
    BY <2>1, SoundNow
  <2>3. /\ th' = [th EXCEPT ![m] = w] /\ c.pc = "wakeP" /\ c.ret \in {"run", "find"} /\ lq' = lq
        /\ pidle' = pidle /\ insys' = insys /\ gq' = gq /\ blocked' = blocked /\ netw' = netw
        /\ netev' = netev
    BY <1>2, <2>2 DEF Sound, ThreadOK, Returns, wakepGet, At, Become, Goto, Return, P, queues,
       idle, spinning, net, others
  <2>4. /\ w \in ThreadStates /\ w.pc = c.ret /\ w.p = c.p /\ w.old = c.old /\ w.spin = c.spin
        /\ w.hold = c.hold /\ w.hspin = c.hspin /\ w.ret = "run" /\ w.n = c.n /\ w.rest = c.rest
        /\ w.owed = c.owed
    BY <2>2, <2>3 DEF Sound, ThreadStates, PCs, Rets, WithP, WithoutP, Handoffs, Injects
  <2> HIDE DEF w
  <2>5. /\ c.p \in Ps /\ c.hold = NoP /\ c.spin = FALSE /\ c.hspin = FALSE /\ c.owed = 0
        /\ c.rest = 0 /\ c.ret \in {"run", "find"}
    BY <2>2, <2>3 DEF Sound, ThreadStates, ThreadOK, HasP, Returns, Spins, Owes, Place, WithP,
       WithoutP, Handoffs, Injects
  <2>6. ThreadOK(w)
    BY <2>2, <2>3, <2>4, <2>5 DEF Sound, ThreadOK, HasP, Returns, Spins, Owes, Place, WithP,
       WithoutP, Handoffs, Injects
  <2>7. Moved(m, w)
    BY <2>1, <2>2, <2>3, <2>4, <2>5, <2>6 DEF Moved, Sound
  <2>8. OwnStep(c, w)
    BY <2>1, <2>3, <2>4, <2>5, OwnSame
  <2>9. QueueStep(w)
    BY <2>1, <2>2, <2>3, <2>4, <2>5, QueueSame DEF Drained
  <2>10. Counts(w) = 0 /\ Counts(c) = 1 /\ Carries(w) = Carries(c) /\ Carries(c) \in Nat
    BY <2>2, <2>3, <2>4, <2>5, CarriesType DEF Sound, ThreadStates, Counts, Carries, Bit
  <2>11. CountStep(c, w)
    BY <2>2, <2>3, <2>4, <2>5, <2>10, <1>2 DEF Sound, CountStep
  <2>12. QED
    BY <2>1, <2>7, <2>8, <2>9, <2>11, StepKeeps
<1>3. QED
  BY <1>1, <1>2 DEF wakepGet

LEMMA resetspinningKeeps == ASSUME Inv, NEW m \in Ms, resetspinning(m) PROVE Inv'
<1> DEFINE c == th[m]
           w == [c EXCEPT !.pc = "wakep", !.spin = FALSE, !.ret = "run"]
<1>1. m \in Threads /\ m # Sysmon
  BY SchedAssumption DEF Threads
<1>2. Sound(c)
  BY <1>1, SoundNow
<1>3. /\ th' = [th EXCEPT ![m] = w] /\ c.pc = "reset" /\ nmspinning' = nmspinning - 1
      /\ lq' = lq /\ pidle' = pidle /\ insys' = insys /\ gq' = gq /\ blocked' = blocked
      /\ netw' = netw /\ netev' = netev
  BY DEF resetspinning, At, Become, Goto, Return, P, queues, idle, spinning, net, others
<1>4. /\ w \in ThreadStates /\ w.pc = "wakep" /\ w.p = c.p /\ w.old = c.old /\ w.spin = FALSE
      /\ w.hold = c.hold /\ w.hspin = c.hspin /\ w.ret = "run" /\ w.n = c.n /\ w.rest = c.rest
      /\ w.owed = c.owed
  BY <1>2, <1>3 DEF Sound, ThreadStates, PCs, Rets, WithP, WithoutP, Handoffs, Injects
<1> HIDE DEF w
<1>5. /\ c.p \in Ps /\ c.hold = NoP /\ c.spin = TRUE /\ c.hspin = FALSE /\ c.owed = 0
      /\ c.rest = 0
  BY <1>2, <1>3 DEF Sound, ThreadStates, ThreadOK, HasP, Returns, Spins, Owes, Place, WithP,
     WithoutP, Handoffs, Injects
<1>6. ThreadOK(w)
  BY <1>2, <1>3, <1>4, <1>5 DEF Sound, ThreadOK, HasP, Returns, Spins, Owes, Place, WithP,
     WithoutP, Handoffs, Injects
<1>7. Moved(m, w)
  BY <1>1, <1>2, <1>3, <1>4, <1>5, <1>6 DEF Moved, Sound
<1>8. OwnStep(c, w)
  BY <1>1, <1>3, <1>4, <1>5, OwnSame
<1>9. QueueStep(w)
  BY <1>1, <1>2, <1>3, <1>4, <1>5, QueueSame DEF Drained
<1>10. Counts(w) = 0 /\ Counts(c) = 1 /\ Carries(w) = 1 /\ Carries(c) = 1
  BY <1>2, <1>3, <1>4, <1>5, CarriesType DEF Sound, ThreadStates, Counts, Carries, Bit
<1>11. CountStep(c, w)
  BY <1>2, <1>3, <1>4, <1>5, <1>10 DEF Sound, CountStep
<1>12. QED
  BY <1>1, <1>7, <1>8, <1>9, <1>11, StepKeeps

LEMMA findDropKeeps == ASSUME Inv, NEW m \in Ms, findDrop(m) PROVE Inv'
<1> DEFINE c == th[m]
           w == [c EXCEPT !.pc = "again", !.spin = FALSE, !.was = TRUE]
<1>1. m \in Threads /\ m # Sysmon
  BY SchedAssumption DEF Threads
<1>2. Sound(c)
  BY <1>1, SoundNow
<1>3. /\ th' = [th EXCEPT ![m] = w] /\ c.pc = "drop" /\ nmspinning' = nmspinning - 1 /\ lq' = lq
      /\ pidle' = pidle /\ insys' = insys /\ gq' = gq /\ blocked' = blocked /\ netw' = netw
      /\ netev' = netev
  BY DEF findDrop, AfterDrop, At, Become, Goto, Return, P, queues, idle, spinning, net, others
<1>4. /\ w \in ThreadStates /\ w.pc = "again" /\ w.p = c.p /\ w.old = c.old /\ w.spin = FALSE
      /\ w.hold = c.hold /\ w.hspin = c.hspin /\ w.ret = c.ret /\ w.n = c.n /\ w.rest = c.rest
      /\ w.owed = c.owed
  BY <1>2, <1>3 DEF Sound, ThreadStates, PCs, Rets, WithP, WithoutP, Handoffs, Injects
<1> HIDE DEF w
<1>5. /\ c.p = NoP /\ c.hold = NoP /\ c.spin = TRUE /\ c.hspin = FALSE /\ c.owed = 0
      /\ c.rest = 0
  BY <1>2, <1>3 DEF Sound, ThreadStates, ThreadOK, HasP, Returns, Spins, Owes, Place, WithP,
     WithoutP, Handoffs, Injects
<1>6. ThreadOK(w)
  BY <1>2, <1>3, <1>4, <1>5 DEF Sound, ThreadOK, HasP, Returns, Spins, Owes, Place, WithP,
     WithoutP, Handoffs, Injects
<1>7. Moved(m, w)
  BY <1>1, <1>2, <1>3, <1>4, <1>5, <1>6 DEF Moved, Sound
<1>8. OwnStep(c, w)
  BY <1>1, <1>3, <1>4, <1>5, OwnSame
<1>9. QueueStep(w)
  BY <1>1, <1>2, <1>3, <1>4, <1>5, QueueSame DEF Drained
<1>10. Counts(w) = 0 /\ Counts(c) = 1 /\ Carries(w) = 0 /\ Carries(c) = 0
  BY <1>2, <1>3, <1>4, <1>5, CarriesType DEF Sound, ThreadStates, Counts, Carries, Bit
<1>11. CountStep(c, w)
  BY <1>2, <1>3, <1>4, <1>5, <1>10 DEF Sound, CountStep
<1>12. QED
  BY <1>1, <1>7, <1>8, <1>9, <1>11, StepKeeps

\* A thread that has a P and does not spin begins to.
LEMMA SpinKeeps ==
    ASSUME Inv, NEW m \in Ms, NEW to,
           \/ th[m].pc = "respin" /\ to = "spun"
           \/ th[m].pc = "release" /\ to = "find",
           ~th[m].spin, Become(m, [th[m] EXCEPT !.pc = to, !.spin = TRUE]),
           nmspinning' = nmspinning + 1, lq' = lq, gq' = gq, pidle' = pidle, insys' = insys,
           blocked' = blocked, netw' = netw, netev' = netev
    PROVE  Inv'
<1> DEFINE c == th[m]
           w == [c EXCEPT !.pc = to, !.spin = TRUE]
<1>1. m \in Threads /\ m # Sysmon
  BY SchedAssumption DEF Threads
<1>2. Sound(c)
  BY <1>1, SoundNow
<1>3. th' = [th EXCEPT ![m] = w] /\ c.spin = FALSE
  BY <1>2 DEF Become, Sound, ThreadStates
<1>4. c.pc = "respin" => c.ret \in {"reset", "find", "scan"}
  BY <1>2 DEF Sound, ThreadOK, Returns
<1>5. /\ w \in ThreadStates /\ w.pc = to /\ w.p = c.p /\ w.old = c.old /\ w.spin = TRUE
      /\ w.hold = c.hold /\ w.hspin = c.hspin /\ w.ret = c.ret /\ w.n = c.n /\ w.rest = c.rest
      /\ w.owed = c.owed
  BY <1>2, <1>3, <1>4 DEF Sound, ThreadStates, PCs, WithP
<1> HIDE DEF w
<1>6. c.p \in Ps /\ c.hold = NoP /\ c.hspin = FALSE /\ c.owed = 0 /\ c.rest = 0
  BY <1>2, <1>3, <1>4 DEF Sound, ThreadStates, ThreadOK, HasP, Returns, Spins, Owes, Place,
     WithP, WithoutP, Handoffs, Injects
<1>7. ThreadOK(w)
  BY <1>2, <1>3, <1>4, <1>5, <1>6 DEF Sound, ThreadOK, HasP, Returns, Spins, Owes, Place, WithP,
     WithoutP, Handoffs, Injects
<1>8. Moved(m, w)
  BY <1>1, <1>2, <1>3, <1>5, <1>6, <1>7 DEF Moved, Sound
<1>9. OwnStep(c, w)
  BY <1>1, <1>3, <1>5, <1>6, OwnSame
<1>10. QueueStep(w)
  <2>1. \A p \in Ps : Drained(w, p) => Drained(c, p)
    BY <1>4, <1>5 DEF Drained, Handoffs
  <2>2. QED
    BY <1>1, <2>1, QueueSame
<1>11. Counts(w) = 1 /\ Counts(c) = 0 /\ Carries(w) = Carries(c) /\ Carries(c) \in Nat
  BY <1>2, <1>3, <1>4, <1>5, <1>6, CarriesType DEF Sound, ThreadStates, Counts, Carries, Bit
<1>12. CountStep(c, w)
  BY <1>2, <1>3, <1>4, <1>5, <1>6, <1>11 DEF Sound, CountStep
<1>13. QED
  BY <1>1, <1>8, <1>9, <1>10, <1>12, StepKeeps

LEMMA becomeSpinningKeeps == ASSUME Inv, NEW m \in Ms, becomeSpinning(m) PROVE Inv'
<1>1. m \in Threads
  BY DEF Threads
<1>2. Sound(th[m]) /\ th[m].pc = "respin"
  BY <1>1, SoundNow DEF becomeSpinning, At
<1>3. ~th[m].spin
  BY <1>2 DEF Sound, ThreadOK, Spins, Place, Injects
<1>4. QED
  BY <1>2, <1>3, SpinKeeps DEF becomeSpinning, queues, idle, net, others

LEMMA becomeSpinningStoreKeeps ==
    ASSUME Inv, NEW m \in Ms, becomeSpinningStore(m) PROVE Inv'
<1> DEFINE c == th[m]
           w == [c EXCEPT !.pc = c.ret, !.ret = "run"]
<1>1. m \in Threads /\ m # Sysmon
  BY SchedAssumption DEF Threads
<1>2. Sound(c)
  BY <1>1, SoundNow
<1>3. /\ th' = [th EXCEPT ![m] = w] /\ c.pc = "spun" /\ c.ret \in {"reset", "find", "scan"}
      /\ lq' = lq /\ pidle' = pidle /\ insys' = insys /\ gq' = gq /\ nmspinning' = nmspinning
      /\ blocked' = blocked /\ netw' = netw /\ netev' = netev
  BY <1>2 DEF Sound, ThreadOK, Returns, becomeSpinningStore, At, Become, Return, queues, idle,
     net, others
<1>4. /\ w \in ThreadStates /\ w.pc = c.ret /\ w.p = c.p /\ w.old = c.old /\ w.spin = c.spin
      /\ w.hold = c.hold /\ w.hspin = c.hspin /\ w.ret = "run" /\ w.n = c.n /\ w.rest = c.rest
      /\ w.owed = c.owed
  BY <1>2, <1>3 DEF Sound, ThreadStates, PCs, Rets, WithP
<1> HIDE DEF w
<1>5. /\ c.p \in Ps /\ c.hold = NoP /\ c.spin = TRUE /\ c.hspin = FALSE /\ c.owed = 0
      /\ c.rest = 0
  BY <1>2, <1>3 DEF Sound, ThreadStates, ThreadOK, HasP, Returns, Spins, Owes, Place,
     WithP, WithoutP, Handoffs, Injects
<1>6. ThreadOK(w)
  BY <1>2, <1>3, <1>4, <1>5 DEF Sound, ThreadOK, HasP, Returns, Spins, Owes, Place, WithP,
     WithoutP, Handoffs, Injects
<1>7. Moved(m, w)
  BY <1>1, <1>3, <1>4, <1>6 DEF Moved
<1>8. \A p \in Ps : Drained(w, p) => Drained(c, p)
  BY <1>3, <1>4 DEF Drained, Handoffs
<1>9. Counts(w) = Counts(c) /\ Carries(w) = Carries(c)
  BY <1>3, <1>4, <1>5 DEF Counts, Carries, Bit
<1>10. QED
  BY <1>1, <1>3, <1>4, <1>7, <1>8, <1>9, PlainStep

-----------------------------------------------------------------------------
(***************************************************************************)
(* findRunnable, with a P.                                                 *)
(***************************************************************************)
\* globrunqget takes at least one goroutine, and no more than there are.
LEMMA ShareBounds ==
    ASSUME NEW g \in Nat, g > 0 PROVE Share(g) \in Nat /\ 1 <= Share(g) /\ Share(g) <= g
<1>1. gomaxprocs \in Nat \ {0}
  BY ThreadsFinite, SchedAssumption, FS_CardinalityType, FS_EmptySet DEF gomaxprocs
<1>2. PICK n \in Nat \ {0} : n = gomaxprocs
  BY <1>1
<1>3. g \div n \in Nat
  BY <1>2
<1>4. PICK k \in Nat : k = g \div gomaxprocs
  BY <1>2, <1>3
<1>5. Share(g) = IF k + 1 > g THEN g ELSE k + 1
  BY <1>4 DEF Share
<1>6. QED
  BY <1>5

\* runqgrab takes at least one goroutine, and no more than there are.
LEMMA GrabsBounds ==
    ASSUME NEW l \in Nat, l > 0, NEW n \in Grabs(l) PROVE n \in Nat /\ 1 <= n /\ n <= l
BY DEF Grabs

\* What globrunqget takes is on the P's queue, but for the one that is run.
LEMMA TakeGlobalQueues ==
    ASSUME lq \in [Ps -> Nat], gq \in Nat, gq > 0, NEW m, NEW w, NEW p \in Ps, TakeGlobal(m, w, p)
    PROVE  /\ lq' \in [Ps -> Nat] /\ gq' \in Nat /\ gq' + Sum(lq', Ps) = gq + Sum(lq, Ps) - 1
           /\ \A q \in Ps : q # p => lq'[q] = lq[q]
<1>1. PICK s \in Nat : s = Share(gq) /\ 1 <= s /\ s <= gq
  BY ShareBounds
<1>2. s - 1 \in Int /\ lq[p] + (s - 1) \in Nat /\ Enqueue(p, s - 1) /\ gq' = gq - s
  BY <1>1 DEF TakeGlobal
<1>3. /\ lq' \in [Ps -> Nat] /\ (\A q \in Ps : q # p => lq'[q] = lq[q])
      /\ Sum(lq, Ps) \in Nat /\ Sum(lq', Ps) = Sum(lq, Ps) + (s - 1)
  BY <1>2, EnqueueStep
<1>4. QED
  BY <1>1, <1>2, <1>3

\* A sum moves by as much as the two places that change.
LEMMA SumMovesTwice ==
    ASSUME NEW f \in [Ps -> Nat], NEW h \in [Ps -> Nat], NEW p \in Ps, NEW q \in Ps, p # q,
           \A r \in Ps : r # p /\ r # q => h[r] = f[r]
    PROVE  Sum(f, Ps) \in Nat /\ Sum(h, Ps) = Sum(f, Ps) - f[q] + h[q] - f[p] + h[p]
<1> DEFINE g == [r \in Ps |-> IF r = q THEN h[q] ELSE f[r]]
<1>1. g \in [Ps -> Nat] /\ g[q] = h[q] /\ g[p] = f[p]
  OBVIOUS
<1>2. \A r \in Ps : r # q => g[r] = f[r]
  OBVIOUS
<1>3. \A r \in Ps : r # p => h[r] = g[r]
  OBVIOUS
<1> HIDE DEF g
<1>4. Sum(f, Ps) \in Nat /\ Sum(g, Ps) \in Nat /\ Sum(g, Ps) = Sum(f, Ps) - f[q] + g[q]
  BY <1>1, <1>2, SumMoves, ThreadsFinite
<1>5. Sum(h, Ps) = Sum(g, Ps) - g[p] + h[p]
  BY <1>1, <1>3, SumMoves, ThreadsFinite
<1>6. f[p] \in Nat /\ f[q] \in Nat /\ h[p] \in Nat /\ h[q] \in Nat
  OBVIOUS
<1>7. QED
  BY <1>1, <1>4, <1>5, <1>6

\* The queues after a theft of n goroutines, of which one is run.
LEMMA StealQueues ==
    ASSUME lq \in [Ps -> Nat], NEW p \in Ps, NEW q \in Ps, p # q, NEW n \in Nat, 1 <= n,
           n <= lq[q], lq' = [lq EXCEPT ![q] = @ - n, ![p] = @ + n - 1]
    PROVE  /\ lq' \in [Ps -> Nat] /\ Sum(lq', Ps) = Sum(lq, Ps) - 1 /\ Sum(lq, Ps) \in Nat
           /\ \A r \in Ps : lq'[r] <= lq[r] \/ r = p
<1>1. lq[p] \in Nat /\ lq[q] \in Nat /\ lq[q] - n \in Nat /\ lq[p] + n - 1 \in Nat
  OBVIOUS
<1>2. /\ lq' \in [Ps -> Nat] /\ lq'[p] = lq[p] + n - 1 /\ lq'[q] = lq[q] - n
      /\ \A r \in Ps : r # p /\ r # q => lq'[r] = lq[r]
  BY <1>1
<1>3. \A r \in Ps : lq'[r] <= lq[r] \/ r = p
  <2>1. SUFFICES ASSUME NEW r \in Ps, r # p PROVE lq'[r] <= lq[r]
    OBVIOUS
  <2>2. lq[r] \in Nat /\ (r # q => lq'[r] = lq[r])
    BY <1>2, <2>1
  <2>3. QED
    BY <1>1, <1>2, <2>2
<1>4. PICK f \in [Ps -> Nat] : f = lq
  OBVIOUS
<1>5. PICK h \in [Ps -> Nat] : h = lq'
  BY <1>2
<1>6. /\ n <= f[q] /\ h[q] = f[q] - n /\ h[p] = f[p] + n - 1
      /\ \A r \in Ps : r # p /\ r # q => h[r] = f[r]
  BY <1>2, <1>4, <1>5
<1>7. Sum(h, Ps) = Sum(f, Ps) - 1 /\ Sum(f, Ps) \in Nat
  <2>1. Sum(f, Ps) \in Nat /\ Sum(h, Ps) = Sum(f, Ps) - f[q] + h[q] - f[p] + h[p]
    BY <1>6, SumMovesTwice
  <2>2. PICK x, y, s \in Nat : x = f[q] /\ y = f[p] /\ s = Sum(f, Ps)
    BY <2>1
  <2>3. Sum(h, Ps) = s - x + (x - n) - y + (y + n - 1)
    BY <1>6, <2>1, <2>2, Zenon
  <2>4. QED
    BY <2>2, <2>3
<1>8. QED
  BY <1>2, <1>3, <1>4, <1>5, <1>7

LEMMA findGlobalFirstKeeps == ASSUME Inv, NEW m \in Ms, findGlobalFirst(m) PROVE Inv'
<1>1. m \in Threads
  BY DEF Threads
<1>2. Sound(th[m])
  BY <1>1, SoundNow
<1>3. QED
  BY <1>2, FoundKeeps DEF Sound, findGlobalFirst, At, queues, idle, spinning, net, others

LEMMA findLocalKeeps == ASSUME Inv, NEW m \in Ms, findLocal(m) PROVE Inv'
<1>1. m \in Threads
  BY DEF Threads
<1>2. Sound(th[m]) /\ th[m].pc = "find"
  BY <1>1, SoundNow DEF findLocal, At
<1>3. th[m].p \in Ps /\ lq[th[m].p] > 0 /\ lq[th[m].p] \in Nat
  BY <1>2 DEF Sound, ThreadOK, HasP, WithP, findLocal, P
<1>4. -1 \in Int /\ lq[th[m].p] + (-1) \in Nat /\ Enqueue(th[m].p, -1)
  BY <1>3 DEF findLocal, P
<1>5. /\ lq' \in [Ps -> Nat] /\ (\A q \in Ps : q # th[m].p => lq'[q] = lq[q])
      /\ Sum(lq, Ps) \in Nat /\ Sum(lq', Ps) = Sum(lq, Ps) + (-1)
  BY <1>2, <1>3, <1>4, EnqueueStep DEF Sound
<1>6. \A q \in Ps : lq'[q] <= lq[q] \/ q = th[m].p
  BY <1>2, <1>5 DEF Sound
<1>7. gq' \in Nat /\ gq' + Sum(lq', Ps) = gq + Sum(lq, Ps) - 1
  BY <1>2, <1>5 DEF Sound, findLocal
<1>8. QED
  BY <1>2, <1>5, <1>6, <1>7, FoundKeeps DEF findLocal, queues, idle, spinning, net, others

LEMMA findGlobalKeeps == ASSUME Inv, NEW m \in Ms, findGlobal(m) PROVE Inv'
<1>1. m \in Threads
  BY DEF Threads
<1>2. /\ Sound(th[m]) /\ th[m].pc = "find" /\ lq[th[m].p] = 0 /\ pidle' = pidle /\ insys' = insys
      /\ nmspinning' = nmspinning /\ blocked' = blocked /\ netw' = netw /\ netev' = netev
  BY <1>1, SoundNow DEF findGlobal, At, P, idle, spinning, net
<1>3. CASE gq > 0
  <2>1. TakeGlobal(m, Found(th[m]), th[m].p) /\ th[m].p \in Ps
    BY <1>2, <1>3 DEF findGlobal, P, Sound, ThreadOK, HasP, WithP
  <2>2. /\ lq' \in [Ps -> Nat] /\ gq' \in Nat /\ gq' + Sum(lq', Ps) = gq + Sum(lq, Ps) - 1
        /\ \A q \in Ps : q # th[m].p => lq'[q] = lq[q]
    BY <1>2, <1>3, <2>1, TakeGlobalQueues DEF Sound
  <2>3. \A q \in Ps : lq'[q] <= lq[q] \/ q = th[m].p
    BY <1>2, <2>2 DEF Sound
  <2>4. Become(m, Found(th[m]))
    BY <2>1 DEF TakeGlobal
  <2>5. QED
    BY <1>2, <2>2, <2>3, <2>4, FoundKeeps
<1>4. CASE ~(gq > 0)
  <2>1. Goto(m, "poll") /\ lq' = lq /\ gq' = gq
    BY <1>4 DEF findGlobal, queues
  <2>2. <<th[m].pc, "poll">> \in Edges
    BY <1>2 DEF Edges
  <2>3. QED
    BY <1>1, <1>2, <2>1, <2>2, EdgeKeeps
<1>5. QED
  BY <1>3, <1>4

\* A thread has looked at one more P.
LEMMA SeenKeeps ==
    ASSUME Inv, NEW m \in Ms, NEW q \in Ps, Become(m, [th[m] EXCEPT !.seen = @ \cup {q}]),
           lq' = lq, gq' = gq, pidle' = pidle, insys' = insys, nmspinning' = nmspinning,
           blocked' = blocked, netw' = netw, netev' = netev
    PROVE  Inv'
<1> DEFINE c == th[m]
           w == [c EXCEPT !.seen = @ \cup {q}]
<1>1. m \in Threads /\ m # Sysmon
  BY SchedAssumption DEF Threads
<1>2. Sound(c) /\ th' = [th EXCEPT ![m] = w]
  BY <1>1, SoundNow DEF Become
<1>3. /\ w \in ThreadStates /\ w.pc = c.pc /\ w.p = c.p /\ w.old = c.old /\ w.spin = c.spin
      /\ w.hold = c.hold /\ w.hspin = c.hspin /\ w.ret = c.ret /\ w.n = c.n /\ w.rest = c.rest
      /\ w.owed = c.owed
  BY <1>2 DEF Sound, ThreadStates
<1> HIDE DEF w
<1>4. ThreadOK(w)
  BY <1>2, <1>3 DEF Sound, ThreadOK, HasP, Returns, Spins, Owes, Place
<1>5. Counts(w) = Counts(c) /\ Carries(w) = Carries(c)
  BY <1>3, Zenon DEF Counts, Carries
<1>6. \A p \in Ps : Drained(w, p) => Drained(c, p) \/ lq[p] = 0
  BY <1>3 DEF Drained
<1>7. Moved(m, w)
  BY <1>1, <1>2, <1>3, <1>4 DEF Moved
<1>8. QED
  BY <1>1, <1>3, <1>5, <1>6, <1>7, PlainStep

LEMMA findStealKeeps == ASSUME Inv, NEW m \in Ms, findSteal(m) PROVE Inv'
<1>1. m \in Threads
  BY DEF Threads
<1>2. /\ Sound(th[m]) /\ th[m].pc = "steal" /\ lq' = lq /\ gq' = gq /\ pidle' = pidle
      /\ insys' = insys /\ nmspinning' = nmspinning /\ blocked' = blocked /\ netw' = netw
      /\ netev' = netev
  BY <1>1, SoundNow DEF findSteal, At, queues, idle, spinning, net, others
<1>3. CASE Goto(m, "scan")
  <2>1. <<th[m].pc, "scan">> \in Edges
    BY <1>2 DEF Edges
  <2>2. QED
    BY <1>1, <1>2, <1>3, <2>1, EdgeKeeps
<1>4. CASE ~th[m].spin /\ Become(m, [th[m] EXCEPT !.pc = "limit", !.nm = nmspinning])
  <2> DEFINE w == [th[m] EXCEPT !.pc = "limit", !.nm = nmspinning]
  <2>1. Alike(w, th[m]) /\ w.pc = "limit"
    BY <1>2 DEF Sound, Alike, ThreadStates, PCs, WithP
  <2>2. Become(m, w)
    BY <1>4
  <2> HIDE DEF w
  <2>3. <<th[m].pc, w.pc>> \in Edges
    BY <1>2, <2>1 DEF Edges
  <2>4. QED
    BY <1>1, <1>2, <1>4, <2>1, <2>2, <2>3, MoveKeeps
<1>5. QED
  BY <1>3, <1>4 DEF findSteal

LEMMA findLimitKeeps == ASSUME Inv, NEW m \in Ms, findLimit(m) PROVE Inv'
<1>1. m \in Threads /\ m # Sysmon
  BY SchedAssumption DEF Threads
<1>2. /\ Sound(th[m]) /\ th[m].pc = "limit" /\ lq' = lq /\ gq' = gq /\ pidle' = pidle
      /\ insys' = insys /\ nmspinning' = nmspinning /\ blocked' = blocked /\ netw' = netw
      /\ netev' = netev
  BY <1>1, SoundNow DEF findLimit, At, queues, idle, spinning, net, others
<1> DEFINE c == th[m]
           v == [[c EXCEPT !.nm = 0] EXCEPT !.pc = "respin", !.ret = "scan"]
           w == [[c EXCEPT !.nm = 0] EXCEPT !.pc = "release"]
<1>3. Become(m, v) \/ Become(m, w)
  BY DEF findLimit
<1>4. CASE Become(m, v)
  <2>1. /\ v \in ThreadStates /\ v.pc = "respin" /\ v.ret = "scan" /\ v.p = c.p /\ v.spin = c.spin
        /\ v.hold = c.hold /\ v.hspin = c.hspin /\ v.n = c.n /\ v.rest = c.rest
        /\ v.owed = c.owed
    <3>1. PICK u : u = [c EXCEPT !.nm = 0]
      OBVIOUS
    <3>2. /\ u \in ThreadStates /\ u.p = c.p /\ u.spin = c.spin /\ u.hold = c.hold
          /\ u.hspin = c.hspin /\ u.n = c.n /\ u.rest = c.rest /\ u.owed = c.owed
      BY <1>2, <3>1 DEF Sound, ThreadStates
    <3>3. v = [u EXCEPT !.pc = "respin", !.ret = "scan"]
      BY <3>1
    <3> HIDE DEF v
    <3>4. QED
      BY <3>2, <3>3 DEF ThreadStates, PCs, WithP, Rets
  <2>2. th' = [th EXCEPT ![m] = v]
    BY <1>4 DEF Become
  <2> HIDE DEF v
  <2>3. /\ c.p \in Ps /\ c.hold = NoP /\ c.spin = FALSE /\ c.hspin = FALSE /\ c.owed = 0
        /\ c.rest = 0
    <3>1. c.owed \in Nat /\ c.rest \in Nat /\ c.spin \in BOOLEAN /\ c.hspin \in BOOLEAN
      BY <1>2 DEF Sound, ThreadStates
    <3>2. HasP(c) /\ Spins(c) /\ Owes(c)
      BY <1>2 DEF Sound, ThreadOK
    <3>3. QED
      BY <1>2, <3>1, <3>2 DEF HasP, Spins, Owes, Place, WithP, WithoutP, Handoffs, Injects
  <2>4. ThreadOK(v)
    BY <2>1, <2>3 DEF ThreadOK, HasP, Returns, Spins, Owes, Place, WithP, WithoutP, Handoffs, Injects
  <2>5. Moved(m, v)
    BY <1>1, <2>1, <2>2, <2>4 DEF Moved
  <2>6. \A p \in Ps : Drained(v, p) => Drained(c, p)
    BY <1>2, <2>1 DEF Drained, Handoffs
  <2>7. Counts(v) = Counts(c) /\ Carries(v) = Carries(c)
    BY <1>2, <2>1, <2>3 DEF Counts, Carries, Bit
  <2>8. QED
    BY <1>1, <1>2, <2>1, <2>5, <2>6, <2>7, PlainStep
<1>5. CASE Become(m, w)
  <2>1. Alike(w, th[m]) /\ w.pc = "release"
    <3>1. PICK u : u = [c EXCEPT !.nm = 0]
      OBVIOUS
    <3>2. Alike(u, c)
      BY <1>2, <3>1 DEF Sound, Alike, ThreadStates
    <3>3. w = [u EXCEPT !.pc = "release"]
      BY <3>1
    <3> HIDE DEF w
    <3>4. QED
      BY <3>2, <3>3 DEF Alike, ThreadStates, PCs, WithP
  <2> HIDE DEF w
  <2>2. <<th[m].pc, w.pc>> \in Edges
    BY <1>2, <2>1 DEF Edges
  <2>3. QED
    BY <1>1, <1>2, <1>5, <2>1, <2>2, MoveKeeps
<1>6. QED
  BY <1>3, <1>4, <1>5

LEMMA stealWorkKeeps == ASSUME Inv, NEW m \in Ms, stealWork(m) PROVE Inv'
<1>1. m \in Threads
  BY DEF Threads
<1>2. /\ Sound(th[m]) /\ th[m].pc = "scan" /\ gq' = gq /\ pidle' = pidle
      /\ insys' = insys /\ nmspinning' = nmspinning /\ blocked' = blocked /\ netw' = netw
      /\ netev' = netev
  BY <1>1, SoundNow DEF stealWork, At, idle, spinning, net, others
<1>3. PICK q \in Ps \ (th[m].seen \cup {P(m)}) :
          IF q \notin pidle /\ lq[q] > 0
          THEN \E n \in Grabs(lq[q]) :
                  /\ lq' = [lq EXCEPT ![q] = @ - n, ![P(m)] = @ + n - 1]
                  /\ Become(m, Found(th[m]))
          ELSE Looked(m, q, Ps \ {P(m)}, "release") /\ UNCHANGED lq
  BY Zenon DEF stealWork
<1>4. CASE q \notin pidle /\ lq[q] > 0
  <2>1. PICK n \in Grabs(lq[q]) : /\ lq' = [lq EXCEPT ![q] = @ - n, ![th[m].p] = @ + n - 1]
                                  /\ Become(m, Found(th[m]))
    BY <1>3, <1>4 DEF P
  <2>2. lq[q] \in Nat /\ th[m].p \in Ps /\ th[m].p # q /\ q \in Ps
    BY <1>2, <1>3 DEF Sound, P, ThreadOK, HasP, WithP
  <2>3. n \in Nat /\ 1 <= n /\ n <= lq[q]
    BY <1>4, <2>2, GrabsBounds
  <2>4. /\ lq' \in [Ps -> Nat] /\ Sum(lq', Ps) = Sum(lq, Ps) - 1 /\ Sum(lq, Ps) \in Nat
        /\ \A r \in Ps : lq'[r] <= lq[r] \/ r = th[m].p
    BY <1>2, <2>1, <2>2, <2>3, StealQueues DEF Sound
  <2>5. gq' \in Nat /\ gq' + Sum(lq', Ps) = gq + Sum(lq, Ps) - 1
    BY <1>2, <2>4 DEF Sound
  <2>6. QED
    BY <1>2, <2>1, <2>4, <2>5, FoundKeeps
<1>5. CASE ~(q \notin pidle /\ lq[q] > 0)
  <2>1. lq' = lq /\ (\/ Goto(m, "release")
                     \/ Become(m, [th[m] EXCEPT !.seen = @ \cup {q}]))
    BY <1>3, <1>5 DEF Looked
  <2>2. <<th[m].pc, "release">> \in Edges
    BY <1>2 DEF Edges
  <2>3. CASE Goto(m, "release")
    BY <1>1, <1>2, <2>1, <2>2, <2>3, EdgeKeeps
  <2>4. CASE Become(m, [th[m] EXCEPT !.seen = @ \cup {q}])
    BY <1>2, <1>3, <2>1, <2>4, SeenKeeps
  <2>5. QED
    BY <2>1, <2>3, <2>4
<1>6. QED
  BY <1>4, <1>5

\* State w is c with k goroutines to inject and a debt of d.
Injector(w, c, k, d) ==
    /\ w \in ThreadStates /\ w.p = c.p /\ w.old = c.old /\ w.spin = c.spin
    /\ w.hold = c.hold /\ w.hspin = c.hspin /\ w.ret = c.ret /\ w.rest = k /\ w.owed = d
    /\ w.n \in Nat /\ w.n <= k /\ (c.p = NoP => w.n = k)
    /\ w.pc = IF w.n > 0 THEN "injectG" ELSE IF k > 0 THEN "injectP" ELSE "adjust"

\* What injectglist leaves in the thread.
LEMMA InjectFields ==
    ASSUME NEW c \in ThreadStates, NEW k \in Nat, NEW d \in Nat, NEW free \in Nat
    PROVE  Injector([Inject(c, k, free) EXCEPT !.owed = d], c, k, d)
<1> DEFINE w == [Inject(c, k, free) EXCEPT !.owed = d]
           n == IF c.p = NoP \/ k < free THEN k ELSE free
           at == IF n > 0 THEN "injectG" ELSE IF k > 0 THEN "injectP" ELSE "adjust"
<1>1. n \in Nat /\ n <= k /\ (c.p = NoP => n = k)
  OBVIOUS
<1>2. at \in PCs
  BY DEF PCs, Injects
<1>3. w = [c EXCEPT !.rest = k, !.n = n, !.pc = at, !.owed = d]
  BY DEF Inject, ThreadStates
<1> HIDE DEF w
<1>4. w.n = n /\ w.pc = at
  BY <1>3 DEF ThreadStates
<1> HIDE DEF n, at
<1>5. /\ w \in ThreadStates /\ w.p = c.p /\ w.old = c.old /\ w.spin = c.spin
      /\ w.hold = c.hold /\ w.hspin = c.hspin /\ w.ret = c.ret /\ w.rest = k /\ w.owed = d
  BY <1>1, <1>2, <1>3 DEF ThreadStates
<1>6. Injector(w, c, k, d)
  BY <1>1, <1>4, <1>5 DEF n, at, Injector
<1>7. QED
  BY <1>6 DEF w

\* With a P one goroutine is kept.
LEMMA RunOneFields ==
    ASSUME NEW c \in ThreadStates, NEW k \in Nat, k > 0, NEW free \in Nat
    PROVE  Injector(RunOne(c, k, free), c, k - 1, k)
<1>1. k - 1 \in Nat
  OBVIOUS
<1>2. PICK j \in Nat : j = k - 1
  BY <1>1
<1>3. Injector([Inject(c, j, free) EXCEPT !.owed = k], c, j, k)
  BY InjectFields
<1>4. QED
  BY <1>2, <1>3 DEF RunOne

LEMMA IdleCounted == ASSUME Inv PROVE npidle \in Nat /\ (pidle # {} => npidle - 1 \in Nat)
<1>1. IsFiniteSet(pidle)
  BY ThreadsFinite, FS_Subset DEF Inv, TypeInv
<1>2. npidle \in Nat /\ (npidle = 0 <=> pidle = {})
  BY <1>1, FS_CardinalityType, FS_EmptySet DEF npidle
<1>3. QED
  BY <1>2

LEMMA findPollKeeps == ASSUME Inv, NEW m \in Ms, findPoll(m) PROVE Inv'
<1>1. ASSUME netev > 0, netev' = 0, Become(m, RunOne(th[m], netev, npidle)) PROVE Inv'
  <2> DEFINE c == th[m]
             w == RunOne(c, netev, npidle)
  <2>1. m \in Threads /\ m # Sysmon
    BY SchedAssumption DEF Threads
  <2>2. Sound(c)
    BY <2>1, SoundNow
  <2>3. /\ th' = [th EXCEPT ![m] = w] /\ c.pc = "poll" /\ gq' = gq /\ nmspinning' = nmspinning
        /\ blocked' = blocked /\ netw' = netw /\ lq' = lq /\ pidle' = pidle /\ insys' = insys
    BY <1>1 DEF findPoll, At, Become, Goto, Return, P, queues, idle, spinning, net, others
  <2>4. Injector(w, c, netev - 1, netev)
    BY <1>1, <2>2, IdleCounted, RunOneFields DEF Sound
  <2>5. /\ w \in ThreadStates /\ w.p = c.p /\ w.old = c.old /\ w.spin = c.spin
        /\ w.hold = c.hold /\ w.hspin = c.hspin /\ w.ret = c.ret /\ w.rest = netev - 1
        /\ w.owed = netev /\ w.n \in Nat /\ w.n <= netev - 1
        /\ w.pc = IF w.n > 0 THEN "injectG" ELSE IF netev - 1 > 0 THEN "injectP" ELSE "adjust"
    BY <2>4 DEF Injector
  <2> HIDE DEF w
  <2>6. /\ c.p \in Ps /\ c.hold = NoP /\ c.hspin = FALSE /\ c.owed = 0 /\ c.rest = 0
        /\ netev \in Nat
    BY <2>2, <2>3, <2>4 DEF Sound, ThreadStates, ThreadOK, HasP, Returns, Spins, Owes, Place,
       WithP, WithoutP, Handoffs, Injects
  <2>7. ThreadOK(w)
    BY <2>2, <2>3, <2>4, <2>5, <2>6, <1>1 DEF Sound, ThreadOK, HasP, Returns, Spins, Owes,
       Place, WithP, WithoutP, Handoffs, Injects
  <2>8. Moved(m, w)
    BY <2>1, <2>2, <2>3, <2>4, <2>5, <2>6, <2>7 DEF Moved, Sound
  <2>9. OwnStep(c, w)
    BY <2>1, <2>3, <2>4, <2>5, <2>6, OwnSame
  <2>10. QueueStep(w)
    BY <2>1, <2>2, <2>3, <2>4, <2>5, <2>6, QueueSame DEF Drained
  <2>11. Counts(w) = Counts(c) /\ Counts(c) \in Nat /\ Carries(w) = netev /\ Carries(c) = 0
    BY <2>2, <2>3, <2>4, <2>5, <2>6, CarriesType DEF Sound, ThreadStates, Counts, Carries, Bit
  <2>12. CountStep(c, w)
    BY <2>2, <2>3, <2>4, <2>5, <2>6, <2>11, <1>1 DEF Sound, CountStep
  <2>13. QED
    BY <2>1, <2>8, <2>9, <2>10, <2>12, StepKeeps
<1>2. ASSUME Goto(m, "steal"), netev' = netev PROVE Inv'
  <2>1. m \in Threads
    BY DEF Threads
  <2>2. /\ <<th[m].pc, "steal">> \in Edges /\ th[m].pc = "poll" /\ lq' = lq /\ gq' = gq
        /\ pidle' = pidle /\ insys' = insys /\ nmspinning' = nmspinning /\ blocked' = blocked
        /\ netw' = netw
    BY DEF Edges, findPoll, At, queues, idle, spinning, net, others
  <2>3. QED
    BY <1>2, <2>1, <2>2, EdgeKeeps
<1>3. QED
  BY <1>1, <1>2 DEF findPoll

LEMMA findReleaseKeeps == ASSUME Inv, NEW m \in Ms, findRelease(m) PROVE Inv'
<1>1. m \in Threads
  BY DEF Threads
<1>2. /\ Sound(th[m]) /\ th[m].pc = "release" /\ insys' = insys /\ blocked' = blocked
      /\ netw' = netw /\ netev' = netev
  BY <1>1, SoundNow DEF findRelease, At, net
<1>3. ASSUME gq > 0, TakeGlobal(m, Found(th[m]), P(m)), pidle' = pidle, UNCHANGED spinning
      PROVE  Inv'
  <2>1. TakeGlobal(m, Found(th[m]), th[m].p) /\ th[m].p \in Ps /\ nmspinning' = nmspinning
    BY <1>2, <1>3 DEF P, Sound, ThreadOK, HasP, WithP, spinning
  <2>2. /\ lq' \in [Ps -> Nat] /\ gq' \in Nat /\ gq' + Sum(lq', Ps) = gq + Sum(lq, Ps) - 1
        /\ \A q \in Ps : q # th[m].p => lq'[q] = lq[q]
    BY <1>2, <1>3, <2>1, TakeGlobalQueues DEF Sound
  <2>3. \A q \in Ps : lq'[q] <= lq[q] \/ q = th[m].p
    BY <1>2, <2>2 DEF Sound
  <2>4. Become(m, Found(th[m]))
    BY <2>1 DEF TakeGlobal
  <2>5. QED
    BY <1>2, <1>3, <2>1, <2>2, <2>3, <2>4, FoundKeeps
<1>4. ASSUME ~th[m].spin, nmspinning' = nmspinning + 1, UNCHANGED queues, pidle' = pidle,
             Become(m, [th[m] EXCEPT !.pc = "find", !.spin = TRUE])
      PROVE  Inv'
  BY <1>2, <1>4, SpinKeeps DEF queues
<1>5. ASSUME pidle' = pidle \cup {P(m)}, UNCHANGED <<queues, spinning>>,
             Become(m, [th[m] EXCEPT !.pc = IF th[m].spin THEN "drop" ELSE "mayBlock", !.p = NoP])
      PROVE  Inv'
  <2> DEFINE c == th[m]
             w == [c EXCEPT !.pc = IF c.spin THEN "drop" ELSE "mayBlock", !.p = NoP]
  <2>1. m \in Threads /\ m # Sysmon
    BY SchedAssumption DEF Threads
  <2>2. Sound(c)
    BY <2>1, SoundNow
  <2>3. /\ th' = [th EXCEPT ![m] = w] /\ pidle' = pidle \cup {c.p} /\ lq' = lq /\ gq' = gq
        /\ nmspinning' = nmspinning
    BY <1>5 DEF Become, P, queues, spinning
  <2>4. c.pc = "release"
    BY <1>2
  <2>5. lq[c.p] = 0
    BY <1>2, <2>2 DEF Sound, Drained, ThreadOK, HasP, WithP
  <2>6. /\ w \in ThreadStates /\ w.pc = (IF c.spin THEN "drop" ELSE "mayBlock") /\ w.p = NoP
        /\ w.old = c.old /\ w.spin = c.spin /\ w.hold = c.hold /\ w.hspin = c.hspin
        /\ w.ret = c.ret /\ w.n = c.n /\ w.rest = c.rest /\ w.owed = c.owed
    BY <2>2, <2>3, <2>4, <2>5 DEF Sound, ThreadStates, PCs, WithoutP, AnyP
  <2> HIDE DEF w
  <2>7. c.p \in Ps /\ c.hold = NoP /\ c.hspin = FALSE /\ c.owed = 0 /\ c.rest = 0
    BY <2>2, <2>3, <2>4, <2>5 DEF Sound, ThreadStates, ThreadOK, HasP, Returns, Spins, Owes,
       Place, WithP, WithoutP, Handoffs, Injects
  <2>8. ThreadOK(w)
    BY <2>2, <2>3, <2>4, <2>5, <2>6, <2>7 DEF Sound, ThreadOK, HasP, Returns, Spins, Owes,
       Place, WithP, WithoutP, Handoffs, Injects
  <2>9. Moved(m, w)
    BY <2>1, <2>2, <2>3, <2>4, <2>5, <2>6, <2>7, <2>8 DEF Moved, Sound
  <2>10. OwnStep(c, w)
    BY <1>2, <2>1, <2>2, <2>3, <2>6, <2>7, OwnGives DEF Sound
  <2>11. QueueStep(w)
    BY <2>1, <2>2, <2>3, <2>4, <2>5, <2>6, <2>7, QueueSame DEF Drained
  <2>12. Counts(w) = Counts(c) /\ Counts(c) \in Nat /\ Carries(w) = 0 /\ Carries(c) = 0
    BY <2>2, <2>3, <2>4, <2>5, <2>6, <2>7, CarriesType DEF Sound, ThreadStates, Counts, Carries,
       Bit
  <2>13. CountStep(c, w)
    BY <2>2, <2>3, <2>4, <2>5, <2>6, <2>7, <2>12, <1>2 DEF Sound, CountStep
  <2>14. QED
    BY <2>1, <2>9, <2>10, <2>11, <2>13, StepKeeps
<1>6. QED
  BY <1>3, <1>4, <1>5 DEF findRelease

-----------------------------------------------------------------------------
(***************************************************************************)
(* findRunnable, without a P.                                              *)
(***************************************************************************)

LEMMA findAgainKeeps == ASSUME Inv, NEW m \in Ms, findAgain(m) PROVE Inv'
<1>1. ASSUME gq > 0, NEW p \in pidle, pidle' = pidle \ {p},
             TakeGlobal(m, Respin(th[m], p, "reset"), p)
      PROVE  Inv'
  <2> DEFINE c == th[m]
             w == [c EXCEPT !.pc = "respin", !.p = p, !.ret = "reset", !.was = FALSE]
  <2>1. m \in Threads /\ m # Sysmon
    BY SchedAssumption DEF Threads
  <2>2. Sound(c)
    BY <2>1, SoundNow
  <2>3. /\ th' = [th EXCEPT ![m] = w] /\ c.pc = "again" /\ insys' = insys
        /\ nmspinning' = nmspinning /\ blocked' = blocked /\ netw' = netw /\ netev' = netev
    BY <1>1 DEF findAgain, Respin, TakeGlobal, At, Become, Goto, Return, P, queues, idle, spinning, net,
       others
  <2>4. /\ lq' \in [Ps -> Nat] /\ gq' \in Nat /\ gq' + Sum(lq', Ps) = gq + Sum(lq, Ps) - 1
        /\ (\A q \in Ps : q # p => lq'[q] = lq[q])
    BY <1>1, <2>2, TakeGlobalQueues DEF Sound
  <2>5. Sum(lq', Ps) \in Nat
    BY <2>4, SumType
  <2>6. /\ w \in ThreadStates /\ w.pc = "respin" /\ w.p = p /\ w.old = c.old /\ w.spin = c.spin
        /\ w.hold = c.hold /\ w.hspin = c.hspin /\ w.ret = "reset" /\ w.n = c.n
        /\ w.rest = c.rest /\ w.owed = c.owed
    BY <2>2, <2>3, <2>4, <2>5 DEF Sound, ThreadStates, PCs, WithP, AnyP, Rets
  <2> HIDE DEF w
  <2>7. /\ c.p = NoP /\ c.hold = NoP /\ c.spin = FALSE /\ c.hspin = FALSE /\ c.owed = 0
        /\ c.rest = 0 /\ p \in Ps
    BY <2>2, <2>3, <2>4, <2>5 DEF Sound, ThreadStates, ThreadOK, HasP, Returns, Spins, Owes,
       Place, WithP, WithoutP, Handoffs, Injects
  <2>8. ThreadOK(w)
    BY <2>2, <2>3, <2>4, <2>5, <2>6, <2>7 DEF Sound, ThreadOK, HasP, Returns, Spins, Owes,
       Place, WithP, WithoutP, Handoffs, Injects
  <2>9. Moved(m, w)
    BY <2>1, <2>2, <2>3, <2>4, <2>5, <2>6, <2>7, <2>8 DEF Moved, Sound
  <2>10. OwnStep(c, w)
    <3>1. insys' = insys \ {p}
      BY <2>2, <2>3 DEF Sound
    <3>2. QED
      BY <1>1, <2>1, <2>3, <2>6, <2>7, <3>1, OwnTakes
  <2>11. QueueStep(w)
    BY <1>1, <2>2, <2>3, <2>4, <2>5, <2>6, <2>7 DEF QueueStep, Owns, Drained, Sound
  <2>12. Counts(w) = 0 /\ Counts(c) = 0 /\ Carries(w) = 1 /\ Carries(c) = 0
    BY <2>2, <2>3, <2>4, <2>5, <2>6, <2>7, CarriesType DEF Sound, ThreadStates, Counts, Carries,
       Bit
  <2>13. CountStep(c, w)
    BY <2>2, <2>3, <2>4, <2>5, <2>6, <2>7, <2>12, <1>1 DEF Sound, CountStep
  <2>14. QED
    BY <2>1, <2>9, <2>10, <2>11, <2>13, StepKeeps
<1>2. ASSUME Goto(m, "queues"), UNCHANGED <<queues, pidle>> PROVE Inv'
  <2>1. m \in Threads
    BY DEF Threads
  <2>2. /\ <<th[m].pc, "queues">> \in Edges /\ th[m].pc = "again" /\ lq' = lq /\ gq' = gq
        /\ pidle' = pidle /\ insys' = insys /\ nmspinning' = nmspinning /\ blocked' = blocked
        /\ netw' = netw /\ netev' = netev
    BY <1>2 DEF Edges, findAgain, At, queues, idle, spinning, net, others
  <2>3. QED
    BY <1>2, <2>1, <2>2, EdgeKeeps
<1>3. QED
  BY <1>1, <1>2 DEF findAgain

LEMMA checkRunqsNoPKeeps == ASSUME Inv, NEW m \in Ms, checkRunqsNoP(m) PROVE Inv'
<1>1. m \in Threads
  BY DEF Threads
<1>2. /\ th[m].pc = "queues" /\ lq' = lq /\ gq' = gq /\ pidle' = pidle /\ insys' = insys
      /\ nmspinning' = nmspinning /\ blocked' = blocked /\ netw' = netw /\ netev' = netev
  BY DEF checkRunqsNoP, At, queues, idle, spinning, net, others
<1>3. PICK q \in Ps : \/ Goto(m, "getP") \/ Goto(m, "mayBlock")
                      \/ Become(m, [th[m] EXCEPT !.seen = @ \cup {q}])
  BY DEF checkRunqsNoP, Looked
<1>4. <<th[m].pc, "getP">> \in Edges /\ <<th[m].pc, "mayBlock">> \in Edges
  BY <1>2 DEF Edges
<1>5. CASE Goto(m, "getP")
  BY <1>1, <1>2, <1>4, <1>5, EdgeKeeps
<1>6. CASE Goto(m, "mayBlock")
  BY <1>1, <1>2, <1>4, <1>6, EdgeKeeps
<1>7. CASE Become(m, [th[m] EXCEPT !.seen = @ \cup {q}])
  BY <1>2, <1>7, SeenKeeps
<1>8. QED
  BY <1>3, <1>5, <1>6, <1>7

\* A thread takes an idle P and begins again.
LEMMA GetPKeeps ==
    ASSUME Inv, NEW m \in Ms, th[m].pc \in {"getP", "pollP"}, th[m].rest = 0,
           NEW p \in pidle, pidle' = pidle \ {p}, NEW w \in ThreadStates, Become(m, w),
           w.pc = "find" \/ (w.pc = "respin" /\ w.ret = "find"),
           w.p = p, w.spin = th[m].spin, w.hold = th[m].hold, w.hspin = th[m].hspin,
           w.rest = th[m].rest, w.owed = th[m].owed,
           lq' = lq, gq' = gq, insys' = insys, nmspinning' = nmspinning, blocked' = blocked,
           netw' = netw, netev' = netev
    PROVE  Inv'
<1> DEFINE c == th[m]
<1>1. m \in Threads /\ m # Sysmon
  BY SchedAssumption DEF Threads
<1>2. Sound(c)
  BY <1>1, SoundNow
<1>3. th' = [th EXCEPT ![m] = w] /\ p \in Ps
  BY <1>2 DEF Become, Sound
<1>4. /\ c.p = NoP /\ c.hold = NoP /\ c.spin = FALSE /\ c.hspin = FALSE /\ c.owed = 0
  BY <1>2 DEF Sound, ThreadStates, ThreadOK, HasP, Returns, Spins, Owes, Place, WithP,
     WithoutP, Handoffs, Injects
<1>5. ThreadOK(w)
  BY <1>3, <1>4 DEF ThreadOK, HasP, Returns, Spins, Owes, Place, WithP, WithoutP, Handoffs,
     Injects
<1>6. Moved(m, w)
  BY <1>1, <1>3, <1>5 DEF Moved
<1>7. OwnStep(c, w)
  <2>1. insys' = insys \ {p}
    BY <1>2 DEF Sound
  <2>2. QED
    BY <1>1, <1>4, <2>1, OwnTakes
<1>8. QueueStep(w)
  <2>1. \A q \in Ps : Drained(w, q) => lq[q] = 0
    BY <1>2 DEF Drained, Sound, Handoffs
  <2>2. QED
    BY <1>1, <2>1, QueueSame
<1>9. Counts(w) = 0 /\ Counts(c) = 0 /\ Carries(w) = 0 /\ Carries(c) = 0
  BY <1>4 DEF Counts, Carries, Bit
<1>10. CountStep(c, w)
  BY <1>2, <1>9 DEF Sound, CountStep
<1>11. QED
  BY <1>1, <1>6, <1>7, <1>8, <1>10, StepKeeps

\* The state of a thread that spins again.
LEMMA RespinFields ==
    ASSUME NEW c \in ThreadStates, NEW p \in Ps, NEW to \in {"reset", "find"},
           NEW w, w = Respin(c, p, to)
    PROVE  /\ w \in ThreadStates /\ w.pc = "respin" /\ w.p = p /\ w.old = c.old /\ w.spin = c.spin
           /\ w.hold = c.hold /\ w.hspin = c.hspin /\ w.ret = to /\ w.n = c.n
           /\ w.rest = c.rest /\ w.owed = c.owed /\ w.seen = c.seen
BY DEF Respin, ThreadStates, PCs, WithP, AnyP, Rets

LEMMA checkRunqsGetPKeeps == ASSUME Inv, NEW m \in Ms, checkRunqsGetP(m) PROVE Inv'
<1>1. m \in Threads
  BY DEF Threads
<1>2. /\ Sound(th[m]) /\ th[m].pc = "getP" /\ lq' = lq /\ gq' = gq /\ insys' = insys
      /\ nmspinning' = nmspinning /\ blocked' = blocked /\ netw' = netw /\ netev' = netev
  BY <1>1, SoundNow DEF checkRunqsGetP, At, queues, idle, spinning, net, others
<1>3. ASSUME NEW p \in pidle, pidle' = pidle \ {p}, Become(m, Respin(th[m], p, "find"))
      PROVE  Inv'
  <2>1. PICK w : w = Respin(th[m], p, "find")
    OBVIOUS
  <2>2. p \in Ps /\ th[m] \in ThreadStates
    BY <1>2 DEF Sound
  <2>3. /\ w \in ThreadStates /\ w.pc = "respin" /\ w.p = p /\ w.spin = th[m].spin
        /\ w.hold = th[m].hold /\ w.hspin = th[m].hspin /\ w.ret = "find"
        /\ w.rest = th[m].rest /\ w.owed = th[m].owed
    BY <2>1, <2>2, RespinFields
  <2>4. th[m].rest = 0
    BY <1>2 DEF Sound, ThreadStates, ThreadOK, Owes, Place, Injects
  <2>5. Become(m, w)
    BY <1>3, <2>1
  <2>6. QED
    BY <1>2, <1>3, <2>3, <2>4, <2>5, GetPKeeps
<1>4. ASSUME Goto(m, "mayBlock"), pidle' = pidle PROVE Inv'
  <2>1. <<th[m].pc, "mayBlock">> \in Edges
    BY <1>2 DEF Edges
  <2>2. QED
    BY <1>1, <1>2, <1>4, <2>1, EdgeKeeps
<1>5. QED
  BY <1>3, <1>4 DEF checkRunqsGetP

LEMMA netpollAdjustWaitersKeeps == ASSUME Inv, NEW m \in Ms, netpollAdjustWaiters(m) PROVE Inv'
<1>1. m \in Threads
  BY DEF Threads
<1>2. /\ <<th[m].pc, "find">> \in Edges /\ th[m].pc = "count" /\ lq' = lq /\ gq' = gq
      /\ pidle' = pidle /\ insys' = insys /\ nmspinning' = nmspinning /\ blocked' = blocked
      /\ netw' = netw /\ netev' = netev
  BY DEF Edges, netpollAdjustWaiters, At, queues, idle, spinning, net, others
<1>3. QED
  BY <1>1, <1>2, EdgeKeeps DEF netpollAdjustWaiters

\* A thread without a P and with nothing at hand stops.
LEMMA StopKeeps ==
    ASSUME Inv, NEW m \in Ms, th[m].pc \in {"mayBlock", "pollP"}, th[m].rest = 0,
           Become(m, Thread), lq' = lq, gq' = gq, pidle' = pidle, insys' = insys,
           nmspinning' = nmspinning, blocked' = blocked, netw' = netw, netev' = netev
    PROVE  Inv'
<1> DEFINE c == th[m]
           w == Thread
<1>1. m \in Threads /\ m # Sysmon
  BY SchedAssumption DEF Threads
<1>2. Sound(c) /\ th' = [th EXCEPT ![m] = w]
  BY <1>1, SoundNow DEF Become
<1>3. /\ w \in ThreadStates /\ w.pc = "parked" /\ w.p = NoP /\ w.spin = FALSE /\ w.hold = NoP
      /\ w.hspin = FALSE /\ w.ret = "run" /\ w.n = 0 /\ w.rest = 0 /\ w.owed = 0
  BY ThreadFields
<1> HIDE DEF w
<1>4. /\ c.p = NoP /\ c.hold = NoP /\ c.spin = FALSE /\ c.hspin = FALSE /\ c.owed = 0
  BY <1>2 DEF Sound, ThreadStates, ThreadOK, HasP, Returns, Spins, Owes, Place, WithP,
     WithoutP, Handoffs, Injects
<1>5. ThreadOK(w)
  BY <1>3 DEF ThreadOK, HasP, Returns, Spins, Owes, Place, WithP, WithoutP, Handoffs, Injects
<1>6. Moved(m, w)
  BY <1>1, <1>2, <1>3, <1>5 DEF Moved
<1>7. Counts(w) = Counts(c) /\ Carries(w) = Carries(c)
  BY <1>3, <1>4 DEF Counts, Carries, Bit
<1>8. \A p \in Ps : ~Drained(w, p)
  BY <1>3 DEF Drained, Handoffs
<1>9. QED
  BY <1>1, <1>3, <1>4, <1>6, <1>7, <1>8, PlainStep

LEMMA findMayBlockKeeps == ASSUME Inv, NEW m \in Ms, findMayBlock(m) PROVE Inv'
<1>1. m \in Threads
  BY DEF Threads
<1>2. /\ th[m].pc = "mayBlock" /\ lq' = lq /\ gq' = gq /\ pidle' = pidle /\ insys' = insys
      /\ nmspinning' = nmspinning /\ blocked' = blocked /\ netw' = netw /\ netev' = netev
  BY DEF findMayBlock, At, queues, idle, spinning, net, others
<1>3. CASE Goto(m, "polling")
  <2>1. <<th[m].pc, "polling">> \in Edges
    BY <1>2 DEF Edges
  <2>2. QED
    BY <1>1, <1>2, <1>3, <2>1, EdgeKeeps
<1>4. CASE Become(m, Thread)
  <2>1. th[m].rest \in Nat /\ Owes(th[m])
    BY <1>1, Facts DEF ThreadStates, ThreadOK
  <2>2. th[m].rest = 0
    BY <1>2, <2>1 DEF Owes, Place, Injects
  <2>3. QED
    BY <1>2, <1>4, <2>2, StopKeeps
<1>5. QED
  BY <1>3, <1>4 DEF findMayBlock

LEMMA findPollingKeeps == ASSUME Inv, NEW m \in Ms, findPolling(m) PROVE Inv'
<1> DEFINE c == th[m]
           w == [c EXCEPT !.pc = "polled", !.rest = netev]
<1>1. m \in Threads /\ m # Sysmon
  BY SchedAssumption DEF Threads
<1>2. Sound(c)
  BY <1>1, SoundNow
<1>3. /\ th' = [th EXCEPT ![m] = w] /\ c.pc = "polling" /\ netev' = 0 /\ gq' = gq
      /\ nmspinning' = nmspinning /\ blocked' = blocked /\ netw' = netw /\ lq' = lq
      /\ pidle' = pidle /\ insys' = insys
  BY DEF findPolling, At, Become, Goto, Return, P, queues, idle, spinning, net, others
<1>4. /\ w \in ThreadStates /\ w.pc = "polled" /\ w.p = c.p /\ w.old = c.old /\ w.spin = c.spin
      /\ w.hold = c.hold /\ w.hspin = c.hspin /\ w.ret = c.ret /\ w.n = c.n /\ w.rest = netev
      /\ w.owed = c.owed
  BY <1>2, <1>3 DEF Sound, ThreadStates, PCs, Rets, WithP, WithoutP, Handoffs, Injects
<1> HIDE DEF w
<1>5. /\ c.p = NoP /\ c.hold = NoP /\ c.spin = FALSE /\ c.hspin = FALSE /\ c.owed = 0
      /\ c.rest = 0
  BY <1>2, <1>3 DEF Sound, ThreadStates, ThreadOK, HasP, Returns, Spins, Owes, Place, WithP,
     WithoutP, Handoffs, Injects
<1>6. ThreadOK(w)
  BY <1>2, <1>3, <1>4, <1>5 DEF Sound, ThreadOK, HasP, Returns, Spins, Owes, Place, WithP,
     WithoutP, Handoffs, Injects
<1>7. Moved(m, w)
  BY <1>1, <1>2, <1>3, <1>4, <1>5, <1>6 DEF Moved, Sound
<1>8. OwnStep(c, w)
  BY <1>1, <1>3, <1>4, <1>5, OwnSame
<1>9. QueueStep(w)
  BY <1>1, <1>2, <1>3, <1>4, <1>5, QueueSame DEF Drained
<1>10. Counts(w) = 0 /\ Counts(c) = 0 /\ Carries(w) = netev /\ Carries(c) = 0
  BY <1>2, <1>3, <1>4, <1>5, CarriesType DEF Sound, ThreadStates, Counts, Carries, Bit
<1>11. CountStep(c, w)
  BY <1>2, <1>3, <1>4, <1>5, <1>10 DEF Sound, CountStep
<1>12. QED
  BY <1>1, <1>7, <1>8, <1>9, <1>11, StepKeeps

LEMMA findPolledKeeps == ASSUME Inv, NEW m \in Ms, findPolled(m) PROVE Inv'
<1>1. m \in Threads
  BY DEF Threads
<1>2. /\ <<th[m].pc, "pollP">> \in Edges /\ th[m].pc = "polled" /\ lq' = lq /\ gq' = gq
      /\ pidle' = pidle /\ insys' = insys /\ nmspinning' = nmspinning /\ blocked' = blocked
      /\ netw' = netw /\ netev' = netev
  BY DEF Edges, findPolled, At, queues, idle, spinning, net, others
<1>3. QED
  BY <1>1, <1>2, EdgeKeeps DEF findPolled

LEMMA findPollPKeeps == ASSUME Inv, NEW m \in Ms, findPollP(m) PROVE Inv'
<1> DEFINE c == th[m]
           u == [c EXCEPT !.was = FALSE]
<1>1. /\ c \in ThreadStates /\ c.pc = "pollP" /\ lq' = lq /\ gq' = gq /\ insys' = insys
      /\ nmspinning' = nmspinning /\ blocked' = blocked /\ netw' = netw /\ netev' = netev
  BY Facts DEF Threads, findPollP, At, queues, idle, spinning, net, others
<1>2. /\ u \in ThreadStates /\ u.pc = c.pc /\ u.p = c.p /\ u.old = c.old /\ u.spin = c.spin
      /\ u.hold = c.hold /\ u.hspin = c.hspin /\ u.ret = c.ret /\ u.n = c.n /\ u.rest = c.rest
      /\ u.owed = c.owed
  BY <1>1 DEF ThreadStates
<1> HIDE DEF u
<1>3. ASSUME c.rest > 0, NEW p \in pidle, pidle' = pidle \ {p},
             Become(m, RunOne([u EXCEPT !.p = p], c.rest, npidle - 1))
      PROVE  Inv'
  <2> DEFINE w == RunOne([u EXCEPT !.p = p], c.rest, npidle - 1)
  <2>1. m \in Threads /\ m # Sysmon
    BY SchedAssumption DEF Threads
  <2>2. Sound(c)
    BY <2>1, SoundNow
  <2>3. /\ th' = [th EXCEPT ![m] = w] /\ c.pc = "pollP" /\ lq' = lq /\ insys' = insys
        /\ nmspinning' = nmspinning /\ gq' = gq /\ blocked' = blocked /\ netw' = netw
        /\ netev' = netev
    BY <1>3 DEF findPollP, At, Become, Goto, Return, P, queues, idle, spinning, net, others
  <2>4. p \in Ps /\ c.rest \in Nat /\ c.rest > 0 /\ npidle - 1 \in Nat
    BY <1>3, <2>2, <2>3, IdleCounted DEF Sound, ThreadStates
  <2>5. [u EXCEPT !.p = p] \in ThreadStates
    BY <1>2, <2>4 DEF ThreadStates, AnyP
  <2>6. Injector(w, [u EXCEPT !.p = p], c.rest - 1, c.rest)
    BY <2>4, <2>5, RunOneFields
  <2>7. /\ [u EXCEPT !.p = p].p = p /\ [u EXCEPT !.p = p].old = c.old
        /\ [u EXCEPT !.p = p].spin = c.spin /\ [u EXCEPT !.p = p].hold = c.hold
        /\ [u EXCEPT !.p = p].hspin = c.hspin /\ [u EXCEPT !.p = p].ret = c.ret
    BY <1>2 DEF ThreadStates
  <2>8. /\ w \in ThreadStates /\ w.p = p /\ w.old = c.old /\ w.spin = c.spin /\ w.hold = c.hold
        /\ w.hspin = c.hspin /\ w.ret = c.ret /\ w.rest = c.rest - 1 /\ w.owed = c.rest
        /\ w.n \in Nat /\ w.n <= c.rest - 1
        /\ w.pc = IF w.n > 0 THEN "injectG" ELSE IF c.rest - 1 > 0 THEN "injectP" ELSE "adjust"
    BY <2>6, <2>7 DEF Injector
  <2> HIDE DEF w
  <2>9. /\ c.p = NoP /\ c.hold = NoP /\ c.spin = FALSE /\ c.hspin = FALSE /\ c.owed = 0
        /\ c.rest \in Nat /\ c.rest > 0 /\ p \in Ps
    BY <2>2, <2>3, <2>4, <2>5, <2>6, <2>7 DEF Sound, ThreadStates, ThreadOK, HasP, Returns,
       Spins, Owes, Place, WithP, WithoutP, Handoffs, Injects
  <2>10. ThreadOK(w)
    BY <2>2, <2>3, <2>4, <2>5, <2>6, <2>7, <2>8, <2>9 DEF Sound, ThreadOK, HasP, Returns, Spins,
       Owes, Place, WithP, WithoutP, Handoffs, Injects
  <2>11. Moved(m, w)
    BY <2>1, <2>2, <2>3, <2>4, <2>5, <2>6, <2>7, <2>8, <2>9, <2>10 DEF Moved, Sound
  <2>12. OwnStep(c, w)
    <3>1. insys' = insys \ {p}
      BY <2>2, <2>3 DEF Sound
    <3>2. QED
      BY <1>3, <2>1, <2>3, <2>8, <2>9, <3>1, OwnTakes
  <2>13. QueueStep(w)
    BY <1>3, <2>1, <2>2, <2>3, <2>4, <2>5, <2>6, <2>7, <2>8, <2>9, QueueSame DEF Drained
  <2>14. Counts(w) = 0 /\ Counts(c) = 0 /\ Carries(w) = c.rest /\ Carries(c) = c.rest
    BY <2>2, <2>3, <2>4, <2>5, <2>6, <2>7, <2>8, <2>9, CarriesType DEF Sound, ThreadStates,
       Counts, Carries, Bit
  <2>15. CountStep(c, w)
    BY <2>2, <2>3, <2>4, <2>5, <2>6, <2>7, <2>8, <2>9, <2>14 DEF Sound, CountStep
  <2>16. QED
    BY <2>1, <2>11, <2>12, <2>13, <2>15, StepKeeps
<1>4. ASSUME c.rest > 0, pidle' = pidle,
             Become(m, [Inject(u, c.rest, 0) EXCEPT !.owed = c.rest])
      PROVE  Inv'
  <2> DEFINE w == [Inject(u, c.rest, 0) EXCEPT !.owed = c.rest]
  <2>1. m \in Threads /\ m # Sysmon
    BY SchedAssumption DEF Threads
  <2>2. Sound(c)
    BY <2>1, SoundNow
  <2>3. /\ th' = [th EXCEPT ![m] = w] /\ c.pc = "pollP" /\ lq' = lq /\ pidle' = pidle
        /\ insys' = insys /\ nmspinning' = nmspinning /\ gq' = gq /\ blocked' = blocked
        /\ netw' = netw /\ netev' = netev
    BY <1>4 DEF findPollP, At, Become, Goto, Return, P, queues, idle, spinning, net, others
  <2>4. c.rest \in Nat /\ c.rest > 0 /\ c.p = NoP
    BY <1>4, <2>2, <2>3 DEF Sound, ThreadStates, ThreadOK, HasP, WithoutP
  <2>5. Injector(w, u, c.rest, c.rest)
    BY <1>2, <2>4, InjectFields
  <2>6. /\ w \in ThreadStates /\ w.pc = "injectG" /\ w.p = c.p /\ w.old = c.old
        /\ w.spin = c.spin /\ w.hold = c.hold /\ w.hspin = c.hspin /\ w.ret = c.ret
        /\ w.n = c.rest /\ w.rest = c.rest /\ w.owed = c.rest
    BY <1>2, <2>4, <2>5 DEF Injector
  <2> HIDE DEF w
  <2>7. /\ c.p = NoP /\ c.hold = NoP /\ c.spin = FALSE /\ c.hspin = FALSE /\ c.owed = 0
        /\ c.rest \in Nat /\ c.rest > 0
    BY <2>2, <2>3, <2>4, <2>5 DEF Sound, ThreadStates, ThreadOK, HasP, Returns, Spins, Owes,
       Place, WithP, WithoutP, Handoffs, Injects
  <2>8. ThreadOK(w)
    BY <2>2, <2>3, <2>4, <2>5, <2>6, <2>7 DEF Sound, ThreadOK, HasP, Returns, Spins, Owes,
       Place, WithP, WithoutP, Handoffs, Injects
  <2>9. Moved(m, w)
    BY <2>1, <2>2, <2>3, <2>4, <2>5, <2>6, <2>7, <2>8 DEF Moved, Sound
  <2>10. OwnStep(c, w)
    BY <2>1, <2>3, <2>4, <2>5, <2>6, <2>7, OwnSame
  <2>11. QueueStep(w)
    BY <2>1, <2>2, <2>3, <2>4, <2>5, <2>6, <2>7, QueueSame DEF Drained
  <2>12. Counts(w) = 0 /\ Counts(c) = 0 /\ Carries(w) = c.rest /\ Carries(c) = c.rest
    BY <2>2, <2>3, <2>4, <2>5, <2>6, <2>7, CarriesType DEF Sound, ThreadStates, Counts, Carries,
       Bit
  <2>13. CountStep(c, w)
    BY <2>2, <2>3, <2>4, <2>5, <2>6, <2>7, <2>12 DEF Sound, CountStep
  <2>14. QED
    BY <2>1, <2>9, <2>10, <2>11, <2>13, StepKeeps
<1>5. ASSUME c.rest = 0, NEW p \in pidle, pidle' = pidle \ {p}, Become(m, PolledNone(c, p))
      PROVE  Inv'
  <2>1. PICK w : w = PolledNone(c, p)
    OBVIOUS
  <2>2. p \in Ps
    BY <1>5 DEF Inv, TypeInv
  <2>3. /\ w \in ThreadStates /\ (w.pc = "find" \/ (w.pc = "respin" /\ w.ret = "find"))
        /\ w.p = p /\ w.spin = c.spin /\ w.hold = c.hold /\ w.hspin = c.hspin
        /\ w.rest = c.rest /\ w.owed = c.owed
    <3>1. CASE c.was
      BY <1>1, <2>1, <2>2, <3>1, RespinFields DEF PolledNone
    <3>2. CASE ~c.was
      BY <1>1, <2>1, <2>2, <3>2 DEF PolledNone, ThreadStates, PCs, WithP, AnyP
    <3>3. QED
      BY <3>1, <3>2
  <2>4. Become(m, w)
    BY <1>5, <2>1
  <2>5. QED
    BY <1>5, <1>1, <2>3, <2>4, GetPKeeps
<1>6. ASSUME c.rest = 0, pidle' = pidle, Become(m, Thread) PROVE Inv'
  BY <1>6, <1>1, StopKeeps
<1>7. c.rest = 0 \/ c.rest > 0
  BY <1>1 DEF ThreadStates
<1>8. QED
  <2>1. \/ \E p \in pidle : /\ pidle' = pidle \ {p}
                           /\ Become(m, IF u.rest = 0 THEN PolledNone(c, p)
                                        ELSE RunOne([u EXCEPT !.p = p], u.rest, npidle - 1))
        \/ /\ pidle' = pidle
           /\ Become(m, IF u.rest = 0 THEN Thread ELSE [Inject(u, u.rest, 0) EXCEPT !.owed = u.rest])
    BY DEF findPollP, u
  <2>2. u.rest = c.rest
    BY <1>2
  <2>3. PICK k : k = c.rest
    OBVIOUS
  <2>4. k = 0 \/ (k > 0 /\ k # 0)
    BY <1>7, <2>3
  <2> HIDE DEF c
  <2>5. CASE k = 0
    BY <1>5, <1>6, <2>1, <2>2, <2>3, <2>5
  <2>6. CASE k > 0 /\ k # 0
    <3>1. \/ \E p \in pidle : /\ pidle' = pidle \ {p}
                             /\ Become(m, RunOne([u EXCEPT !.p = p], c.rest, npidle - 1))
          \/ pidle' = pidle /\ Become(m, [Inject(u, c.rest, 0) EXCEPT !.owed = c.rest])
      BY <2>1, <2>2, <2>3, <2>6
    <3>2. QED
      BY <1>3, <1>4, <2>3, <2>6, <3>1
  <2>7. QED
    BY <2>4, <2>5, <2>6

-----------------------------------------------------------------------------
(***************************************************************************)
(* injectglist, startm and sysmon.                                         *)
(***************************************************************************)

LEMMA injectGlobalKeeps == ASSUME Inv, NEW t \in Threads, injectGlobal(t) PROVE Inv'
<1> DEFINE c == th[t]
           w == [c EXCEPT !.rest = c.rest - c.n, !.pc = "startIdle"]
<1>1. Sound(c)
  BY SoundNow
<1>2. /\ th' = [th EXCEPT ![t] = w] /\ c.pc = "injectG" /\ gq' = gq + c.n /\ blocked' = blocked
      /\ netw' = netw /\ netev' = netev /\ nmspinning' = nmspinning /\ lq' = lq
      /\ pidle' = pidle /\ insys' = insys
  BY DEF injectGlobal, At, Become, Goto, Return, P, queues, idle, spinning, net, others
<1>3. t = Sysmon => c.p = NoP /\ ~c.spin
  BY Facts
<1>4. c.n \in Nat /\ c.rest \in Nat /\ c.rest - c.n \in Nat /\ 0 < c.n
  BY <1>1, <1>2 DEF Sound, ThreadStates, ThreadOK, Owes, Place
<1>5. /\ w \in ThreadStates /\ w.pc = "startIdle" /\ w.p = c.p /\ w.old = c.old
      /\ w.spin = c.spin /\ w.hold = c.hold /\ w.hspin = c.hspin /\ w.ret = c.ret /\ w.n = c.n
      /\ w.rest = c.rest - c.n /\ w.owed = c.owed
  BY <1>1, <1>2, <1>3, <1>4 DEF Sound, ThreadStates, PCs, Rets, WithP, WithoutP, Handoffs,
     Injects
<1> HIDE DEF w
<1>6. c.hold = NoP /\ c.hspin = FALSE /\ c.owed > 0
  BY <1>1, <1>2, <1>3, <1>4 DEF Sound, ThreadStates, ThreadOK, HasP, Returns, Spins, Owes,
     Place, WithP, WithoutP, Handoffs, Injects
<1>7. ThreadOK(w)
  BY <1>1, <1>2, <1>3, <1>4, <1>5, <1>6 DEF Sound, ThreadOK, HasP, Returns, Spins, Owes, Place,
     WithP, WithoutP, Handoffs, Injects
<1>8. Moved(t, w)
  BY <1>1, <1>2, <1>3, <1>4, <1>5, <1>6, <1>7 DEF Moved, Sound
<1>9. OwnStep(c, w)
  BY <1>2, <1>3, <1>4, <1>5, <1>6, OwnSame
<1>10. QueueStep(w)
  BY <1>1, <1>2, <1>3, <1>4, <1>5, <1>6, QueueSame DEF Drained
<1>11. /\ Counts(w) = Counts(c) /\ Counts(c) \in Nat /\ Carries(w) = Carries(c) - c.n
       /\ Carries(c) \in Nat
  BY <1>1, <1>2, <1>3, <1>4, <1>5, <1>6, CarriesType DEF Sound, ThreadStates, Counts, Carries,
     Bit
<1>12. CountStep(c, w)
  BY <1>1, <1>2, <1>3, <1>4, <1>5, <1>6, <1>11 DEF Sound, CountStep
<1>13. QED
  BY <1>8, <1>9, <1>10, <1>12, StepKeeps

LEMMA startIdleKeeps == ASSUME Inv, NEW t \in Threads, startIdle(t) PROVE Inv'
<1>1. ASSUME NEW p \in pidle, pidle' = pidle \ {p},
             Become(t, [th[t] EXCEPT !.pc = "startm", !.hold = p, !.n = @ - 1,
                                     !.ret = AfterStart(th[t].n - 1, th[t].rest)])
      PROVE  Inv'
  <2> DEFINE c == th[t]
             w == [c EXCEPT !.pc = "startm", !.hold = p, !.n = c.n - 1,
                           !.ret = AfterStart(c.n - 1, c.rest)]
  <2>1. Sound(c)
    BY SoundNow
  <2>2. /\ th' = [th EXCEPT ![t] = w] /\ c.pc = "startIdle" /\ lq' = lq /\ insys' = insys
        /\ nmspinning' = nmspinning /\ gq' = gq /\ blocked' = blocked /\ netw' = netw
        /\ netev' = netev
    BY <1>1 DEF startIdle, At, Become, Goto, Return, P, queues, idle, spinning, net, others
  <2>3. t = Sysmon => c.p = NoP /\ ~c.spin
    BY Facts
  <2>4. c.n \in Nat /\ c.rest \in Nat /\ 0 < c.n /\ c.n - 1 \in Nat
    BY <2>1, <2>2 DEF Sound, ThreadStates, ThreadOK, Owes, Place
  <2>5. c.p = NoP => c.rest = 0
    BY <2>1, <2>2 DEF Sound, ThreadOK, Owes, Place
  <2>6. c.p # NoP => c.p \in Ps
    BY <2>1, <2>2 DEF Sound, ThreadStates, AnyP
  <2>7. c.p # p /\ p # NoP /\ p \in Ps
    BY <2>1 DEF Sound, Owns
  <2>8. /\ AfterStart(c.n - 1, c.rest) \in {"startIdle", "injectP", "adjust"}
        /\ (AfterStart(c.n - 1, c.rest) = "startIdle" => c.n - 1 > 0)
        /\ (AfterStart(c.n - 1, c.rest) = "injectP" => c.rest > 0)
        /\ (AfterStart(c.n - 1, c.rest) = "adjust" => c.rest = 0)
    BY <2>4 DEF AfterStart
  <2>9. /\ w \in ThreadStates /\ w.pc = "startm" /\ w.p = c.p /\ w.old = c.old
        /\ w.spin = c.spin /\ w.hold = p /\ w.hspin = c.hspin
        /\ w.ret = AfterStart(c.n - 1, c.rest) /\ w.n = c.n - 1 /\ w.rest = c.rest
        /\ w.owed = c.owed
    BY <2>1, <2>2, <2>3, <2>4, <2>5, <2>6, <2>7, <2>8 DEF Sound, ThreadStates, PCs, AnyP, Rets,
       Injects
  <2> HIDE DEF w
  <2>10. c.hold = NoP /\ c.hspin = FALSE /\ c.owed > 0
    BY <2>1, <2>2, <2>3, <2>4, <2>5, <2>6, <2>7, <2>8 DEF Sound, ThreadStates, ThreadOK, HasP,
       Returns, Spins, Owes, Place, WithP, WithoutP, Handoffs, Injects
  <2>11. ThreadOK(w)
    BY <2>1, <2>2, <2>3, <2>4, <2>5, <2>6, <2>7, <2>8, <2>9, <2>10 DEF Sound, ThreadOK, HasP,
       Returns, Spins, Owes, Place, WithP, WithoutP, Handoffs, Injects
  <2>12. Moved(t, w)
    BY <2>1, <2>2, <2>3, <2>4, <2>5, <2>6, <2>7, <2>8, <2>9, <2>10, <2>11 DEF Moved, Sound
  <2>13. OwnStep(c, w)
    <3>1. insys' = insys \ {p}
      BY <2>1, <2>2 DEF Sound
    <3>2. QED
      BY <1>1, <2>2, <2>9, <2>10, <3>1, OwnTakes
  <2>14. QueueStep(w)
    BY <1>1, <2>1, <2>2, <2>3, <2>4, <2>5, <2>6, <2>7, <2>8, <2>9, <2>10, QueueSame DEF Drained
  <2>15. /\ Counts(w) = Counts(c) /\ Counts(c) \in Nat /\ Carries(w) = Carries(c)
         /\ Carries(c) \in Nat
    BY <2>1, <2>2, <2>3, <2>4, <2>5, <2>6, <2>7, <2>8, <2>9, <2>10, CarriesType DEF Sound,
       ThreadStates, Counts, Carries, Bit
  <2>16. CountStep(c, w)
    BY <2>1, <2>2, <2>3, <2>4, <2>5, <2>6, <2>7, <2>8, <2>9, <2>10, <2>15 DEF Sound, CountStep
  <2>17. QED
    BY <2>12, <2>13, <2>14, <2>16, StepKeeps
<1>2. ASSUME pidle' = pidle, Become(t, [th[t] EXCEPT !.pc = AfterStart(0, th[t].rest), !.n = 0])
      PROVE  Inv'
  <2> DEFINE c == th[t]
             w == [c EXCEPT !.pc = AfterStart(0, c.rest), !.n = 0]
  <2>1. Sound(c)
    BY SoundNow
  <2>2. /\ th' = [th EXCEPT ![t] = w] /\ c.pc = "startIdle" /\ lq' = lq /\ pidle' = pidle
        /\ insys' = insys /\ nmspinning' = nmspinning /\ gq' = gq /\ blocked' = blocked
        /\ netw' = netw /\ netev' = netev
    BY <1>2 DEF startIdle, At, Become, Goto, Return, P, queues, idle, spinning, net, others
  <2>3. t = Sysmon => c.p = NoP /\ ~c.spin
    BY Facts
  <2>4. c.n \in Nat /\ c.rest \in Nat /\ 0 < c.n /\ c.n - 1 \in Nat
    BY <2>1, <2>2 DEF Sound, ThreadStates, ThreadOK, Owes, Place
  <2>5. c.p = NoP => c.rest = 0
    BY <2>1, <2>2 DEF Sound, ThreadOK, Owes, Place
  <2>6. c.p # NoP => c.p \in Ps
    BY <2>1, <2>2 DEF Sound, ThreadStates, AnyP
  <2>7. /\ AfterStart(0, c.rest) \in {"injectP", "adjust"}
        /\ (AfterStart(0, c.rest) = "injectP" => c.rest > 0)
        /\ (AfterStart(0, c.rest) = "adjust" => c.rest = 0)
    BY <2>4 DEF AfterStart
  <2>8. /\ w \in ThreadStates /\ w.pc = AfterStart(0, c.rest) /\ w.p = c.p /\ w.old = c.old
        /\ w.spin = c.spin /\ w.hold = c.hold /\ w.hspin = c.hspin /\ w.ret = c.ret /\ w.n = 0
        /\ w.rest = c.rest /\ w.owed = c.owed
    BY <2>1, <2>2, <2>3, <2>4, <2>5, <2>6, <2>7 DEF Sound, ThreadStates, PCs, Rets, WithP,
       WithoutP, Handoffs, Injects
  <2> HIDE DEF w
  <2>9. c.hold = NoP /\ c.hspin = FALSE /\ c.owed > 0
    BY <2>1, <2>2, <2>3, <2>4, <2>5, <2>6, <2>7 DEF Sound, ThreadStates, ThreadOK, HasP,
       Returns, Spins, Owes, Place, WithP, WithoutP, Handoffs, Injects
  <2>10. ThreadOK(w)
    BY <2>1, <2>2, <2>3, <2>4, <2>5, <2>6, <2>7, <2>8, <2>9 DEF Sound, ThreadOK, HasP, Returns,
       Spins, Owes, Place, WithP, WithoutP, Handoffs, Injects
  <2>11. Moved(t, w)
    BY <2>1, <2>2, <2>3, <2>4, <2>5, <2>6, <2>7, <2>8, <2>9, <2>10 DEF Moved, Sound
  <2>12. OwnStep(c, w)
    BY <2>2, <2>3, <2>4, <2>5, <2>6, <2>7, <2>8, <2>9, OwnSame
  <2>13. QueueStep(w)
    BY <2>1, <2>2, <2>3, <2>4, <2>5, <2>6, <2>7, <2>8, <2>9, QueueSame DEF Drained
  <2>14. /\ Counts(w) = Counts(c) /\ Counts(c) \in Nat /\ Carries(w) = Carries(c)
         /\ Carries(c) \in Nat
    BY <2>1, <2>2, <2>3, <2>4, <2>5, <2>6, <2>7, <2>8, <2>9, CarriesType DEF Sound,
       ThreadStates, Counts, Carries, Bit
  <2>15. CountStep(c, w)
    BY <2>1, <2>2, <2>3, <2>4, <2>5, <2>6, <2>7, <2>8, <2>9, <2>14 DEF Sound, CountStep
  <2>16. QED
    BY <2>11, <2>12, <2>13, <2>15, StepKeeps
<1>3. QED
  BY <1>1, <1>2 DEF startIdle

LEMMA injectLocalKeeps == ASSUME Inv, NEW t \in Threads, injectLocal(t) PROVE Inv'
<1> DEFINE c == th[t]
           w == [c EXCEPT !.pc = "adjust", !.rest = 0]
<1>1. Sound(c)
  BY SoundNow
<1>2. /\ th' = [th EXCEPT ![t] = w] /\ c.pc = "injectP" /\ Enqueue(c.p, c.rest)
      /\ pidle' = pidle /\ insys' = insys /\ nmspinning' = nmspinning /\ gq' = gq
      /\ blocked' = blocked /\ netw' = netw /\ netev' = netev
  BY DEF injectLocal, At, Become, Goto, Return, P, queues, idle, spinning, net, others
<1>3. t = Sysmon => c.p = NoP /\ ~c.spin
  BY Facts
<1>4. c.rest \in Nat /\ c.p \in Ps /\ lq[c.p] + c.rest \in Nat
  BY <1>1, <1>2 DEF Sound, ThreadStates, ThreadOK, Owes, Place
<1>5. /\ lq' \in [Ps -> Nat] /\ (\A q \in Ps : q # c.p => lq'[q] = lq[q])
      /\ Sum(lq', Ps) = Sum(lq, Ps) + c.rest
  BY <1>1, <1>2, <1>4, EnqueueStep DEF Sound
<1>6. /\ w \in ThreadStates /\ w.pc = "adjust" /\ w.p = c.p /\ w.old = c.old /\ w.spin = c.spin
      /\ w.hold = c.hold /\ w.hspin = c.hspin /\ w.ret = c.ret /\ w.n = c.n /\ w.rest = 0
      /\ w.owed = c.owed
  BY <1>1, <1>2, <1>3, <1>4, <1>5 DEF Sound, ThreadStates, PCs, Rets, WithP, WithoutP, Handoffs,
     Injects
<1> HIDE DEF w
<1>7. c.hold = NoP /\ c.hspin = FALSE /\ c.owed > 0
  BY <1>1, <1>2, <1>3, <1>4, <1>5 DEF Sound, ThreadStates, ThreadOK, HasP, Returns, Spins, Owes,
     Place, WithP, WithoutP, Handoffs, Injects
<1>8. ThreadOK(w)
  BY <1>1, <1>2, <1>3, <1>4, <1>5, <1>6, <1>7 DEF Sound, ThreadOK, HasP, Returns, Spins, Owes,
     Place, WithP, WithoutP, Handoffs, Injects
<1>9. Moved(t, w)
  BY <1>1, <1>2, <1>3, <1>4, <1>5, <1>6, <1>7, <1>8 DEF Moved, Sound
<1>10. OwnStep(c, w)
  BY <1>2, <1>3, <1>4, <1>5, <1>6, <1>7, OwnSame
<1>11. QueueStep(w)
  BY <1>1, <1>2, <1>3, <1>4, <1>5, <1>6, <1>7 DEF QueueStep, Owns, Drained, Sound
<1>12. /\ Counts(w) = Counts(c) /\ Counts(c) \in Nat /\ Carries(w) = Carries(c) - c.rest
       /\ Carries(c) \in Nat
  BY <1>1, <1>2, <1>3, <1>4, <1>5, <1>6, <1>7, CarriesType DEF Sound, ThreadStates, Counts,
     Carries, Bit
<1>13. CountStep(c, w)
  BY <1>1, <1>2, <1>3, <1>4, <1>5, <1>6, <1>7, <1>12 DEF Sound, CountStep
<1>14. QED
  BY <1>9, <1>10, <1>11, <1>13, StepKeeps

LEMMA adjustWaitersKeeps == ASSUME Inv, NEW t \in Threads, adjustWaiters(t) PROVE Inv'
<1>1. /\ Sound(th[t]) /\ th[t].pc = "adjust" /\ lq' = lq /\ gq' = gq /\ pidle' = pidle
      /\ insys' = insys /\ nmspinning' = nmspinning /\ blocked' = blocked /\ netw' = netw
      /\ netev' = netev
  BY SoundNow DEF adjustWaiters, At, queues, idle, spinning, net, others
<1>2. /\ th[t].owed > 0 /\ th[t].rest = 0 /\ th[t].hold = NoP /\ th[t].hspin = FALSE
      /\ (th[t].p = NoP => th[t].spin = FALSE) /\ (t = Sysmon => th[t].p = NoP)
  BY <1>1, Facts, SchedAssumption
     DEF Sound, ThreadStates, ThreadOK, HasP, Spins, Owes, Place, Injects, Handoffs
<1>3. PICK at : /\ th' = [th EXCEPT ![t] = IF th[t].p = NoP THEN [th[t] EXCEPT !.owed = 0, !.pc = at]
                                           ELSE [th[t] EXCEPT !.owed = 0, !.pc = at, !.seen = {}]]
                /\ th[t].p = NoP => at \in {"sysmon", "parked"}
                /\ th[t].p # NoP => at = IF th[t].spin THEN "reset" ELSE "run"
  <2>1. th[t] \in ThreadStates
    BY <1>1 DEF Sound
  <2> DEFINE w == [th[t] EXCEPT !.owed = 0]
  <2>2. th' = [th EXCEPT ![t] = CASE t = Sysmon -> [w EXCEPT !.pc = "sysmon"]
                                  [] t # Sysmon /\ th[t].p = NoP -> [w EXCEPT !.pc = "parked"]
                                  [] OTHER -> Found(w)]
    BY DEF adjustWaiters, Become, P
  <2>3. Found(w) = [th[t] EXCEPT !.owed = 0, !.pc = IF th[t].spin THEN "reset" ELSE "run", !.seen = {}]
    BY <2>1 DEF Found, ThreadStates
  <2>4. /\ [w EXCEPT !.pc = "sysmon"] = [th[t] EXCEPT !.owed = 0, !.pc = "sysmon"]
        /\ [w EXCEPT !.pc = "parked"] = [th[t] EXCEPT !.owed = 0, !.pc = "parked"]
    BY <2>1 DEF ThreadStates
  <2> HIDE DEF w
  <2>5. CASE t = Sysmon
    BY <1>2, <2>2, <2>4, <2>5
  <2>6. CASE t # Sysmon /\ th[t].p = NoP
    BY <2>2, <2>4, <2>6
  <2>7. CASE t # Sysmon /\ th[t].p # NoP
    BY <2>2, <2>3, <2>7
  <2>8. QED
    BY <2>5, <2>6, <2>7
<1>4. CASE th[t].p = NoP
  <2> DEFINE c == th[t]
             w == [c EXCEPT !.owed = 0, !.pc = at]
  <2>1. Sound(c)
    BY SoundNow
  <2>2. th' = [th EXCEPT ![t] = w] /\ at \in {"sysmon", "parked"} /\ c.pc = "adjust"
    BY <1>1, <1>3, <1>4
  <2>3. c.p = NoP /\ c.spin = FALSE /\ c.rest = 0
    BY <1>2, <1>4
  <2>4. /\ w \in ThreadStates /\ w.pc = at /\ w.p = c.p /\ w.old = c.old /\ w.spin = c.spin
        /\ w.hold = c.hold /\ w.hspin = c.hspin /\ w.ret = c.ret /\ w.n = c.n /\ w.rest = c.rest
        /\ w.owed = 0
    BY <2>1, <2>2, <2>3 DEF Sound, ThreadStates, PCs, Rets, WithP, WithoutP, Handoffs, Injects
  <2> HIDE DEF w
  <2>5. /\ c.p = NoP /\ c.spin = FALSE /\ c.hold = NoP /\ c.hspin = FALSE /\ c.owed > 0
        /\ c.rest = 0
    BY <2>1, <2>2, <2>3 DEF Sound, ThreadStates, ThreadOK, HasP, Returns, Spins, Owes, Place,
       WithP, WithoutP, Handoffs, Injects
  <2>6. ThreadOK(w)
    BY <2>1, <2>2, <2>3, <2>4, <2>5 DEF Sound, ThreadOK, HasP, Returns, Spins, Owes, Place,
       WithP, WithoutP, Handoffs, Injects
  <2>7. Moved(t, w)
    BY <2>1, <2>2, <2>3, <2>4, <2>5, <2>6 DEF Moved, Sound
  <2>8. OwnStep(c, w)
    BY <1>1, <2>4, OwnSame
  <2>9. QueueStep(w)
    BY <1>1, <2>4, <2>3, <2>2, QueueSame DEF Drained
  <2>10. Counts(w) = 0 /\ Counts(c) = 0 /\ Carries(w) = 0 /\ Carries(c) = 0
    BY <2>1, <2>2, <2>3, <2>4, <2>5, CarriesType DEF Sound, ThreadStates, Counts, Carries, Bit
  <2>11. CountStep(c, w)
    BY <2>1, <2>2, <2>3, <2>4, <2>5, <2>10, <1>1 DEF Sound, CountStep
  <2>12. QED
    BY <2>7, <2>8, <2>9, <2>11, StepKeeps
<1>5. CASE th[t].p # NoP
  <2> DEFINE c == th[t]
             w == [c EXCEPT !.owed = 0, !.pc = at, !.seen = {}]
  <2>1. Sound(c)
    BY SoundNow
  <2>2. /\ th' = [th EXCEPT ![t] = w] /\ at = (IF c.spin THEN "reset" ELSE "run")
        /\ c.pc = "adjust"
    BY <1>1, <1>3, <1>5
  <2>3. c.p # NoP /\ c.p \in Ps /\ c.rest = 0 /\ t # Sysmon
    BY <1>2, <1>5, <2>1 DEF Sound, ThreadStates, AnyP
  <2>4. /\ w \in ThreadStates /\ w.pc = at /\ w.p = c.p /\ w.old = c.old /\ w.spin = c.spin
        /\ w.hold = c.hold /\ w.hspin = c.hspin /\ w.ret = c.ret /\ w.n = c.n /\ w.rest = c.rest
        /\ w.owed = 0
    BY <2>1, <2>2, <2>3 DEF Sound, ThreadStates, PCs, Rets, WithP, WithoutP, Handoffs, Injects
  <2> HIDE DEF w
  <2>5. c.hold = NoP /\ c.hspin = FALSE /\ c.owed > 0 /\ c.rest = 0 /\ c.p \in Ps
    BY <2>1, <2>2, <2>3 DEF Sound, ThreadStates, ThreadOK, HasP, Returns, Spins, Owes, Place,
       WithP, WithoutP, Handoffs, Injects
  <2>6. ThreadOK(w)
    BY <2>1, <2>2, <2>3, <2>4, <2>5 DEF Sound, ThreadOK, HasP, Returns, Spins, Owes, Place,
       WithP, WithoutP, Handoffs, Injects
  <2>7. Moved(t, w)
    BY <2>1, <2>2, <2>3, <2>4, <2>5, <2>6 DEF Moved, Sound
  <2>8. OwnStep(c, w)
    BY <1>1, <2>4, OwnSame
  <2>9. QueueStep(w)
    BY <1>1, <2>4, <2>3, <2>2, QueueSame DEF Drained
  <2>10. Counts(w) = Counts(c) /\ Counts(c) \in Nat /\ Carries(w) = 1 /\ Carries(c) = 1
    BY <2>1, <2>2, <2>3, <2>4, <2>5, CarriesType DEF Sound, ThreadStates, Counts, Carries, Bit
  <2>11. CountStep(c, w)
    BY <2>1, <2>2, <2>3, <2>4, <2>5, <2>10, <1>1 DEF Sound, CountStep
  <2>12. QED
    BY <2>7, <2>8, <2>9, <2>11, StepKeeps
<1>6. QED
  BY <1>4, <1>5

LEMMA sysmonPollKeeps == ASSUME Inv, sysmonPoll PROVE Inv'
<1> DEFINE c == th[Sysmon]
           w == [Inject(c, netev, npidle) EXCEPT !.owed = netev]
<1>1. Sysmon \in Threads
  BY ThreadsFinite
<1>2. Sound(c)
  BY <1>1, SoundNow
<1>3. /\ th' = [th EXCEPT ![Sysmon] = w] /\ c.pc = "sysmon" /\ netev > 0 /\ netev' = 0
      /\ gq' = gq /\ blocked' = blocked /\ netw' = netw /\ nmspinning' = nmspinning /\ lq' = lq
      /\ pidle' = pidle /\ insys' = insys
  BY DEF sysmonPoll, At, Become, Goto, Return, P, queues, idle, spinning, net, others
<1>4. c.p = NoP /\ ~c.spin
  BY <1>1, Facts
<1>5. Injector(w, c, netev, netev)
  BY <1>2, IdleCounted, InjectFields DEF Sound
<1>6. /\ w \in ThreadStates /\ w.pc = "injectG" /\ w.p = c.p /\ w.old = c.old /\ w.spin = c.spin
      /\ w.hold = c.hold /\ w.hspin = c.hspin /\ w.ret = c.ret /\ w.n = netev /\ w.rest = netev
      /\ w.owed = netev
  BY <1>3, <1>4, <1>5 DEF Injector
<1> HIDE DEF w
<1>7. /\ c.p = NoP /\ c.hold = NoP /\ c.spin = FALSE /\ c.hspin = FALSE /\ c.owed = 0
      /\ c.rest = 0
  BY <1>2, <1>3, <1>4, <1>5 DEF Sound, ThreadStates, ThreadOK, HasP, Returns, Spins, Owes,
     Place, WithP, WithoutP, Handoffs, Injects
<1>8. ThreadOK(w)
  BY <1>2, <1>3, <1>4, <1>5, <1>6, <1>7 DEF Sound, ThreadOK, HasP, Returns, Spins, Owes, Place,
     WithP, WithoutP, Handoffs, Injects
<1>9. Moved(Sysmon, w)
  BY <1>1, <1>2, <1>3, <1>4, <1>5, <1>6, <1>7, <1>8 DEF Moved, Sound
<1>10. OwnStep(c, w)
  BY <1>1, <1>3, <1>4, <1>5, <1>6, <1>7, OwnSame
<1>11. QueueStep(w)
  BY <1>1, <1>2, <1>3, <1>4, <1>5, <1>6, <1>7, QueueSame DEF Drained
<1>12. Counts(w) = 0 /\ Counts(c) = 0 /\ Carries(w) = netev /\ Carries(c) = 0
  BY <1>2, <1>3, <1>4, <1>5, <1>6, <1>7, CarriesType DEF Sound, ThreadStates, Counts, Carries,
     Bit
<1>13. CountStep(c, w)
  BY <1>2, <1>3, <1>4, <1>5, <1>6, <1>7, <1>12 DEF Sound, CountStep
<1>14. QED
  BY <1>1, <1>9, <1>10, <1>11, <1>13, StepKeeps

LEMMA retakeKeeps == ASSUME Inv, retake PROVE Inv'
<1>1. PICK p \in insys : /\ insys' = insys \ {p}
                         /\ Become(Sysmon, [th[Sysmon] EXCEPT !.pc = "handoff", !.hold = p,
                                                              !.ret = "sysmon"])
  BY DEF retake, Retaken
<1>2. QED
  <2> DEFINE c == th[Sysmon]
             w == [c EXCEPT !.pc = "handoff", !.hold = p, !.ret = "sysmon"]
  <2>1. Sysmon \in Threads
    BY ThreadsFinite
  <2>2. Sound(c)
    BY <2>1, SoundNow
  <2>3. /\ th' = [th EXCEPT ![Sysmon] = w] /\ c.pc = "sysmon" /\ pidle' = pidle /\ lq' = lq
        /\ nmspinning' = nmspinning /\ gq' = gq /\ blocked' = blocked /\ netw' = netw
        /\ netev' = netev
    BY <1>1 DEF retake, At, Become, Goto, Return, P, queues, idle, spinning, net, others
  <2>4. c.p = NoP /\ ~c.spin
    BY <2>1, Facts
  <2>5. p \in Ps /\ p # NoP /\ p \notin pidle
    BY <2>2 DEF Sound
  <2>6. /\ w \in ThreadStates /\ w.pc = "handoff" /\ w.p = c.p /\ w.old = c.old
        /\ w.spin = c.spin /\ w.hold = p /\ w.hspin = c.hspin /\ w.ret = "sysmon" /\ w.n = c.n
        /\ w.rest = c.rest /\ w.owed = c.owed
    BY <2>2, <2>3, <2>4, <2>5 DEF Sound, ThreadStates, PCs, WithoutP, Handoffs, AnyP, Rets
  <2> HIDE DEF w
  <2>7. /\ c.p = NoP /\ c.hold = NoP /\ c.spin = FALSE /\ c.hspin = FALSE /\ c.owed = 0
        /\ c.rest = 0 /\ p \in Ps
    BY <2>2, <2>3, <2>4, <2>5 DEF Sound, ThreadStates, ThreadOK, HasP, Returns, Spins, Owes,
       Place, WithP, WithoutP, Handoffs, Injects
  <2>8. ThreadOK(w)
    BY <2>2, <2>3, <2>4, <2>5, <2>6, <2>7 DEF Sound, ThreadOK, HasP, Returns, Spins, Owes,
       Place, WithP, WithoutP, Handoffs, Injects
  <2>9. Moved(Sysmon, w)
    BY <2>1, <2>2, <2>3, <2>4, <2>5, <2>6, <2>7, <2>8 DEF Moved, Sound
  <2>10. OwnStep(c, w)
    <3>1. pidle' = pidle \ {p}
      BY <2>3, <2>4, <2>5
    <3>2. QED
      BY <1>1, <2>1, <2>3, <2>6, <2>7, <3>1, OwnTakes
  <2>11. QueueStep(w)
    BY <2>1, <2>2, <2>3, <2>4, <2>5, <2>6, <2>7, QueueSame DEF Drained
  <2>12. Counts(w) = 0 /\ Counts(c) = 0 /\ Carries(w) = 0 /\ Carries(c) = 0
    BY <2>2, <2>3, <2>4, <2>5, <2>6, <2>7, CarriesType DEF Sound, ThreadStates, Counts, Carries,
       Bit
  <2>13. CountStep(c, w)
    BY <2>2, <2>3, <2>4, <2>5, <2>6, <2>7, <2>12 DEF Sound, CountStep
  <2>14. QED
    BY <2>1, <2>9, <2>10, <2>11, <2>13, StepKeeps

LEMMA handoffpKeeps == ASSUME Inv, handoffp PROVE Inv'
<1>1. Sysmon \in Threads
  BY ThreadsFinite
<1>2. /\ Sound(th[Sysmon]) /\ th[Sysmon].pc = "handoff" /\ lq' = lq /\ gq' = gq /\ pidle' = pidle
      /\ insys' = insys /\ nmspinning' = nmspinning /\ blocked' = blocked /\ netw' = netw
      /\ netev' = netev
  BY <1>1, SoundNow DEF handoffp, At, queues, idle, spinning, net, others
<1>3. <<th[Sysmon].pc, "startm">> \in Edges /\ <<th[Sysmon].pc, "handoffSpin">> \in Edges
  BY <1>2 DEF Edges
<1>4. CASE Goto(Sysmon, "startm")
  BY <1>1, <1>2, <1>3, <1>4, EdgeKeeps
<1>5. CASE Goto(Sysmon, "handoffSpin") /\ ~(lq[th[Sysmon].hold] > 0)
  <2>1. th[Sysmon].hold \in Ps
    BY <1>2 DEF Sound, ThreadOK, HasP, ThreadStates, AnyP, Handoffs
  <2>2. lq[th[Sysmon].hold] = 0
    BY <1>2, <1>5, <2>1 DEF Sound
  <2>3. QED
    BY <1>1, <1>2, <1>3, <1>5, <2>2, EdgeKeeps
<1>6. QED
  BY <1>4, <1>5 DEF handoffp

LEMMA handoffSpinKeeps == ASSUME Inv, handoffSpin PROVE Inv'
<1>1. Sysmon \in Threads
  BY ThreadsFinite
<1>2. /\ th[Sysmon].pc = "handoffSpin" /\ lq' = lq /\ gq' = gq /\ pidle' = pidle /\ insys' = insys
      /\ nmspinning' = nmspinning /\ blocked' = blocked /\ netw' = netw /\ netev' = netev
  BY DEF handoffSpin, At, queues, idle, spinning, net, others
<1>3. <<th[Sysmon].pc, "handoffIdle">> \in Edges /\ <<th[Sysmon].pc, "handoffLock">> \in Edges
  BY <1>2 DEF Edges
<1>4. CASE Goto(Sysmon, "handoffIdle")
  BY <1>1, <1>2, <1>3, <1>4, EdgeKeeps
<1>5. CASE Goto(Sysmon, "handoffLock")
  BY <1>1, <1>2, <1>3, <1>5, EdgeKeeps
<1>6. QED
  BY <1>4, <1>5 DEF handoffSpin

LEMMA handoffIdleKeeps == ASSUME Inv, handoffIdle PROVE Inv'
<1>1. Sysmon \in Threads
  BY ThreadsFinite
<1>2. /\ th[Sysmon].pc = "handoffIdle" /\ lq' = lq /\ gq' = gq /\ pidle' = pidle /\ insys' = insys
      /\ nmspinning' = nmspinning /\ blocked' = blocked /\ netw' = netw /\ netev' = netev
  BY DEF handoffIdle, At, queues, idle, spinning, net, others
<1>3. <<th[Sysmon].pc, "handoffCas">> \in Edges /\ <<th[Sysmon].pc, "handoffLock">> \in Edges
  BY <1>2 DEF Edges
<1>4. CASE Goto(Sysmon, "handoffCas")
  BY <1>1, <1>2, <1>3, <1>4, EdgeKeeps
<1>5. CASE Goto(Sysmon, "handoffLock")
  BY <1>1, <1>2, <1>3, <1>5, EdgeKeeps
<1>6. QED
  BY <1>4, <1>5 DEF handoffIdle

LEMMA handoffCasKeeps == ASSUME Inv, handoffCas PROVE Inv'
<1>1. ASSUME nmspinning' = Reserved,
             Become(Sysmon, [th[Sysmon] EXCEPT !.pc = "handoffStore", !.hspin = TRUE])
      PROVE  Inv'
  <2> DEFINE c == th[Sysmon]
             w == [c EXCEPT !.pc = "handoffStore", !.hspin = TRUE]
  <2>1. Sysmon \in Threads
    BY ThreadsFinite
  <2>2. Sound(c)
    BY <2>1, SoundNow
  <2>3. /\ th' = [th EXCEPT ![Sysmon] = w] /\ c.pc = "handoffCas"
        /\ nmspinning' = nmspinning + 1 /\ lq' = lq /\ pidle' = pidle /\ insys' = insys
        /\ gq' = gq /\ blocked' = blocked /\ netw' = netw /\ netev' = netev
    BY <1>1 DEF handoffCas, Reserved, At, Become, Goto, Return, P, queues, idle, spinning, net,
       others
  <2>4. c.p = NoP /\ ~c.spin
    BY <2>1, Facts
  <2>5. c.hold \in Ps
    BY <2>2, <2>3 DEF Sound, ThreadStates, AnyP, ThreadOK, HasP, Handoffs
  <2>6. /\ w \in ThreadStates /\ w.pc = "handoffStore" /\ w.p = c.p /\ w.old = c.old
        /\ w.spin = c.spin /\ w.hold = c.hold /\ w.hspin = TRUE /\ w.ret = c.ret /\ w.n = c.n
        /\ w.rest = c.rest /\ w.owed = c.owed
    BY <2>2, <2>3, <2>4, <2>5 DEF Sound, ThreadStates, PCs, Rets, WithP, WithoutP, Handoffs,
       Injects
  <2> HIDE DEF w
  <2>7. /\ c.p = NoP /\ c.spin = FALSE /\ c.hspin = FALSE /\ c.owed = 0 /\ c.rest = 0
        /\ c.hold \in Ps /\ c.ret = "sysmon"
    BY <2>2, <2>3, <2>4, <2>5 DEF Sound, ThreadStates, ThreadOK, HasP, Returns, Spins, Owes,
       Place, WithP, WithoutP, Handoffs, Injects
  <2>8. ThreadOK(w)
    BY <2>2, <2>3, <2>4, <2>5, <2>6, <2>7 DEF Sound, ThreadOK, HasP, Returns, Spins, Owes,
       Place, WithP, WithoutP, Handoffs, Injects
  <2>9. Moved(Sysmon, w)
    BY <2>1, <2>2, <2>3, <2>4, <2>5, <2>6, <2>7, <2>8 DEF Moved, Sound
  <2>10. OwnStep(c, w)
    BY <2>1, <2>3, <2>4, <2>5, <2>6, <2>7, OwnSame
  <2>11. QueueStep(w)
    BY <2>1, <2>2, <2>3, <2>4, <2>5, <2>6, <2>7, QueueSame DEF Drained
  <2>12. Counts(w) = 1 /\ Counts(c) = 0 /\ Carries(w) = 0 /\ Carries(c) = 0
    BY <2>2, <2>3, <2>4, <2>5, <2>6, <2>7, CarriesType DEF Sound, ThreadStates, Counts, Carries,
       Bit
  <2>13. CountStep(c, w)
    BY <2>2, <2>3, <2>4, <2>5, <2>6, <2>7, <2>12 DEF Sound, CountStep
  <2>14. QED
    BY <2>1, <2>9, <2>10, <2>11, <2>13, StepKeeps
<1>2. ASSUME Goto(Sysmon, "handoffLock"), nmspinning' = nmspinning PROVE Inv'
  <2>1. Sysmon \in Threads
    BY ThreadsFinite
  <2>2. /\ <<th[Sysmon].pc, "handoffLock">> \in Edges /\ th[Sysmon].pc = "handoffCas" /\ lq' = lq
        /\ gq' = gq /\ pidle' = pidle /\ insys' = insys /\ nmspinning' = nmspinning
        /\ blocked' = blocked /\ netw' = netw /\ netev' = netev
    BY <1>2 DEF Edges, handoffCas, At, queues, idle, spinning, net, others
  <2>3. QED
    BY <1>2, <2>1, <2>2, EdgeKeeps
<1>3. QED
  BY <1>1, <1>2 DEF handoffCas
LEMMA handoffStoreKeeps == ASSUME Inv, handoffStore PROVE Inv'
<1>1. Sysmon \in Threads
  BY ThreadsFinite
<1>2. /\ th[Sysmon].pc = "handoffStore" /\ lq' = lq /\ gq' = gq /\ pidle' = pidle /\ insys' = insys
      /\ nmspinning' = nmspinning /\ blocked' = blocked /\ netw' = netw /\ netev' = netev
  BY DEF handoffStore, At, queues, idle, spinning, net, others
<1>3. <<th[Sysmon].pc, "startm">> \in Edges
  BY <1>2 DEF Edges
<1>4. QED
  BY <1>1, <1>2, <1>3, EdgeKeeps DEF handoffStore

LEMMA handoffLockKeeps == ASSUME Inv, handoffLock PROVE Inv'
<1>1. ASSUME Goto(Sysmon, "startm"), pidle' = pidle PROVE Inv'
  <2>1. Sysmon \in Threads
    BY ThreadsFinite
  <2>2. /\ <<th[Sysmon].pc, "startm">> \in Edges /\ th[Sysmon].pc = "handoffLock" /\ lq' = lq
        /\ gq' = gq /\ insys' = insys /\ nmspinning' = nmspinning
        /\ blocked' = blocked /\ netw' = netw /\ netev' = netev
    BY <1>1 DEF Edges, handoffLock, At, queues, spinning, net
  <2>3. QED
    BY <1>1, <2>1, <2>2, EdgeKeeps
<1>2. ASSUME pidle' = pidle \cup {th[Sysmon].hold}, Become(Sysmon, [Thread EXCEPT !.pc = "sysmon"])
      PROVE  Inv'
  <2> DEFINE c == th[Sysmon]
             w == [Thread EXCEPT !.pc = "sysmon"]
  <2>1. Sysmon \in Threads
    BY ThreadsFinite
  <2>2. Sound(c)
    BY <2>1, SoundNow
  <2>3. /\ th' = [th EXCEPT ![Sysmon] = w] /\ c.pc = "handoffLock"
        /\ pidle' = pidle \cup {c.hold} /\ insys' = insys /\ lq' = lq
        /\ nmspinning' = nmspinning /\ gq' = gq /\ blocked' = blocked /\ netw' = netw
        /\ netev' = netev
    BY <1>2 DEF handoffLock, At, Become, Goto, Return, P, queues, idle, spinning, net, others
  <2>4. c.p = NoP /\ ~c.spin
    BY <2>1, Facts
  <2>5. c.hold \in Ps
    BY <2>2, <2>3 DEF Sound, ThreadStates, AnyP, ThreadOK, HasP, Handoffs
  <2>6. lq[c.hold] = 0
    BY <2>2, <2>3, <2>5 DEF Sound, Drained
  <2>7. /\ w \in ThreadStates /\ w.pc = "sysmon" /\ w.p = NoP /\ w.old = NoP /\ w.spin = FALSE
        /\ w.hold = NoP /\ w.hspin = FALSE /\ w.ret = "run" /\ w.n = 0 /\ w.rest = 0
        /\ w.owed = 0
    BY ThreadFields, <2>2, <2>3, <2>4, <2>5, <2>6 DEF Sound, ThreadStates, PCs, WithoutP, AnyP, Rets
  <2> HIDE DEF w
  <2>8. /\ c.p = NoP /\ c.spin = FALSE /\ c.hspin = FALSE /\ c.owed = 0 /\ c.rest = 0
        /\ c.hold \in Ps /\ c.ret = "sysmon"
    BY <2>2, <2>3, <2>4, <2>5, <2>6 DEF Sound, ThreadStates, ThreadOK, HasP, Returns, Spins,
       Owes, Place, WithP, WithoutP, Handoffs, Injects
  <2>9. ThreadOK(w)
    BY <2>2, <2>3, <2>4, <2>5, <2>6, <2>7, <2>8 DEF Sound, ThreadOK, HasP, Returns, Spins, Owes,
       Place, WithP, WithoutP, Handoffs, Injects
  <2>10. Moved(Sysmon, w)
    BY <2>1, <2>2, <2>3, <2>4, <2>5, <2>6, <2>7, <2>8, <2>9 DEF Moved, Sound
  <2>11. OwnStep(c, w)
    BY <2>1, <2>2, <2>3, <2>4, <2>5, <2>6, <2>7, <2>8, OwnGives DEF Sound
  <2>12. QueueStep(w)
    BY <2>1, <2>2, <2>3, <2>4, <2>5, <2>6, <2>7, <2>8, QueueSame DEF Drained
  <2>13. Counts(w) = 0 /\ Counts(c) = 0 /\ Carries(w) = 0 /\ Carries(c) = 0
    BY <2>2, <2>3, <2>4, <2>5, <2>6, <2>7, <2>8, CarriesType DEF Sound, ThreadStates, Counts,
       Carries, Bit
  <2>14. CountStep(c, w)
    BY <2>2, <2>3, <2>4, <2>5, <2>6, <2>7, <2>8, <2>13 DEF Sound, CountStep
  <2>15. QED
    BY <2>1, <2>10, <2>11, <2>12, <2>14, StepKeeps
<1>3. QED
  BY <1>1, <1>2 DEF handoffLock

\* The P changes hands: two threads move.
LEMMA startmKeeps == ASSUME Inv, NEW t \in Threads, startm(t) PROVE Inv'
<1>1. PICK m \in Ms :
        /\ At(m, "parked")
        /\ th' = [th EXCEPT
                    ![m] = [Thread EXCEPT !.pc = "find", !.p = th[t].hold, !.spin = th[t].hspin],
                    ![t] = [@ EXCEPT !.pc = th[t].ret, !.ret = "run", !.hold = NoP, !.hspin = FALSE]]
  BY DEF startm
<1> DEFINE c == th[t]
           d == th[m]
           w == [c EXCEPT !.pc = c.ret, !.ret = "run", !.hold = NoP, !.hspin = FALSE]
           v == [Thread EXCEPT !.pc = "find", !.p = c.hold, !.spin = c.hspin]
           k == [th EXCEPT ![t] = w]
<1>2. m \in Threads /\ m # Sysmon
  BY SchedAssumption DEF Threads
<1>3. Sound(c) /\ Sound(d) /\ (t = Sysmon => c.p = NoP /\ ~c.spin)
  BY <1>2, SoundNow, Facts
<1>4. /\ c.pc = "startm" /\ d.pc = "parked" /\ m # t /\ lq' = lq /\ gq' = gq /\ pidle' = pidle
      /\ insys' = insys /\ nmspinning' = nmspinning /\ blocked' = blocked /\ netw' = netw
      /\ netev' = netev
  BY <1>1 DEF startm, At, queues, idle, spinning, net, others
<1>5. /\ c.ret \in {"run", "find", "sysmon", "startIdle", "injectP", "adjust"} /\ c.hold \in Ps
      /\ c.hold # c.p /\ c.hspin \in BOOLEAN
  BY <1>3, <1>4 DEF Sound, ThreadStates, AnyP, ThreadOK, HasP, Returns
<1>6. /\ w \in ThreadStates /\ w.pc = c.ret /\ w.p = c.p /\ w.old = c.old /\ w.spin = c.spin
      /\ w.hold = NoP /\ w.hspin = FALSE /\ w.ret = "run" /\ w.n = c.n /\ w.rest = c.rest
      /\ w.owed = c.owed
  <2>1. c.ret \in PCs /\ "run" \in Rets /\ NoP \in AnyP /\ c \in ThreadStates
    BY <1>3, <1>5 DEF Sound, PCs, Rets, AnyP, WithP, WithoutP, Injects
  <2>2. QED
    BY <2>1 DEF ThreadStates
<1>7. /\ v \in ThreadStates /\ v.pc = "find" /\ v.p = c.hold /\ v.old = NoP /\ v.spin = c.hspin
      /\ v.hold = NoP /\ v.hspin = FALSE /\ v.ret = "run" /\ v.n = 0 /\ v.rest = 0 /\ v.owed = 0
  BY <1>5, ThreadFields DEF ThreadStates, PCs, WithP, AnyP, Rets
<1>8. /\ d.p = NoP /\ d.hold = NoP /\ d.spin = FALSE /\ d.hspin = FALSE /\ d.rest = 0 /\ d.owed = 0
  BY <1>3, <1>4 DEF Sound, ThreadStates, ThreadOK, HasP, Spins, Owes, Place, WithoutP, Handoffs,
     Injects
<1>9. th \in [Threads -> ThreadStates] /\ Owned(th, pidle \cup insys)
  BY DEF Inv, TypeInv
<1>10. th' = [k EXCEPT ![m] = v]
  BY <1>1, <1>2, <1>4, <1>9
<1> HIDE DEF w, v
<1>11. k \in [Threads -> ThreadStates] /\ k[m] = d /\ k[t] = w
  BY <1>2, <1>4, <1>6, <1>9
<1>12. th' \in [Threads -> ThreadStates] /\ th'[m] = v /\ th'[t] = w
       /\ \A s \in Threads : s # m /\ s # t => th'[s] = th[s]
  BY <1>2, <1>4, <1>7, <1>9, <1>10, <1>11
<1>13. ThreadOK(w)
  BY <1>3, <1>4, <1>5, <1>6 DEF Sound, ThreadOK, HasP, Returns, Spins, Owes, Place, WithP, WithoutP,
     Handoffs, Injects
<1>14. ThreadOK(v)
  BY <1>5, <1>7 DEF ThreadOK, HasP, Returns, Spins, Owes, Place, WithP, WithoutP, Handoffs, Injects
<1>15. TypeInv'
  BY <1>3, <1>4, <1>12 DEF TypeInv, Sound
<1>16. ThreadsInv'
  BY <1>2, <1>3, <1>4, <1>6, <1>12, <1>13, <1>14, ThreadsFinite DEF ThreadsInv, Inv
<1>17. Owned(th', pidle' \cup insys')
  <2> DEFINE U == pidle \cup insys
             V == U \cup {c.hold}
  <2>1. NoP \notin Ps /\ Owns(c, c.hold) /\ c.hold \notin U
    BY <1>3, <1>5 DEF Sound, Owns
  <2>2. Owned(k, V)
    <3>1. \A p \in Ps : Owns(w, p) => Owns(th[t], p) \/ p \in U
      BY <1>6, <2>1 DEF Owns
    <3>2. \A p \in Ps : p \in V <=> ~Owns(w, p) /\ (p \in U \/ Owns(th[t], p))
      BY <1>3, <1>5, <1>6, <2>1 DEF Owns, Sound
    <3> HIDE DEF U, V
    <3>3. Owned(th, U)
      BY <1>9 DEF U
    <3>4. QED
      BY <1>6, <1>9, <3>1, <3>2, <3>3, OwnMoves
  <2>3. Owned(th', U)
    <3>1. \A p \in Ps : Owns(v, p) => Owns(k[m], p) \/ p \in V
      BY <1>7, <2>1 DEF Owns
    <3>2. \A p \in Ps : p \in U <=> ~Owns(v, p) /\ (p \in V \/ Owns(k[m], p))
      BY <1>5, <1>7, <1>8, <1>11, <2>1 DEF Owns
    <3> HIDE DEF U, V, k
    <3>3. QED
      BY <1>2, <1>7, <1>10, <1>11, <2>2, <3>1, <3>2, OwnMoves
  <2>4. QED
    BY <1>4, <2>3
<1>18. Empty'
  <2>1. \A p \in Ps : ~Drained(w, p) /\ ~Drained(v, p)
    BY <1>5, <1>6, <1>7 DEF Drained
  <2>2. ASSUME NEW p \in Ps, NEW s \in Threads, Drained(th'[s], p) PROVE lq'[p] = 0
    <3>1. s # m /\ s # t /\ Drained(th[s], p)
      BY <1>12, <2>1, <2>2
    <3>2. QED
      BY <1>4, <3>1 DEF Inv, Empty
  <2>3. QED
    BY <1>4, <2>2 DEF Inv, Empty
<1>19. nmspinning' = SpinTotal(th')
  <2>1. /\ SpinTotal(th) \in Int /\ SpinTotal(k) \in Int
        /\ SpinTotal(k) = SpinTotal(th) + Counts(w) - Counts(c)
    BY <1>6, <1>9, SpinMoves
  <2> HIDE DEF k
  <2>2. SpinTotal(th') = SpinTotal(k) + Counts(v) - Counts(d)
    BY <1>2, <1>7, <1>10, <1>11, SpinMoves
  <2>3. /\ Counts(w) = Bit(c.spin) /\ Counts(v) = Bit(c.hspin) /\ Counts(d) = 0
        /\ Counts(c) = Bit(c.spin) + Bit(c.hspin)
    BY <1>4, <1>5, <1>6, <1>7, <1>8 DEF Counts, Bit
  <2>4. Bit(c.spin) \in Int /\ Bit(c.hspin) \in Int
    BY DEF Bit
  <2>5. SpinTotal(th') = SpinTotal(th)
    BY <2>1, <2>2, <2>3, <2>4
  <2>6. QED
    BY <1>4, <2>5 DEF Inv
<1>20. Goroutines' + Carried(th') = GS
  <2>1. /\ Carried(th) \in Nat /\ Carried(k) \in Nat
        /\ Carried(k) = Carried(th) - Carries(c) + Carries(w)
    BY <1>6, <1>9, CarriedMoves
  <2> HIDE DEF k
  <2>2. Carried(th') = Carried(k) - Carries(d) + Carries(v)
    BY <1>2, <1>7, <1>10, <1>11, CarriedMoves
  <2>3. Carries(v) = 0 /\ Carries(d) = 0
    BY <1>4, <1>7, <1>8 DEF Carries
  <2>4. Carries(w) = Carries(c) /\ Carries(c) \in Nat
    <3>1. (c.ret \in {"run", "find", "sysmon"} => c.owed = 0) /\ c.rest \in Nat
      BY <1>3, <1>4 DEF Sound, ThreadStates, ThreadOK, Owes, Place, Injects
    <3>2. QED
      BY <1>4, <1>5, <1>6, <3>1 DEF Carries
  <2>5. Carried(th') = Carried(th)
    BY <2>1, <2>2, <2>3, <2>4
  <2>6. Goroutines' = Goroutines
    BY <1>4 DEF Goroutines, Sum
  <2>7. QED
    BY <2>5, <2>6 DEF Inv
<1>21. pidle' \cap insys' = {}
  BY <1>3, <1>4 DEF Sound
<1>22. QED
  BY <1>15, <1>16, <1>17, <1>18, <1>19, <1>20, <1>21 DEF Inv, Owned, SpinTotal, Carried, Sum

LEMMA NetEventKeeps == ASSUME Inv, NetEvent PROVE Inv'
<1> DEFINE c == th[Sysmon]
<1>1. Sysmon \in Threads
  BY ThreadsFinite
<1>2. Sound(c) /\ c.p = NoP /\ ~c.spin
  BY <1>1, SoundNow, Facts
<1>3. /\ th' = th /\ netw > 0 /\ netw' = netw - 1 /\ netev' = netev + 1 /\ lq' = lq /\ gq' = gq
      /\ pidle' = pidle /\ insys' = insys /\ nmspinning' = nmspinning /\ blocked' = blocked
  BY DEF NetEvent, queues, idle, spinning, others
<1>4. th' = [th EXCEPT ![Sysmon] = c]
  BY <1>1, <1>3 DEF Inv, TypeInv
<1>5. Moved(Sysmon, c)
  BY <1>2, <1>4 DEF Moved, Sound
<1>6. OwnStep(c, c)
  BY <1>1, <1>3, OwnSame
<1>7. QueueStep(c)
  BY <1>1, <1>3, QueueSame
<1>8. Counts(c) \in Nat /\ Carries(c) \in Nat
  BY <1>2, CarriesType DEF Sound
<1>9. CountStep(c, c)
  BY <1>2, <1>3, <1>8 DEF CountStep, Sound
<1>10. QED
  BY <1>1, <1>5, <1>6, <1>7, <1>9, StepKeeps

-----------------------------------------------------------------------------
(***************************************************************************)
(* The invariant holds.                                                    *)
(***************************************************************************)
LEMMA InitInv == ASSUME Init PROVE Inv
<1>1. PICK m \in Ms, p \in Ps :
        /\ pidle = Ps \ {p}
        /\ th = [t \in Threads |-> CASE t = m -> [Thread EXCEPT !.pc = "run", !.p = p]
                                     [] t = Sysmon -> [Thread EXCEPT !.pc = "sysmon"]
                                     [] OTHER -> Thread]
  BY DEF Init
<1> DEFINE r == [Thread EXCEPT !.pc = "run", !.p = p]
           y == [Thread EXCEPT !.pc = "sysmon"]
<1>2. m \in Threads /\ m # Sysmon /\ Sysmon \in Threads /\ NoP \notin Ps
  BY SchedAssumption DEF Threads
<1>3. /\ r \in ThreadStates /\ r.pc = "run" /\ r.p = p /\ r.spin = FALSE /\ r.hold = NoP
      /\ r.hspin = FALSE /\ r.ret = "run" /\ r.n = 0 /\ r.rest = 0 /\ r.owed = 0
  BY ThreadFields DEF ThreadStates, PCs, WithP, AnyP
<1>4. /\ y \in ThreadStates /\ y.pc = "sysmon" /\ y.p = NoP /\ y.spin = FALSE /\ y.hold = NoP
      /\ y.hspin = FALSE /\ y.ret = "run" /\ y.n = 0 /\ y.rest = 0 /\ y.owed = 0
  BY ThreadFields DEF ThreadStates, PCs, WithoutP
<1>5. /\ Thread \in ThreadStates /\ Thread.pc = "parked" /\ Thread.p = NoP /\ Thread.spin = FALSE
      /\ Thread.hold = NoP /\ Thread.hspin = FALSE /\ Thread.ret = "run" /\ Thread.n = 0
      /\ Thread.rest = 0 /\ Thread.owed = 0
  BY ThreadFields
<1>6. th[m] = r /\ \A t \in Threads : t # m => th[t] = y \/ th[t] = Thread
  BY <1>1, <1>2
<1>7. th[Sysmon] = y
  BY <1>1, <1>2
<1>8. DOMAIN th = Threads /\ th = [t \in Threads |-> th[t]]
  BY <1>1
<1> HIDE DEF r, y
<1>9. th \in [Threads -> ThreadStates]
  BY <1>3, <1>4, <1>5, <1>6, <1>8
<1>10. TypeInv
  <2>1. blocked \in Nat /\ nmspinning \in Int /\ netw \in Nat /\ netev \in Nat /\ gq \in Nat
    BY SchedAssumption DEF Init
  <2>2. lq \in [Ps -> Nat] /\ pidle \in SUBSET Ps /\ insys \in SUBSET Ps
    BY <1>1 DEF Init
  <2>3. QED
    BY <1>9, <2>1, <2>2 DEF TypeInv
<1>11. ThreadsInv
  <2>1. ThreadOK(r)
    BY <1>2, <1>3 DEF ThreadOK, HasP, Returns, Spins, Owes, Place, WithP, WithoutP, Handoffs, Injects
  <2>2. ThreadOK(y)
    BY <1>4 DEF ThreadOK, HasP, Returns, Spins, Owes, Place, WithP, WithoutP, Handoffs, Injects
  <2>3. ThreadOK(Thread)
    BY <1>5 DEF ThreadOK, HasP, Returns, Spins, Owes, Place, WithP, WithoutP, Handoffs, Injects
  <2>4. QED
    BY <1>4, <1>6, <1>7, <2>1, <2>2, <2>3 DEF ThreadsInv
<1>12. Owned(th, pidle \cup insys) /\ pidle \cap insys = {}
  <2>1. insys = {}
    BY DEF Init
  <2>2. \A t \in Threads : \A q \in Ps : Owns(th[t], q) <=> t = m /\ q = p
    BY <1>2, <1>3, <1>4, <1>5, <1>6 DEF Owns
  <2>3. QED
    BY <1>1, <1>2, <2>1, <2>2 DEF Owned
<1>13. Empty
  BY <1>1 DEF Init, Empty
<1>14. nmspinning = SpinTotal(th)
  <2>1. \A t \in Threads : ~th[t].spin /\ th[t].pc # "wakeP" /\ ~th[t].hspin
    BY <1>3, <1>4, <1>5, <1>6
  <2>2. /\ {t \in Threads : th[t].spin} = {} /\ {t \in Threads : th[t].pc = "wakeP"} = {}
        /\ {t \in Threads : th[t].hspin} = {}
    BY <2>1
  <2>3. Cardinality({}) = 0
    BY FS_EmptySet
  <2>4. SpinTotal(th) = Cardinality({}) + Cardinality({}) + Cardinality({})
    BY <2>2, Zenon DEF SpinTotal
  <2>5. QED
    BY <2>3, <2>4 DEF Init
<1>15. Goroutines + Carried(th) = GS
  <2>1. Sum(lq, Ps) = 0
    <3>1. \A q \in Ps : lq[q] = 0
      BY DEF Init
    <3>2. QED
      BY <3>1, SumOfZeros
  <2>2. Carried(th) = 1
    <3> DEFINE f == [t \in Threads |-> Carries(th[t])]
               g == [t \in Threads |-> 0]
    <3>1. Carries(r) = 1 /\ Carries(y) = 0 /\ Carries(Thread) = 0
      BY <1>3, <1>4, <1>5 DEF Carries
    <3>2. f \in [Threads -> Nat] /\ f[m] = 1 /\ \A t \in Threads : t # m => f[t] = 0
      BY <1>2, <1>6, <3>1
    <3>3. g \in [Threads -> Nat] /\ g[m] = 0 /\ \A t \in Threads : t # m => g[t] = f[t]
      BY <1>2, <3>2
    <3>4. Sum(g, Threads) = 0
      BY SumOfZeros
    <3>5. Carried(th) = Sum(f, Threads)
      BY DEF Carried
    <3> HIDE DEF f, g
    <3>6. Sum(f, Threads) = Sum(g, Threads) + f[m]
      BY <1>2, <3>2, <3>3, ThreadsFinite, SumSplits
    <3>7. QED
      BY <3>2, <3>4, <3>5, <3>6
  <2>3. QED
    BY <2>1, <2>2, SchedAssumption DEF Goroutines, Init
<1>16. QED
  BY <1>10, <1>11, <1>12, <1>13, <1>14, <1>15 DEF Inv

LEMMA NextInv == ASSUME Inv, [Next]_vars PROVE Inv'
<1>1. ASSUME NEW m \in Ms, Goroutine(m) PROVE Inv'
  BY <1>1, readyKeeps, parkKeeps, parkNetKeeps, goschedImplKeeps, entersyscallKeeps,
     exitsyscallfastKeeps DEF Goroutine
<1>2. ASSUME NEW m \in Ms, Scheduler(m) PROVE Inv'
  BY <1>2, netpollAdjustWaitersKeeps, exitsyscallLostKeeps, exitsyscall0Keeps, wakepKeeps, wakepGetKeeps,
     resetspinningKeeps, findGlobalFirstKeeps, findLocalKeeps, findGlobalKeeps, findPollKeeps,
     findStealKeeps, findLimitKeeps, becomeSpinningKeeps,
     becomeSpinningStoreKeeps, stealWorkKeeps, findReleaseKeeps, findDropKeeps, findAgainKeeps,
     checkRunqsNoPKeeps, checkRunqsGetPKeeps, findMayBlockKeeps,
     findPollingKeeps, findPolledKeeps, findPollPKeeps DEF Scheduler
<1>3. ASSUME NEW t \in Threads, Injecting(t) PROVE Inv'
  BY <1>3, startmKeeps, injectGlobalKeeps, startIdleKeeps, injectLocalKeeps, adjustWaitersKeeps
     DEF Injecting
<1>4. ASSUME SysmonStep PROVE Inv'
  BY <1>4, sysmonPollKeeps, retakeKeeps, handoffpKeeps, handoffSpinKeeps, handoffIdleKeeps,
     handoffCasKeeps, handoffStoreKeeps, handoffLockKeeps
     DEF SysmonStep
<1>5. CASE UNCHANGED vars
  BY <1>5 DEF vars, queues, idle, spinning, net, others, Inv, TypeInv, ThreadsInv, Owned, Empty,
     SpinTotal, Goroutines, Carried, Sum
<1>6. QED
  BY <1>1, <1>2, <1>3, <1>4, <1>5, NetEventKeeps DEF Next

LEMMA Invariance == Spec => []Inv
<1>1. Init => Inv
  BY InitInv
<1>2. Inv /\ [Next]_vars => Inv'
  BY NextInv
<1>3. QED
  BY <1>1, <1>2, PTL DEF Spec

\* sched.nmspinning is exactly the number of Ms that spin or have been promised
\* to: wakep's CompareAndSwap, becomeSpinning, handoffp's reservation,
\* resetspinning, the drop of the P and the give-back of a failed wakep neither
\* lose nor double a count, for any number of threads and Ps.
THEOREM SpinnersCounted == Spec => []SpinningCounted
<1>1. Inv => SpinningCounted
  <2>1. SUFFICES ASSUME Inv PROVE SpinningCounted
    OBVIOUS
  <2>2. ~th[Sysmon].spin /\ Threads = Ms \cup {Sysmon}
    BY <2>1 DEF Inv, ThreadsInv, Threads
  <2>3. {m \in Ms : th[m].spin} = {t \in Threads : th[t].spin}
    BY <2>2
  <2>4. Where({"wakeP"}) = {t \in Threads : th[t].pc = "wakeP"}
    BY DEF Where
  <2>5. QED
    BY <2>1, <2>3, <2>4 DEF Inv, SpinTotal, SpinningCounted
<1>2. QED
  BY <1>1, Invariance, PTL

\* No goroutine and no P is lost or doubled by the run queues, stealing,
\* injectglist, system calls, handoffp and startm, for any number of threads, Ps
\* and goroutines; the queue of an idle P is empty.
THEOREM NothingLost == Spec => []Accounted
<1>1. Inv => Accounted
  <2>1. SUFFICES ASSUME Inv PROVE Accounted
    OBVIOUS
  <2>2. gq + blocked + netw + netev + Sum(lq, Ps)
          + Sum([t \in Threads |-> Carries(th[t])], Threads) = GS
    BY <2>1 DEF Inv, Goroutines, Carried
  <2>3. ASSUME NEW p \in Ps
        PROVE  Cardinality({t \in Threads : p \in {th[t].p, th[t].hold}})
                 = IF p \in pidle \cup insys THEN 0 ELSE 1
    <3> DEFINE T == {t \in Threads : p \in {th[t].p, th[t].hold}}
    <3>1. \A t \in Threads : t \in T <=> Owns(th[t], p)
      BY DEF Owns
    <3>2. T \subseteq Threads
      OBVIOUS
    <3>3. CASE p \in pidle \cup insys
      <4>1. T = {}
        BY <2>1, <3>1, <3>2, <3>3 DEF Inv, Owned
      <4>2. QED
        BY <3>3, <4>1, FS_EmptySet
    <3>4. CASE p \notin pidle \cup insys
      <4>1. PICK t \in Threads : Owns(th[t], p)
        BY <2>1, <3>4 DEF Inv, Owned
      <4>2. \A s \in Threads : Owns(th[s], p) => s = t
        BY <2>1, <4>1 DEF Inv, Owned
      <4> HIDE DEF T
      <4>3. T = {t}
        BY <3>1, <3>2, <4>1, <4>2
      <4>4. Cardinality(T) = 1
        BY <4>3, FS_Singleton
      <4>5. QED
        BY <3>4, <4>4 DEF T
    <3>5. QED
      BY <3>3, <3>4
  <2>4. pidle \cap insys = {} /\ \A p \in pidle : lq[p] = 0
    BY <2>1 DEF Inv, Empty
  <2>5. QED
    BY <2>2, <2>3, <2>4 DEF Accounted
<1>2. QED
  BY <1>1, Invariance, PTL

-----------------------------------------------------------------------------
(***************************************************************************)
(* The delicate dance: who will still look for work, and at the poller.    *)
(***************************************************************************)
\* Thread w spins, or will see to it that a thread spins as long as a P is idle.
Wakes(w) == w.spin \/ w.hspin \/ w.pc \in {"wakep", "wakeP", "again", "respin"}

\* Thread w, or the one it is about to start, takes from the global queue next.
Takes(w, q) == \/ w.pc = "startm" /\ ~w.hspin /\ q[w.hold] = 0
               \/ w.pc = "find" /\ ~w.spin /\ q[w.p] = 0

\* How many goroutines of the global queue w stands for, if Ps stay idle.
Starts(w) == IF w.pc \in {"startIdle", "startm"} THEN w.n ELSE 0
Stands(w, q) == Bit(Takes(w, q)) + Starts(w)
Stand(h, q) == Sum([t \in Threads |-> Stands(h[t], q)], Threads)

\* While a P is idle, a thread is awake or every goroutine of the global queue has
\* a thread that will take it.
GlobalInv == pidle = {} \/ (\E t \in Threads : Wakes(th[t])) \/ gq <= Stand(th, lq)

\* Thread w looks at the run queues once more, and has not overlooked anything.
Looks(w, q) == w.pc = "getP" \/ (w.pc = "queues" /\ \A p \in w.seen : q[p] = 0)

\* A goroutine left on a run queue will be seen by a thread that is awake or
\* looks, or by the one that gives up a P and finds needspinning set.
LocalInv == \/ slack \/ (\A p \in Ps : lq[p] = 0) \/ (pidle = {} /\ needspinning)
            \/ \E t \in Threads : Wakes(th[t]) \/ Looks(th[t], lq)

\* Threads that block in netpoll, and those that will look whether one does.
Polls(w) == w.pc \in {"polling", "polled"}
Seeks(w) == w.pc \in {"drop", "again", "queues", "getP", "mayBlock", "pollP"}

\* Goroutines that w has fetched from the poller and not taken off
\* netpollWaiters, and the one that it has not put there yet.
Fetched(w) == w.owed + (IF w.pc \in {"polled", "pollP"} THEN w.rest ELSE 0)
Late(w) == Bit(w.pc = "count")
FetchedAll(h) == Sum([t \in Threads |-> Fetched(h[t])], Threads)
LateAll(h) == Sum([t \in Threads |-> Late(h[t])], Threads)

\* netpollWaiters counts those that wait, up to what is late or still owed.
WaitersInv == waiters + LateAll(th) = netw + netev + FetchedAll(th)

\* lastpoll is 0 exactly while one thread, and only one, blocks in netpoll.
LastInv == /\ lastpoll <=> \A t \in Threads : ~Polls(th[t])
           /\ \A t, u \in Threads : Polls(th[t]) /\ Polls(th[u]) => t = u

\* With every P idle somebody polls or will look whether to.
SeekInv == pidle = Ps /\ netw + netev > 0 => ~lastpoll \/ \E t \in Threads : Seeks(th[t])

\* Only a thread that spins steals; n counts threads that injectglist still has
\* to start.
StepOK(w) == /\ w.pc = "scan" => w.spin
             /\ w.n > 0 => Place(w) \in {"injectG", "startIdle"}

Flags == /\ slack \in BOOLEAN /\ needspinning \in BOOLEAN /\ lastpoll \in BOOLEAN
         /\ waiters \in Int

DanceInv == /\ Flags /\ \A t \in Threads : StepOK(th[t])
            /\ GlobalInv /\ LocalInv /\ WaitersInv /\ LastInv /\ SeekInv

-----------------------------------------------------------------------------
(***************************************************************************)
(* What a step of thread t has to do for that.                             *)
(***************************************************************************)
Alone(t) == \A u \in Threads : u # t => th'[u] = th[u]

\* Run queues grow only at the thread's own P.
QueuesFall(w) == \A p \in Ps : lq'[p] <= lq[p] \/ Owns(w, p)

\* Somebody is awake.
Awake(h) == \E u \in Threads : Wakes(h[u])

GlobalStep(c, w) ==
    \/ pidle' = {} \/ gq' = 0 \/ Wakes(w) \/ Awake(th')
    \/ /\ ~Wakes(c) /\ (pidle = {} => pidle' = {})
       /\ gq' + Stands(c, lq) <= gq + Stands(w, lq')

LocalStep(c, w) ==
    \/ slack' \/ (\A p \in Ps : lq'[p] = 0) \/ (pidle' = {} /\ needspinning')
    \/ Wakes(w) \/ Awake(th') \/ Looks(w, lq')
    \/ /\ ~Wakes(c) /\ ~Looks(c, lq) /\ (slack => slack')
       /\ (\A p \in Ps : lq'[p] <= lq[p])
       /\ (pidle = {} /\ needspinning => pidle' = {} /\ needspinning')

WaitersStep(c, w) ==
    waiters' + Late(w) + Fetched(c) + netw + netev = waiters + Late(c) + Fetched(w) + netw' + netev'

LastStep(c, w) ==
    \/ lastpoll' = lastpoll /\ (Polls(w) <=> Polls(c))
    \/ lastpoll /\ ~lastpoll' /\ Polls(w)
    \/ Polls(c) /\ ~Polls(w) /\ lastpoll'

SeekStep(c, w) ==
    \/ pidle' # Ps \/ netw' + netev' = 0 \/ ~lastpoll' \/ Seeks(w)
    \/ pidle = Ps /\ ~Seeks(c) /\ lastpoll' = lastpoll /\ netw' + netev' <= netw + netev

-----------------------------------------------------------------------------
\* A sum grows with its parts.
LEMMA SumGrows ==
    ASSUME NEW S, IsFiniteSet(S), NEW f \in [S -> Nat], NEW g \in [S -> Nat],
           \A x \in S : f[x] <= g[x]
    PROVE  Sum(f, S) <= Sum(g, S)
<1>1. Units(f, S) \subseteq Units(g, S)
  <2>1. SUFFICES ASSUME NEW e \in Units(f, S) PROVE e \in Units(g, S)
    OBVIOUS
  <2>2. PICK x \in S : e \in {x} \X (1 .. f[x])
    BY DEF Units
  <2>3. PICK k \in 1 .. f[x] : e = <<x, k>>
    BY <2>2
  <2>4. k \in 1 .. g[x]
    <3>1. f[x] \in Nat /\ g[x] \in Nat /\ f[x] <= g[x]
      OBVIOUS
    <3>2. QED
      BY <3>1
  <2>5. QED
    BY <2>3, <2>4 DEF Units
<1>2. IsFiniteSet(Units(g, S))
  BY UnitsFinite
<1>3. Cardinality(Units(f, S)) <= Cardinality(Units(g, S))
  BY <1>1, <1>2, FS_Subset
<1>4. QED
  BY <1>3 DEF Sum, Units

LEMMA StandsType ==
    ASSUME NEW w \in ThreadStates, NEW q
    PROVE  Stands(w, q) \in Nat /\ Fetched(w) \in Nat /\ Late(w) \in Nat
BY DEF Stands, Starts, Bit, Fetched, Late, ThreadStates

LEMMA StandMoves ==
    ASSUME Inv, Inv', NEW t \in Threads, Alone(t), QueuesFall(th'[t])
    PROVE  /\ Stand(th, lq) \in Nat /\ Stand(th', lq') \in Nat
           /\ Stand(th, lq) + Stands(th'[t], lq') <= Stand(th', lq') + Stands(th[t], lq)
<1> DEFINE f == [u \in Threads |-> Stands(th[u], lq)]
           g == [u \in Threads |-> IF u = t THEN Stands(th[t], lq) ELSE Stands(th'[u], lq')]
           h == [u \in Threads |-> Stands(th'[u], lq')]
<1>1. th \in [Threads -> ThreadStates] /\ th' \in [Threads -> ThreadStates]
      /\ lq \in [Ps -> Nat] /\ lq' \in [Ps -> Nat]
  BY DEF Inv, TypeInv
<1>2. f \in [Threads -> Nat] /\ g \in [Threads -> Nat] /\ h \in [Threads -> Nat]
  BY <1>1, StandsType
<1>3. ASSUME NEW u \in Threads, u # t PROVE f[u] <= g[u]
  <2>1. th'[u] = th[u] /\ th[u] \in ThreadStates /\ ThreadOK(th[u])
    BY <1>1, <1>3 DEF Alone, Inv, ThreadsInv
  <2>2. \A p \in Ps : Owns(th[u], p) => lq'[p] <= lq[p]
    BY <1>3, <2>1 DEF QueuesFall, Inv, Owned
  <2>3. Takes(th[u], lq) => Takes(th[u], lq')
    <3>1. CASE th[u].pc = "startm"
      <4>1. th[u].hold \in Ps
        BY <2>1, <3>1 DEF ThreadOK, HasP, ThreadStates, AnyP
      <4>2. lq'[th[u].hold] <= lq[th[u].hold] /\ lq'[th[u].hold] \in Nat /\ lq[th[u].hold] \in Nat
        BY <1>1, <2>2, <4>1 DEF Owns
      <4>3. QED
        BY <3>1, <4>2 DEF Takes
    <3>2. CASE th[u].pc = "find"
      <4>1. th[u].p \in Ps
        BY <2>1, <3>2 DEF ThreadOK, HasP, WithP
      <4>2. lq'[th[u].p] <= lq[th[u].p] /\ lq'[th[u].p] \in Nat /\ lq[th[u].p] \in Nat
        BY <1>1, <2>2, <4>1 DEF Owns
      <4>3. QED
        BY <3>2, <4>2 DEF Takes
    <3>3. QED
      BY <3>1, <3>2 DEF Takes
  <2>4. Starts(th[u]) \in Nat
    BY <2>1 DEF Starts, ThreadStates
  <2>5. Stands(th[u], lq) <= Stands(th[u], lq')
    BY <2>3, <2>4 DEF Stands, Bit
  <2>6. QED
    BY <1>3, <2>1, <2>5
<1>4. f[t] = Stands(th[t], lq) /\ g[t] = Stands(th[t], lq) /\ h[t] = Stands(th'[t], lq')
      /\ \A u \in Threads : u # t => h[u] = g[u]
  OBVIOUS
<1>5. Stand(th, lq) = Sum(f, Threads) /\ Stand(th', lq') = Sum(h, Threads)
  BY DEF Stand
<1> HIDE DEF f, g, h
<1>6. \A u \in Threads : f[u] <= g[u]
  BY <1>2, <1>3, <1>4
<1>7. Sum(f, Threads) <= Sum(g, Threads)
  BY <1>2, <1>6, ThreadsFinite, SumGrows
<1>8. Sum(g, Threads) \in Nat /\ Sum(h, Threads) \in Nat /\ Sum(h, Threads) = Sum(g, Threads) - g[t] + h[t]
  BY <1>2, <1>4, ThreadsFinite, SumMoves
<1>9. Sum(f, Threads) \in Nat
  BY <1>2, ThreadsFinite, SumMoves
<1>10. g[t] \in Nat /\ h[t] \in Nat
  BY <1>2
<1>11. QED
  BY <1>4, <1>5, <1>7, <1>8, <1>9, <1>10

LEMMA GlobalKept ==
    ASSUME Inv, Inv', GlobalInv, NEW t \in Threads, Alone(t), QueuesFall(th'[t]),
           GlobalStep(th[t], th'[t])
    PROVE  GlobalInv'
<1>1. /\ Stand(th, lq) \in Nat /\ Stand(th', lq') \in Nat
      /\ Stand(th, lq) + Stands(th'[t], lq') <= Stand(th', lq') + Stands(th[t], lq)
  BY StandMoves
<1>2. gq \in Nat /\ gq' \in Nat /\ Stands(th[t], lq) \in Nat /\ Stands(th'[t], lq') \in Nat
  BY StandsType DEF Inv, TypeInv
<1>3. CASE pidle' = {} \/ gq' = 0 \/ Wakes(th'[t]) \/ Awake(th')
  BY <1>1, <1>3 DEF GlobalInv, Awake
<1>4. CASE /\ ~Wakes(th[t]) /\ (pidle = {} => pidle' = {})
           /\ gq' + Stands(th[t], lq) <= gq + Stands(th'[t], lq')
  <2>1. (\E u \in Threads : Wakes(th[u])) => \E u \in Threads : Wakes(th'[u])
    BY <1>4 DEF Alone
  <2>2. gq <= Stand(th, lq) => gq' <= Stand(th', lq')
    BY <1>1, <1>2, <1>4
  <2>3. QED
    BY <1>4, <2>1, <2>2 DEF GlobalInv
<1>5. QED
  BY <1>3, <1>4 DEF GlobalStep

LEMMA LocalKept ==
    ASSUME Inv, Inv', LocalInv, NEW t \in Threads, Alone(t), LocalStep(th[t], th'[t])
    PROVE  LocalInv'
<1>1. lq \in [Ps -> Nat] /\ lq' \in [Ps -> Nat] /\ th \in [Threads -> ThreadStates]
  BY DEF Inv, TypeInv
<1>2. CASE \/ slack' \/ (\A p \in Ps : lq'[p] = 0) \/ (pidle' = {} /\ needspinning')
           \/ Wakes(th'[t]) \/ Awake(th') \/ Looks(th'[t], lq')
  BY <1>2 DEF LocalInv, Awake
<1>3. CASE /\ ~Wakes(th[t]) /\ ~Looks(th[t], lq) /\ (slack => slack')
           /\ (\A p \in Ps : lq'[p] <= lq[p])
           /\ (pidle = {} /\ needspinning => pidle' = {} /\ needspinning')
  <2>1. \A p \in Ps : lq[p] = 0 => lq'[p] = 0
    <3>1. SUFFICES ASSUME NEW p \in Ps, lq[p] = 0 PROVE lq'[p] = 0
      OBVIOUS
    <3>2. lq'[p] \in Nat /\ lq'[p] <= lq[p]
      BY <1>1, <1>3
    <3>3. QED
      BY <3>1, <3>2
  <2>2. ASSUME NEW u \in Threads, Wakes(th[u]) \/ Looks(th[u], lq)
        PROVE  Wakes(th'[u]) \/ Looks(th'[u], lq')
    <3>1. u # t /\ th'[u] = th[u] /\ th[u].seen \in SUBSET Ps
      BY <1>1, <1>3, <2>2 DEF Alone, ThreadStates
    <3>2. QED
      BY <2>1, <2>2, <3>1 DEF Looks
  <2>3. QED
    BY <1>3, <2>1, <2>2 DEF LocalInv
<1>4. QED
  BY <1>2, <1>3 DEF LocalStep

LEMMA WaitersKept ==
    ASSUME Inv, Inv', Flags, Flags', WaitersInv, NEW t \in Threads, Alone(t), WaitersStep(th[t], th'[t])
    PROVE  WaitersInv'
<1> DEFINE f == [u \in Threads |-> Fetched(th[u])]
           f1 == [u \in Threads |-> Fetched(th'[u])]
           g == [u \in Threads |-> Late(th[u])]
           g1 == [u \in Threads |-> Late(th'[u])]
<1>1. th \in [Threads -> ThreadStates] /\ th' \in [Threads -> ThreadStates]
      /\ netw \in Nat /\ netev \in Nat /\ netw' \in Nat /\ netev' \in Nat
      /\ waiters \in Int /\ waiters' \in Int
  BY DEF Inv, TypeInv, Flags
<1>2. /\ f \in [Threads -> Nat] /\ f1 \in [Threads -> Nat]
      /\ g \in [Threads -> Nat] /\ g1 \in [Threads -> Nat]
      /\ \A u \in Threads : u # t => f1[u] = f[u] /\ g1[u] = g[u]
      /\ f[t] = Fetched(th[t]) /\ f1[t] = Fetched(th'[t]) /\ g[t] = Late(th[t]) /\ g1[t] = Late(th'[t])
  BY <1>1, StandsType DEF Alone
<1>3. /\ FetchedAll(th) = Sum(f, Threads) /\ FetchedAll(th') = Sum(f1, Threads)
      /\ LateAll(th) = Sum(g, Threads) /\ LateAll(th') = Sum(g1, Threads)
  BY DEF FetchedAll, LateAll
<1> HIDE DEF f, f1, g, g1
<1>4. /\ Sum(f, Threads) \in Nat /\ Sum(f1, Threads) \in Nat
      /\ Sum(f1, Threads) = Sum(f, Threads) - f[t] + f1[t]
  BY <1>2, ThreadsFinite, SumMoves
<1>5. /\ Sum(g, Threads) \in Nat /\ Sum(g1, Threads) \in Nat
      /\ Sum(g1, Threads) = Sum(g, Threads) - g[t] + g1[t]
  BY <1>2, ThreadsFinite, SumMoves
<1>6. f[t] \in Nat /\ f1[t] \in Nat /\ g[t] \in Nat /\ g1[t] \in Nat
  BY <1>2
<1>7. waiters + Sum(g, Threads) = netw + netev + Sum(f, Threads)
  BY <1>3 DEF WaitersInv
<1>8. waiters' + g1[t] + f[t] + netw + netev = waiters + g[t] + f1[t] + netw' + netev'
  BY <1>2 DEF WaitersStep
<1>9. waiters' + Sum(g1, Threads) = netw' + netev' + Sum(f1, Threads)
  BY <1>1, <1>4, <1>5, <1>6, <1>7, <1>8
<1>10. QED
  BY <1>3, <1>9 DEF WaitersInv

\* One step of the dance.
Dances(t) == /\ Flags' /\ StepOK(th'[t]) /\ QueuesFall(th'[t])
             /\ GlobalStep(th[t], th'[t]) /\ LocalStep(th[t], th'[t])
             /\ WaitersStep(th[t], th'[t]) /\ LastStep(th[t], th'[t]) /\ SeekStep(th[t], th'[t])

LEMMA DanceKept ==
    ASSUME Inv, Inv', DanceInv, NEW t \in Threads, Alone(t), Dances(t)
    PROVE  DanceInv'
<1>1. Flags /\ Flags'
  BY DEF DanceInv, Dances
<1>2. GlobalInv' /\ LocalInv' /\ WaitersInv'
  BY <1>1, GlobalKept, LocalKept, WaitersKept DEF DanceInv, Dances
<1>3. \A u \in Threads : StepOK(th'[u])
  BY DEF Alone, Dances, DanceInv
<1>4. LastInv'
  <2>1. \A u \in Threads : u # t => (Polls(th'[u]) <=> Polls(th[u]))
    BY DEF Alone
  <2>2. LastInv /\ LastStep(th[t], th'[t])
    BY DEF DanceInv, Dances
  <2>3. QED
    BY <1>1, <2>1, <2>2 DEF LastInv, LastStep, Flags
<1>5. SeekInv'
  <2>1. \A u \in Threads : u # t => (Seeks(th'[u]) <=> Seeks(th[u]))
    BY DEF Alone
  <2>2. SeekInv /\ SeekStep(th[t], th'[t])
    BY DEF DanceInv, Dances
  <2>3. netw \in Nat /\ netev \in Nat /\ netw' \in Nat /\ netev' \in Nat
    BY DEF Inv, TypeInv
  <2>4. CASE pidle' # Ps \/ netw' + netev' = 0 \/ ~lastpoll' \/ Seeks(th'[t])
    <3>1. netw' + netev' = 0 => ~(netw' + netev' > 0)
      <4>1. PICK a, b \in Nat : a = netw' /\ b = netev'
        BY <2>3
      <4>2. a + b = 0 => ~(a + b > 0)
        OBVIOUS
      <4>3. QED
        BY <4>1, <4>2
    <3>2. QED
      BY <2>4, <3>1 DEF SeekInv
  <2>5. CASE pidle = Ps /\ ~Seeks(th[t]) /\ lastpoll' = lastpoll /\ netw' + netev' <= netw + netev
    <3>1. netw' + netev' > 0 => netw + netev > 0
      <4>1. PICK a, b, c, d \in Nat : a = netw' /\ b = netev' /\ c = netw /\ d = netev
        BY <2>3
      <4>2. a + b <= c + d
        BY <2>5, <4>1
      <4>3. a + b > 0 => c + d > 0
        BY <4>2
      <4>4. QED
        BY <4>1, <4>3
    <3>2. (\E u \in Threads : Seeks(th[u])) => \E u \in Threads : Seeks(th'[u])
      BY <2>1, <2>5
    <3>3. QED
      BY <2>2, <2>5, <3>1, <3>2 DEF SeekInv
  <2>6. QED
    BY <2>2, <2>4, <2>5 DEF SeekStep
<1>6. QED
  BY <1>1, <1>2, <1>3, <1>4, <1>5 DEF DanceInv

\* The same, of a step that leaves the thread as w.
LEMMA StepDances ==
    ASSUME Inv, Inv', DanceInv, NEW t \in Threads, NEW w, th' = [th EXCEPT ![t] = w], Flags',
           StepOK(w), QueuesFall(w), GlobalStep(th[t], w), LocalStep(th[t], w),
           WaitersStep(th[t], w), LastStep(th[t], w), SeekStep(th[t], w)
    PROVE  DanceInv'
<1>1. th'[t] = w /\ Alone(t)
  BY DEF Inv, TypeInv, Alone
<1>2. QED
  BY <1>1, DanceKept DEF Dances

\* Where a thread deals with the poller and netpollWaiters; a step elsewhere.
PollerPlaces == {"count", "polling", "polled", "pollP"}

LEMMA QuietDances ==
    ASSUME Inv, Inv', DanceInv, NEW t \in Threads, NEW w, th' = [th EXCEPT ![t] = w],
           slack' \in BOOLEAN, needspinning' \in BOOLEAN,
           lastpoll' = lastpoll, waiters' = waiters, netw' = netw, netev' = netev,
           th[t].pc \notin PollerPlaces, w.pc \notin PollerPlaces, w.owed = th[t].owed,
           StepOK(w), QueuesFall(w), GlobalStep(th[t], w), LocalStep(th[t], w),
           \/ Seeks(w) \/ w.p \in Ps \/ w.hold \in Ps
           \/ pidle' = pidle /\ (~Seeks(th[t]) \/ th[t].p \in Ps)
           \/ SeekStep(th[t], w)
    PROVE  DanceInv'
<1>1. /\ netw \in Nat /\ netev \in Nat /\ waiters \in Int /\ lastpoll \in BOOLEAN
      /\ th[t] \in ThreadStates /\ th'[t] = w /\ w \in ThreadStates
  BY DEF Inv, TypeInv, DanceInv, Flags
<1>2. Flags'
  BY <1>1 DEF Flags
<1>3. Late(w) = 0 /\ Late(th[t]) = 0 /\ Fetched(w) = w.owed /\ Fetched(th[t]) = w.owed
  BY <1>1 DEF Late, Fetched, Bit, PollerPlaces, ThreadStates
<1>4. WaitersStep(th[t], w)
  <2>1. w.owed \in Nat
    BY <1>1 DEF ThreadStates
  <2>2. QED
    BY <1>1, <1>3, <2>1 DEF WaitersStep
<1>5. LastStep(th[t], w)
  BY DEF LastStep, Polls, PollerPlaces
<1>6. SeekStep(th[t], w)
  <2>1. ASSUME w.p \in Ps \/ w.hold \in Ps PROVE pidle' # Ps
    BY <1>1, <2>1 DEF Inv, Owned, Owns
  <2>2. ASSUME pidle' = pidle, th[t].p \in Ps PROVE pidle' # Ps
    BY <2>2 DEF Inv, Owned, Owns
  <2>3. ASSUME pidle' = pidle, ~Seeks(th[t]) PROVE SeekStep(th[t], w)
    BY <1>1, <2>3 DEF SeekStep
  <2>4. QED
    BY <2>1, <2>2, <2>3 DEF SeekStep
<1>7. QED
  BY <1>2, <1>4, <1>5, <1>6, StepDances

-----------------------------------------------------------------------------
(***************************************************************************)
(* The dance, step by step: goroutines and wakep.                          *)
(***************************************************************************)
\* What is known of a thread in state c before its step.
Steady(c) == Sound(c) /\ StepOK(c) /\ Flags /\ (Polls(c) => ~lastpoll)

LEMMA SteadyNow == ASSUME Inv, DanceInv, NEW t \in Threads PROVE Steady(th[t])
BY SoundNow DEF Steady, DanceInv, LastInv

LEMMA readyDances == ASSUME Inv, Inv', DanceInv, NEW m \in Ms, ready(m) PROVE DanceInv'
<1> DEFINE c == th[m]
           w == [c EXCEPT !.pc = "wakep", !.ret = "run"]
<1>1. m \in Threads
  BY DEF Threads
<1>2. Steady(c)
  BY <1>1, SteadyNow
<1>3. /\ th' = [th EXCEPT ![m] = w] /\ c.pc = "run" /\ Enqueue(c.p, 1) /\ gq' = gq /\ pidle' = pidle
      /\ needspinning' = needspinning /\ slack' = slack
      /\ lastpoll' = lastpoll /\ waiters' = waiters /\ netw' = netw /\ netev' = netev
  BY DEF ready, At, Become, P, idle, spinning, net
<1>4. /\ w.pc = "wakep" /\ w.p = c.p /\ w.n = c.n /\ w.owed = c.owed
  BY <1>2 DEF Steady, Sound, ThreadStates
<1> HIDE DEF w
<1>5. c.p \in Ps /\ c.n = 0
  BY <1>2, <1>3 DEF Steady, StepOK, Sound, ThreadStates, ThreadOK, HasP, Place, WithP
<1>6. StepOK(w) /\ Wakes(w)
  BY <1>4, <1>5 DEF StepOK, Wakes
<1>7. QueuesFall(w)
  BY <1>2, <1>3, <1>4, <1>5 DEF QueuesFall, Owns, Enqueue, Steady, Sound
<1>8. QED
  BY <1>1, <1>2, <1>3, <1>4, <1>5, <1>6, <1>7, QuietDances DEF
     GlobalStep, LocalStep, PollerPlaces, Steady, Flags

LEMMA parkDances == ASSUME Inv, Inv', DanceInv, NEW m \in Ms, park(m) PROVE DanceInv'
<1> DEFINE c == th[m]
           w == [c EXCEPT !.pc = "find", !.seen = {}]
<1>1. m \in Threads
  BY DEF Threads
<1>2. Steady(c)
  BY <1>1, SteadyNow
<1>3. /\ th' = [th EXCEPT ![m] = w] /\ c.pc = "run" /\ lq' = lq /\ gq' = gq /\ pidle' = pidle
      /\ needspinning' = needspinning /\ slack' = slack
      /\ lastpoll' = lastpoll /\ waiters' = waiters /\ netw' = netw /\ netev' = netev
  BY DEF park, At, Become, Goto, queues, idle, spinning, net
<1>4. /\ w.pc = "find" /\ w.p = c.p /\ w.n = c.n /\ w.owed = c.owed
  BY <1>2 DEF Steady, Sound, ThreadStates
<1> HIDE DEF w
<1>5. c.p \in Ps /\ c.n = 0 /\ ~c.spin /\ ~c.hspin
  BY <1>2, <1>3 DEF Steady, StepOK, Sound, ThreadStates, ThreadOK, HasP, Spins, Place, WithP, Injects
<1>6. StepOK(w) /\ QueuesFall(w)
  BY <1>2, <1>3, <1>4, <1>5 DEF StepOK, QueuesFall, Steady, Sound
<1>7. GlobalStep(c, w)
  BY <1>2, <1>3, <1>4, <1>5 DEF GlobalStep, Wakes, Stands, Starts, Takes, Bit, Steady, Sound
<1>8. LocalStep(c, w)
  BY <1>2, <1>3, <1>4, <1>5 DEF LocalStep, Wakes, Looks, Steady, Sound
<1>9. QED
  BY <1>1, <1>2, <1>3, <1>4, <1>5, <1>6, <1>7, <1>8, QuietDances DEF PollerPlaces, Steady, Flags

LEMMA goschedImplDances == ASSUME Inv, Inv', DanceInv, NEW m \in Ms, goschedImpl(m) PROVE DanceInv'
<1> DEFINE c == th[m]
           w == [c EXCEPT !.pc = "wakep", !.ret = "find"]
<1>1. m \in Threads
  BY DEF Threads
<1>2. Steady(c)
  BY <1>1, SteadyNow
<1>3. /\ th' = [th EXCEPT ![m] = w] /\ c.pc = "run" /\ gq' = gq + 1 /\ lq' = lq /\ pidle' = pidle
      /\ needspinning' = needspinning /\ slack' = slack /\ lastpoll' = lastpoll
      /\ waiters' = waiters /\ netw' = netw /\ netev' = netev
  BY DEF goschedImpl, At, Become, Goto, Return, P, queues, idle, spinning, net, others
<1>4. /\ w.pc = "wakep" /\ w.p = c.p /\ w.hold = c.hold /\ w.spin = c.spin /\ w.hspin = c.hspin
      /\ w.n = c.n /\ w.owed = c.owed
  BY <1>2, <1>3 DEF Steady, Sound, ThreadStates
<1> HIDE DEF w
<1>5. /\ c.p \in Ps /\ c.n = 0 /\ ~c.spin /\ ~c.hspin /\ c.hold = NoP
  BY <1>2, <1>3 DEF Steady, StepOK, Sound, ThreadStates, ThreadOK, HasP, Spins, Owes, Place, WithP,
     WithoutP, Handoffs, Injects
<1>6. StepOK(w) /\ QueuesFall(w)
  BY <1>2, <1>3, <1>4, <1>5 DEF StepOK, Place, QueuesFall, Owns, Enqueue, Steady, Sound
<1>7. GlobalStep(c, w)
  BY <1>2, <1>3, <1>4, <1>5 DEF GlobalStep, Wakes, Stands, Starts, Takes, Bit, Steady, Sound
<1>8. LocalStep(c, w)
  BY <1>2, <1>3, <1>4, <1>5 DEF LocalStep, Wakes, Looks, Steady, Sound
<1>9. QED
  BY <1>1, <1>2, <1>3, <1>4, <1>5, <1>6, <1>7, <1>8, QuietDances DEF PollerPlaces, Steady, Flags

LEMMA entersyscallDances ==
    ASSUME Inv, Inv', DanceInv, NEW m \in Ms, entersyscall(m)
    PROVE  DanceInv'
<1> DEFINE c == th[m]
           w == [c EXCEPT !.pc = "syscall", !.old = c.p, !.p = NoP]
<1>1. m \in Threads
  BY DEF Threads
<1>2. Steady(c)
  BY <1>1, SteadyNow
<1>3. /\ th' = [th EXCEPT ![m] = w] /\ c.pc = "run" /\ lq' = lq /\ gq' = gq /\ pidle' = pidle
      /\ needspinning' = needspinning /\ slack' = slack /\ lastpoll' = lastpoll
      /\ waiters' = waiters /\ netw' = netw /\ netev' = netev
  BY DEF entersyscall, At, Become, Goto, Return, P, queues, idle, spinning, net, others
<1>4. /\ w.pc = "syscall" /\ w.p = NoP /\ w.hold = c.hold /\ w.spin = c.spin /\ w.hspin = c.hspin
      /\ w.n = c.n /\ w.owed = c.owed
  BY <1>2, <1>3 DEF Steady, Sound, ThreadStates
<1> HIDE DEF w
<1>5. /\ c.p \in Ps /\ c.n = 0 /\ ~c.spin /\ ~c.hspin /\ c.hold = NoP
  BY <1>2, <1>3 DEF Steady, StepOK, Sound, ThreadStates, ThreadOK, HasP, Spins, Owes, Place, WithP,
     WithoutP, Handoffs, Injects
<1>6. StepOK(w) /\ QueuesFall(w)
  BY <1>2, <1>3, <1>4, <1>5 DEF StepOK, Place, QueuesFall, Owns, Enqueue, Steady, Sound
<1>7. GlobalStep(c, w)
  BY <1>2, <1>3, <1>4, <1>5 DEF GlobalStep, Wakes, Stands, Starts, Takes, Bit, Steady, Sound
<1>8. LocalStep(c, w)
  BY <1>2, <1>3, <1>4, <1>5 DEF LocalStep, Wakes, Looks, Steady, Sound
<1>9. QED
  BY <1>1, <1>2, <1>3, <1>4, <1>5, <1>6, <1>7, <1>8, QuietDances DEF PollerPlaces, Steady, Flags

LEMMA exitsyscallfastDances ==
    ASSUME Inv, Inv', DanceInv, NEW m \in Ms, exitsyscallfast(m)
    PROVE  DanceInv'
<1> DEFINE c == th[m]
           w == [c EXCEPT !.pc = "run", !.p = c.old, !.old = NoP]
<1>1. m \in Threads
  BY DEF Threads
<1>2. Steady(c)
  BY <1>1, SteadyNow
<1>3. /\ th' = [th EXCEPT ![m] = w] /\ c.pc = "syscall" /\ lq' = lq /\ gq' = gq /\ pidle' = pidle
      /\ needspinning' = needspinning /\ slack' = slack /\ lastpoll' = lastpoll
      /\ waiters' = waiters /\ netw' = netw /\ netev' = netev
  BY DEF exitsyscallfast, At, Become, Goto, Return, P, queues, idle, spinning, net, others
<1>4. /\ w.pc = "run" /\ w.p = c.old /\ w.hold = c.hold /\ w.spin = c.spin /\ w.hspin = c.hspin
      /\ w.n = c.n /\ w.owed = c.owed
  BY <1>2, <1>3 DEF Steady, Sound, ThreadStates
<1> HIDE DEF w
<1>5. /\ c.p = NoP /\ c.n = 0 /\ ~c.spin /\ ~c.hspin /\ c.hold = NoP /\ c.old \in Ps
  BY <1>2, <1>3 DEF Steady, StepOK, Sound, ThreadStates, ThreadOK, HasP, Spins, Owes, Place, WithP,
     WithoutP, Handoffs, Injects
<1>6. StepOK(w) /\ QueuesFall(w)
  BY <1>2, <1>3, <1>4, <1>5 DEF StepOK, Place, QueuesFall, Owns, Enqueue, Steady, Sound
<1>7. GlobalStep(c, w)
  BY <1>2, <1>3, <1>4, <1>5 DEF GlobalStep, Wakes, Stands, Starts, Takes, Bit, Steady, Sound
<1>8. LocalStep(c, w)
  BY <1>2, <1>3, <1>4, <1>5 DEF LocalStep, Wakes, Looks, Steady, Sound
<1>9. QED
  BY <1>1, <1>2, <1>3, <1>4, <1>5, <1>6, <1>7, <1>8, QuietDances DEF PollerPlaces, Steady, Flags

LEMMA exitsyscallLostDances ==
    ASSUME Inv, Inv', DanceInv, NEW m \in Ms, exitsyscallLost(m)
    PROVE  DanceInv'
<1> DEFINE c == th[m]
           w == [c EXCEPT !.pc = "exit0", !.old = NoP]
<1>1. m \in Threads
  BY DEF Threads
<1>2. Steady(c)
  BY <1>1, SteadyNow
<1>3. /\ th' = [th EXCEPT ![m] = w] /\ c.pc = "syscall" /\ lq' = lq /\ gq' = gq /\ pidle' = pidle
      /\ needspinning' = needspinning /\ slack' = slack /\ lastpoll' = lastpoll
      /\ waiters' = waiters /\ netw' = netw /\ netev' = netev
  BY DEF exitsyscallLost, At, Become, queues, idle, spinning, net, others
<1>4. /\ w.pc = "exit0" /\ w.p = c.p /\ w.hold = c.hold /\ w.spin = c.spin /\ w.hspin = c.hspin
      /\ w.n = c.n /\ w.owed = c.owed
  BY <1>2, <1>3 DEF Steady, Sound, ThreadStates
<1> HIDE DEF w
<1>5. c.n = 0 /\ ~c.spin /\ ~c.hspin
  BY <1>2, <1>3 DEF Steady, StepOK, Sound, ThreadStates, ThreadOK, HasP, Spins, Place, WithoutP,
     Handoffs, Injects
<1>6. StepOK(w) /\ QueuesFall(w)
  BY <1>2, <1>3, <1>4, <1>5 DEF StepOK, QueuesFall, Steady, Sound
<1>7. GlobalStep(c, w)
  BY <1>2, <1>3, <1>4, <1>5 DEF GlobalStep, Wakes, Stands, Starts, Takes, Bit, Steady, Sound
<1>8. LocalStep(c, w)
  BY <1>2, <1>3, <1>4, <1>5 DEF LocalStep, Wakes, Looks, Steady, Sound
<1>9. ~Seeks(c)
  BY <1>3 DEF Seeks
<1>10. QED
  BY <1>1, <1>2, <1>3, <1>4, <1>5, <1>6, <1>7, <1>8, <1>9, QuietDances DEF PollerPlaces, Steady, Flags

LEMMA exitsyscall0Dances ==
    ASSUME Inv, Inv', DanceInv, NEW m \in Ms, exitsyscall0(m)
    PROVE  DanceInv'
<1>1. ASSUME NEW p \in pidle, pidle' = pidle \ {p}, gq' = gq,
             Become(m, [th[m] EXCEPT !.pc = "run", !.p = p])
      PROVE  DanceInv'
  <2> DEFINE c == th[m]
             w == [c EXCEPT !.pc = "run", !.p = p]
  <2>1. m \in Threads
    BY DEF Threads
  <2>2. Steady(c)
    BY <2>1, SteadyNow
  <2>3. /\ th' = [th EXCEPT ![m] = w] /\ c.pc = "exit0" /\ lq' = lq
        /\ needspinning' = needspinning /\ slack' = slack /\ lastpoll' = lastpoll
        /\ waiters' = waiters /\ netw' = netw /\ netev' = netev
    BY <1>1 DEF exitsyscall0, At, Become, Goto, Return, P, queues, idle, spinning, net, others
  <2>4. /\ w.pc = "run" /\ w.p = p /\ w.hold = c.hold /\ w.spin = c.spin /\ w.hspin = c.hspin
        /\ w.n = c.n /\ w.owed = c.owed
    BY <2>2, <2>3, <1>1 DEF Steady, Sound, ThreadStates
  <2> HIDE DEF w
  <2>5. /\ c.p = NoP /\ c.n = 0 /\ ~c.spin /\ ~c.hspin /\ c.hold = NoP /\ p \in Ps
    BY <2>2, <2>3, <1>1 DEF Steady, StepOK, Sound, ThreadStates, ThreadOK, HasP, Spins, Owes, Place,
       WithP, WithoutP, Handoffs, Injects
  <2>6. StepOK(w) /\ QueuesFall(w)
    BY <2>2, <2>3, <2>4, <2>5, <1>1 DEF StepOK, Place, QueuesFall, Owns, Enqueue, Steady, Sound
  <2>7. GlobalStep(c, w)
    BY <2>2, <2>3, <2>4, <2>5, <1>1 DEF GlobalStep, Wakes, Stands, Starts, Takes, Bit, Steady, Sound
  <2>8. LocalStep(c, w)
    BY <2>2, <2>3, <2>4, <2>5, <1>1 DEF LocalStep, Wakes, Looks, Steady, Sound
  <2>9. QED
    BY <2>1, <2>2, <2>3, <2>4, <2>5, <1>1, <2>6, <2>7, <2>8, QuietDances DEF PollerPlaces, Steady, Flags
<1>2. ASSUME pidle = {}, pidle' = pidle, gq' = gq + 1, Become(m, Thread)
      PROVE  DanceInv'
  <2> DEFINE c == th[m]
             w == Thread
  <2>1. m \in Threads
    BY DEF Threads
  <2>2. Steady(c)
    BY <2>1, SteadyNow
  <2>3. /\ th' = [th EXCEPT ![m] = w] /\ c.pc = "exit0" /\ lq' = lq
        /\ needspinning' = needspinning /\ slack' = slack /\ lastpoll' = lastpoll
        /\ waiters' = waiters /\ netw' = netw /\ netev' = netev
    BY <1>2 DEF exitsyscall0, At, Become, Goto, Return, P, queues, idle, spinning, net, others
  <2>4. /\ w.pc = "parked" /\ w.p = NoP /\ w.n = 0 /\ w.owed = 0 /\ ~w.spin /\ ~w.hspin
        /\ w.hold = NoP
    BY ThreadFields
  <2> HIDE DEF w
  <2>5. /\ c.p = NoP /\ c.n = 0 /\ ~c.spin /\ ~c.hspin /\ c.hold = NoP /\ c.owed = 0 /\ Ps # {}
    BY <2>2, <2>3, <1>2, SchedAssumption DEF Steady, StepOK, Sound, ThreadStates, ThreadOK, HasP,
       Spins, Owes, Place, WithP, WithoutP, Handoffs, Injects
  <2>6. StepOK(w) /\ QueuesFall(w)
    BY <2>2, <2>3, <2>4, <2>5, <1>2 DEF StepOK, Place, QueuesFall, Owns, Enqueue, Steady, Sound
  <2>7. GlobalStep(c, w)
    BY <2>2, <2>3, <2>4, <2>5, <1>2 DEF GlobalStep, Wakes, Stands, Starts, Takes, Bit, Steady, Sound
  <2>8. LocalStep(c, w)
    BY <2>2, <2>3, <2>4, <2>5, <1>2 DEF LocalStep, Wakes, Looks, Steady, Sound
  <2>9. QED
    BY <2>1, <2>2, <2>3, <2>4, <2>5, <1>2, <2>6, <2>7, <2>8, QuietDances DEF PollerPlaces, Steady, Flags,
       SeekStep
<1>3. QED
  BY <1>1, <1>2 DEF exitsyscall0

LEMMA resetspinningDances ==
    ASSUME Inv, Inv', DanceInv, NEW m \in Ms, resetspinning(m)
    PROVE  DanceInv'
<1> DEFINE c == th[m]
           w == [c EXCEPT !.pc = "wakep", !.spin = FALSE, !.ret = "run"]
<1>1. m \in Threads
  BY DEF Threads
<1>2. Steady(c)
  BY <1>1, SteadyNow
<1>3. /\ th' = [th EXCEPT ![m] = w] /\ c.pc = "reset" /\ lq' = lq /\ gq' = gq /\ pidle' = pidle
      /\ needspinning' = needspinning /\ slack' = slack /\ lastpoll' = lastpoll
      /\ waiters' = waiters /\ netw' = netw /\ netev' = netev
  BY DEF resetspinning, At, Become, Goto, Return, P, queues, idle, spinning, net, others
<1>4. /\ w.pc = "wakep" /\ ~w.spin /\ w.p = c.p /\ w.hold = c.hold /\ w.hspin = c.hspin
      /\ w.n = c.n /\ w.owed = c.owed
  BY <1>2, <1>3 DEF Steady, Sound, ThreadStates
<1> HIDE DEF w
<1>5. /\ c.p \in Ps /\ c.n = 0
  BY <1>2, <1>3 DEF Steady, StepOK, Sound, ThreadStates, ThreadOK, HasP, Spins, Owes, Place, WithP,
     WithoutP, Handoffs, Injects
<1>6. StepOK(w) /\ QueuesFall(w)
  BY <1>2, <1>3, <1>4, <1>5 DEF StepOK, Place, QueuesFall, Owns, Enqueue, Steady, Sound
<1>7. GlobalStep(c, w)
  BY <1>2, <1>3, <1>4, <1>5 DEF GlobalStep, Wakes, Stands, Starts, Takes, Bit, Steady, Sound
<1>8. LocalStep(c, w)
  BY <1>2, <1>3, <1>4, <1>5 DEF LocalStep, Wakes, Looks, Steady, Sound
<1>9. QED
  BY <1>1, <1>2, <1>3, <1>4, <1>5, <1>6, <1>7, <1>8, QuietDances DEF PollerPlaces, Steady, Flags

LEMMA wakepDances == ASSUME Inv, Inv', DanceInv, NEW m \in Ms, wakep(m) PROVE DanceInv'
<1>1. ASSUME nmspinning = 0, nmspinning' = 1, Goto(m, "wakeP") PROVE DanceInv'
  <2> DEFINE c == th[m]
             w == [c EXCEPT !.pc = "wakeP", !.seen = {}]
  <2>1. m \in Threads
    BY DEF Threads
  <2>2. Steady(c)
    BY <2>1, SteadyNow
  <2>3. /\ th' = [th EXCEPT ![m] = w] /\ c.pc = "wakep" /\ lq' = lq /\ gq' = gq /\ pidle' = pidle
        /\ needspinning' = needspinning /\ slack' = slack /\ lastpoll' = lastpoll
        /\ waiters' = waiters /\ netw' = netw /\ netev' = netev
    BY <1>1 DEF wakep, At, Become, Goto, Return, P, queues, idle, spinning, net, others
  <2>4. /\ w.pc = "wakeP" /\ w.p = c.p /\ w.hold = c.hold /\ w.spin = c.spin /\ w.hspin = c.hspin
        /\ w.n = c.n /\ w.owed = c.owed
    BY <2>2, <2>3, <1>1 DEF Steady, Sound, ThreadStates
  <2> HIDE DEF w
  <2>5. /\ c.p \in Ps /\ c.n = 0 /\ ~c.spin /\ ~c.hspin /\ c.hold = NoP
    BY <2>2, <2>3, <1>1 DEF Steady, StepOK, Sound, ThreadStates, ThreadOK, HasP, Spins, Owes, Place,
       WithP, WithoutP, Handoffs, Injects
  <2>6. StepOK(w) /\ QueuesFall(w)
    BY <2>2, <2>3, <2>4, <2>5, <1>1 DEF StepOK, Place, QueuesFall, Owns, Enqueue, Steady, Sound
  <2>7. GlobalStep(c, w)
    BY <2>2, <2>3, <2>4, <2>5, <1>1 DEF GlobalStep, Wakes, Stands, Starts, Takes, Bit, Steady, Sound
  <2>8. LocalStep(c, w)
    BY <2>2, <2>3, <2>4, <2>5, <1>1 DEF LocalStep, Wakes, Looks, Steady, Sound
  <2>9. QED
    BY <2>1, <2>2, <2>3, <2>4, <2>5, <1>1, <2>6, <2>7, <2>8, QuietDances DEF PollerPlaces, Steady, Flags
<1>2. ASSUME nmspinning # 0, Return(m) PROVE DanceInv'
  <2> DEFINE c == th[m]
             w == [c EXCEPT !.pc = c.ret, !.ret = "run"]
  <2>1. m \in Threads
    BY DEF Threads
  <2>2. Steady(c)
    BY <2>1, SteadyNow
  <2>3. /\ th' = [th EXCEPT ![m] = w] /\ c.pc = "wakep" /\ lq' = lq /\ gq' = gq /\ pidle' = pidle
        /\ needspinning' = needspinning /\ slack' = slack /\ lastpoll' = lastpoll
        /\ waiters' = waiters /\ netw' = netw /\ netev' = netev
    BY <1>2 DEF wakep, At, Become, Goto, Return, P, queues, idle, spinning, net, others
  <2>4. /\ w.pc = c.ret /\ w.p = c.p /\ w.hold = c.hold /\ w.spin = c.spin /\ w.hspin = c.hspin
        /\ w.n = c.n /\ w.owed = c.owed
    BY <2>2, <2>3, <1>2 DEF Steady, Sound, ThreadStates
  <2> HIDE DEF w
  <2>5. /\ c.p \in Ps /\ c.n = 0 /\ ~c.spin /\ ~c.hspin /\ c.hold = NoP
        /\ c.ret \in {"run", "find"}
    BY <2>2, <2>3, <1>2 DEF Steady, StepOK, Sound, ThreadStates, ThreadOK, HasP, Returns, Spins, Owes, Place,
       WithP, WithoutP, Handoffs, Injects
  <2>6. Awake(th')
    <3>1. nmspinning = SpinTotal(th)
      BY DEF Inv
    <3>2. PICK u \in Threads : th[u].spin \/ th[u].pc = "wakeP" \/ th[u].hspin
      <4>1. SUFFICES ASSUME \A u \in Threads : ~th[u].spin /\ th[u].pc # "wakeP" /\ ~th[u].hspin
                       PROVE  SpinTotal(th) = 0
        BY <1>2, <3>1
      <4>2. /\ {u \in Threads : th[u].spin} = {} /\ {u \in Threads : th[u].pc = "wakeP"} = {}
              /\ {u \in Threads : th[u].hspin} = {}
        BY <4>1
      <4>3. SpinTotal(th) = Cardinality({}) + Cardinality({}) + Cardinality({})
        BY <4>2, Zenon DEF SpinTotal
      <4>4. QED
        BY <4>3, FS_EmptySet
    <3>3. u # m
      BY <2>3, <2>5, <3>2
    <3>4. th'[u] = th[u]
      BY <2>3, <3>3 DEF Inv, TypeInv
    <3>5. QED
      BY <3>2, <3>4 DEF Awake, Wakes
  <2>7. StepOK(w) /\ QueuesFall(w)
    BY <2>2, <2>3, <2>4, <2>5, <1>2 DEF StepOK, Place, QueuesFall, Owns, Enqueue, Steady, Sound
  <2>8. GlobalStep(c, w)
    BY <2>6, <2>2, <2>3, <2>4, <2>5, <1>2 DEF GlobalStep, Steady, Sound
  <2>9. LocalStep(c, w)
    BY <2>6, <2>2, <2>3, <2>4, <2>5, <1>2 DEF LocalStep, Steady, Sound
  <2>10. QED
    BY <2>1, <2>2, <2>3, <2>4, <2>5, <1>2, <2>7, <2>8, <2>9, QuietDances DEF PollerPlaces, Steady, Flags
<1>3. QED
  BY <1>1, <1>2 DEF wakep

LEMMA wakepGetDances == ASSUME Inv, Inv', DanceInv, NEW m \in Ms, wakepGet(m) PROVE DanceInv'
<1>1. ASSUME NEW p \in pidle, pidle' = pidle \ {p}, needspinning' = needspinning,
             Become(m, [th[m] EXCEPT !.pc = "startm", !.hold = p, !.hspin = TRUE])
      PROVE  DanceInv'
  <2> DEFINE c == th[m]
             w == [c EXCEPT !.pc = "startm", !.hold = p, !.hspin = TRUE]
  <2>1. m \in Threads
    BY DEF Threads
  <2>2. Steady(c)
    BY <2>1, SteadyNow
  <2>3. /\ th' = [th EXCEPT ![m] = w] /\ c.pc = "wakeP" /\ lq' = lq /\ gq' = gq /\ slack' = slack
        /\ lastpoll' = lastpoll /\ waiters' = waiters /\ netw' = netw /\ netev' = netev
    BY <1>1 DEF wakepGet, At, Become, Goto, Return, P, queues, idle, spinning, net, others
  <2>4. /\ w.pc = "startm" /\ w.hspin /\ w.hold = p /\ w.p = c.p /\ w.spin = c.spin /\ w.n = c.n
        /\ w.owed = c.owed
    BY <2>2, <2>3, <1>1 DEF Steady, Sound, ThreadStates
  <2> HIDE DEF w
  <2>5. /\ c.p \in Ps /\ c.n = 0 /\ ~c.spin /\ ~c.hspin /\ c.hold = NoP
    BY <2>2, <2>3, <1>1 DEF Steady, StepOK, Sound, ThreadStates, ThreadOK, HasP, Spins, Owes, Place,
       WithP, WithoutP, Handoffs, Injects
  <2>6. StepOK(w) /\ QueuesFall(w)
    BY <2>2, <2>3, <2>4, <2>5, <1>1 DEF StepOK, Place, QueuesFall, Owns, Enqueue, Steady, Sound
  <2>7. GlobalStep(c, w)
    BY <2>2, <2>3, <2>4, <2>5, <1>1 DEF GlobalStep, Wakes, Stands, Starts, Takes, Bit, Steady, Sound
  <2>8. LocalStep(c, w)
    BY <2>2, <2>3, <2>4, <2>5, <1>1 DEF LocalStep, Wakes, Looks, Steady, Sound
  <2>9. QED
    BY <2>1, <2>2, <2>3, <2>4, <2>5, <1>1, <2>6, <2>7, <2>8, QuietDances DEF PollerPlaces, Steady, Flags
<1>2. ASSUME pidle = {}, pidle' = pidle, needspinning' = Needed, Return(m) PROVE DanceInv'
  <2> DEFINE c == th[m]
             w == [c EXCEPT !.pc = c.ret, !.ret = "run"]
  <2>1. m \in Threads
    BY DEF Threads
  <2>2. Steady(c)
    BY <2>1, SteadyNow
  <2>3. /\ th' = [th EXCEPT ![m] = w] /\ c.pc = "wakeP" /\ needspinning' = TRUE /\ lq' = lq
        /\ gq' = gq /\ slack' = slack /\ lastpoll' = lastpoll /\ waiters' = waiters /\ netw' = netw
        /\ netev' = netev
    BY <1>2 DEF wakepGet, Needed, At, Become, Goto, Return, P, queues, idle, spinning, net, others
  <2>4. /\ w.pc = c.ret /\ w.p = c.p /\ w.hold = c.hold /\ w.spin = c.spin /\ w.hspin = c.hspin
        /\ w.n = c.n /\ w.owed = c.owed
    BY <2>2, <2>3, <1>2 DEF Steady, Sound, ThreadStates
  <2> HIDE DEF w
  <2>5. /\ c.p \in Ps /\ c.n = 0 /\ ~c.spin /\ ~c.hspin /\ c.hold = NoP
        /\ c.ret \in {"run", "find"}
    BY <2>2, <2>3, <1>2 DEF Steady, StepOK, Sound, ThreadStates, ThreadOK, HasP, Returns, Spins, Owes, Place,
       WithP, WithoutP, Handoffs, Injects
  <2>6. StepOK(w) /\ QueuesFall(w)
    BY <2>2, <2>3, <2>4, <2>5, <1>2 DEF StepOK, Place, QueuesFall, Owns, Enqueue, Steady, Sound
  <2>7. GlobalStep(c, w)
    BY <2>2, <2>3, <2>4, <2>5, <1>2 DEF GlobalStep, Wakes, Stands, Starts, Takes, Bit, Steady, Sound
  <2>8. LocalStep(c, w)
    BY <2>2, <2>3, <2>4, <2>5, <1>2 DEF LocalStep, Wakes, Looks, Steady, Sound
  <2>9. QED
    BY <2>1, <2>2, <2>3, <2>4, <2>5, <1>2, <2>6, <2>7, <2>8, QuietDances DEF PollerPlaces, Steady, Flags
<1>3. QED
  BY <1>1, <1>2 DEF wakepGet, spinning

-----------------------------------------------------------------------------
(***************************************************************************)
(* findRunnable, with a P.                                                 *)
(***************************************************************************)
\* A thread that has found a goroutine spins, or has kept the balance.
LEMMA FoundDances ==
    ASSUME Inv, Inv', DanceInv, NEW m \in Ms, th[m].pc \in {"find", "scan", "release"},
           Become(m, Found(th[m])), \A p \in Ps : lq'[p] <= lq[p] \/ p = th[m].p,
           pidle' = pidle, needspinning' = needspinning, slack' \in BOOLEAN,
           lastpoll' = lastpoll, waiters' = waiters, netw' = netw, netev' = netev,
           \/ th[m].spin
           \/ /\ gq' + Stands(th[m], lq) <= gq
              /\ \/ slack' \/ (\A p \in Ps : lq'[p] = 0)
                 \/ slack' = slack /\ \A p \in Ps : lq'[p] <= lq[p]
    PROVE  DanceInv'
<1> DEFINE c == th[m]
           w == Found(c)
<1>1. m \in Threads
  BY DEF Threads
<1>2. Steady(c)
  BY <1>1, SteadyNow
<1>3. /\ th' = [th EXCEPT ![m] = w] /\ lastpoll' = lastpoll /\ waiters' = waiters /\ netw' = netw
      /\ netev' = netev
  BY DEF Become
<1>4. /\ w.pc = (IF c.spin THEN "reset" ELSE "run") /\ w.p = c.p /\ w.hold = c.hold
      /\ w.spin = c.spin /\ w.hspin = c.hspin /\ w.n = c.n /\ w.owed = c.owed
  BY <1>2, <1>3 DEF Steady, Sound, ThreadStates, Found
<1> HIDE DEF w
<1>5. /\ c.p \in Ps /\ c.n = 0 /\ ~c.hspin /\ c.hold = NoP /\ c.spin \in BOOLEAN
  BY <1>2, <1>3 DEF Steady, StepOK, Sound, ThreadStates, ThreadOK, HasP, Spins, Owes, Place, WithP,
     WithoutP, Handoffs, Injects
<1>6. StepOK(w) /\ QueuesFall(w)
  BY <1>2, <1>3, <1>4, <1>5 DEF StepOK, Place, QueuesFall, Owns, Enqueue, Steady, Sound
<1>7. GlobalStep(c, w)
  BY <1>2, <1>3, <1>4, <1>5 DEF GlobalStep, Wakes, Stands, Starts, Takes, Bit, Steady, Sound
<1>8. LocalStep(c, w)
  BY <1>2, <1>3, <1>4, <1>5 DEF LocalStep, Wakes, Looks, Steady, Sound
<1>9. QED
  BY <1>1, <1>2, <1>3, <1>4, <1>5, <1>6, <1>7, <1>8, QuietDances DEF PollerPlaces, Steady, Flags

\* What a thread takes of the global queue leaves the balance as it is.
LEMMA TakeGlobalBalance ==
    ASSUME lq \in [Ps -> Nat], gq \in Nat, gq > 0, slack \in BOOLEAN, NEW m, NEW w, NEW p \in Ps,
           TakeGlobal(m, w, p)
    PROVE  /\ gq' + 1 <= gq /\ (\A q \in Ps : lq'[q] <= lq[q] \/ q = p) /\ slack' \in BOOLEAN
           /\ slack' \/ (slack' = slack /\ \A q \in Ps : lq'[q] <= lq[q])
<1>1. PICK s \in Nat : s = Share(gq) /\ 1 <= s /\ s <= gq
  BY ShareBounds
<1>2. gq' = gq - s /\ lq' = [lq EXCEPT ![p] = @ + (s - 1)] /\ slack' = (slack \/ s > 1)
  BY <1>1 DEF TakeGlobal, Enqueue
<1>3. lq'[p] = lq[p] + (s - 1) /\ \A q \in Ps : q # p => lq'[q] = lq[q]
  BY <1>2
<1>4. ASSUME ~(s > 1) PROVE \A q \in Ps : lq'[q] <= lq[q]
  <2>1. s - 1 = 0
    BY <1>1, <1>4
  <2>2. lq[p] \in Nat
    OBVIOUS
  <2>3. lq'[p] = lq[p]
    BY <1>3, <2>1, <2>2
  <2>4. QED
    BY <1>3, <2>2, <2>3
<1>5. \A q \in Ps : lq'[q] <= lq[q] \/ q = p
  BY <1>3
<1>6. gq' + 1 <= gq
  BY <1>1, <1>2
<1>7. QED
  BY <1>2, <1>4, <1>5, <1>6

\* The thread goes on with its P, spinning or not as before.
Onward == {<<"find", "poll">>, <<"poll", "steal">>, <<"steal", "scan">>, <<"steal", "limit">>,
           <<"limit", "release">>, <<"scan", "release">>, <<"handoff", "startm">>,
           <<"handoff", "handoffSpin">>, <<"handoffSpin", "handoffIdle">>,
           <<"handoffSpin", "handoffLock">>, <<"handoffIdle", "handoffCas">>,
           <<"handoffIdle", "handoffLock">>, <<"handoffCas", "handoffLock">>,
           <<"handoffLock", "startm">>}
HandsOver == {"handoff", "handoffSpin", "handoffIdle", "handoffCas", "handoffLock"}

LEMMA MoveDances ==
    ASSUME Inv, Inv', DanceInv, NEW t \in Threads, NEW w, Alike(w, th[t]),
           <<th[t].pc, w.pc>> \in Onward, Become(t, w),
           th[t].pc = "find" => gq = 0, w.pc = "scan" => th[t].spin,
           lq' = lq, gq' = gq, pidle' = pidle, needspinning' = needspinning, slack' = slack,
           lastpoll' = lastpoll, waiters' = waiters, netw' = netw, netev' = netev
    PROVE  DanceInv'
<1> DEFINE c == th[t]
<1>1. t \in Threads
  OBVIOUS
<1>2. Steady(c)
  BY <1>1, SteadyNow
<1>3. th' = [th EXCEPT ![t] = w]
  BY DEF Become
<1>4. /\ w.p = c.p /\ w.hold = c.hold /\ w.spin = c.spin /\ w.hspin = c.hspin
      /\ w.n = c.n /\ w.owed = c.owed
  BY DEF Alike
<1>5. c.pc \in {"find", "poll", "steal", "limit", "scan", "release"} \cup HandsOver
      /\ w.pc \in {"poll", "steal", "limit", "scan", "release", "startm"} \cup HandsOver
  BY DEF Onward, HandsOver
<1>6. c.n = 0 /\ ~c.hspin /\ c.spin \in BOOLEAN /\ (c.p \in Ps \/ c.hold \in Ps) /\ c.n \in Nat
  BY <1>2, <1>5 DEF Steady, StepOK, Sound, ThreadStates, ThreadOK, HasP, Spins, Place, WithP, AnyP,
     HandsOver, Handoffs, Injects
<1>7. StepOK(w) /\ QueuesFall(w)
  BY <1>2, <1>4, <1>6 DEF StepOK, Place, QueuesFall, Steady, Sound
<1>8. GlobalStep(c, w)
  <2>1. CASE c.pc = "find"
    BY <1>2, <2>1 DEF GlobalStep, Steady, Sound
  <2>2. CASE c.spin
    BY <1>4, <2>2 DEF GlobalStep, Wakes
  <2>3. CASE c.pc # "find" /\ ~c.spin
    <3>1. Stands(c, lq) = 0
      BY <1>5, <1>6, <2>3 DEF Stands, Starts, Takes, Bit, HandsOver
    <3>2. ~Wakes(c)
      BY <1>5, <1>6, <2>3 DEF Wakes, HandsOver
    <3>3. Stands(w, lq) \in Nat
      BY <1>4, <1>6 DEF Stands, Starts, Bit
    <3>4. QED
      BY <1>2, <3>1, <3>2, <3>3 DEF GlobalStep, Steady, Sound
  <2>4. QED
    BY <2>1, <2>2, <2>3
<1>9. LocalStep(c, w)
  BY <1>2, <1>4, <1>5, <1>6 DEF LocalStep, Wakes, Looks, Steady, Sound, HandsOver
<1>10. w.pc \notin PollerPlaces /\ c.pc \notin PollerPlaces
  BY <1>4, <1>5 DEF PollerPlaces, HandsOver
<1>11. QED
  BY <1>2, <1>3, <1>4, <1>6, <1>7, <1>8, <1>9, <1>10, QuietDances DEF Steady, Flags

LEMMA OnwardDances ==
    ASSUME Inv, Inv', DanceInv, NEW t \in Threads, NEW to, <<th[t].pc, to>> \in Onward, Goto(t, to),
           th[t].pc = "find" => gq = 0, to = "scan" => th[t].spin,
           lq' = lq, gq' = gq, pidle' = pidle, needspinning' = needspinning, slack' = slack,
           lastpoll' = lastpoll, waiters' = waiters, netw' = netw, netev' = netev
    PROVE  DanceInv'
<1> DEFINE w == [th[t] EXCEPT !.pc = to, !.seen = {}]
<1>1. th[t] \in ThreadStates /\ to \in PCs
  BY Facts DEF Onward, PCs, WithP, WithoutP, Handoffs
<1>2. Become(t, w)
  BY DEF Goto
<1>3. Alike(w, th[t]) /\ w.pc = to
  <2>1. PICK c \in ThreadStates : c = th[t]
    BY <1>1
  <2>2. /\ Alike([c EXCEPT !.pc = to, !.seen = {}], c)
        /\ [c EXCEPT !.pc = to, !.seen = {}].pc = to
    BY <1>1, GotoAlike
  <2>3. QED
    BY <2>1, <2>2, Zenon
<1> HIDE DEF w
<1>4. QED
  BY <1>2, <1>3, MoveDances

\* The thread, with a P, is awake from now on.
LEMMA WakesDances ==
    ASSUME Inv, Inv', DanceInv, NEW t \in Threads, NEW w, Become(t, w),
           th[t].pc \in {"limit", "release", "respin", "spun", "handoffCas", "handoffStore"},
           Wakes(w), w.p = th[t].p, w.hold = th[t].hold, w.n = th[t].n, w.owed = th[t].owed,
           w.pc = "scan" => w.spin, w.pc \notin PollerPlaces,
           lq' = lq, pidle' = pidle, slack' = slack, needspinning' \in BOOLEAN,
           lastpoll' = lastpoll, waiters' = waiters, netw' = netw, netev' = netev
    PROVE  DanceInv'
<1> DEFINE c == th[t]
<1>1. Steady(c)
  BY SteadyNow
<1>2. th' = [th EXCEPT ![t] = w]
  BY DEF Become
<1>3. (c.p \in Ps \/ c.hold \in Ps) /\ c.n = 0
  BY <1>1 DEF Steady, StepOK, Sound, ThreadStates, ThreadOK, HasP, Place, WithP, AnyP, Handoffs
<1>4. StepOK(w) /\ QueuesFall(w)
  BY <1>1, <1>3 DEF StepOK, QueuesFall, Steady, Sound
<1>5. GlobalStep(c, w) /\ LocalStep(c, w)
  BY DEF GlobalStep, LocalStep
<1>6. c.pc \notin PollerPlaces
  BY DEF PollerPlaces
<1>7. QED
  BY <1>1, <1>2, <1>3, <1>4, <1>5, <1>6, QuietDances DEF Steady, Flags

LEMMA becomeSpinningDances ==
    ASSUME Inv, Inv', DanceInv, NEW m \in Ms, becomeSpinning(m) PROVE DanceInv'
<1> DEFINE w == [th[m] EXCEPT !.pc = "spun", !.spin = TRUE]
<1>1. m \in Threads
  BY DEF Threads
<1>2. Steady(th[m])
  BY <1>1, SteadyNow
<1>3. /\ th[m].pc = "respin" /\ Become(m, w) /\ lq' = lq /\ pidle' = pidle /\ slack' = slack
      /\ needspinning' = needspinning /\ lastpoll' = lastpoll /\ waiters' = waiters
      /\ netw' = netw /\ netev' = netev
  BY DEF becomeSpinning, At, queues, idle, net, others
<1>4. /\ w.pc = "spun" /\ w.spin = TRUE /\ w.p = th[m].p /\ w.hold = th[m].hold /\ w.n = th[m].n
      /\ w.owed = th[m].owed
  BY <1>2 DEF Steady, Sound, ThreadStates
<1> HIDE DEF w
<1>5. Wakes(w) /\ w.pc \notin PollerPlaces
  BY <1>4 DEF Wakes, PollerPlaces
<1>6. QED
  BY <1>1, <1>2, <1>3, <1>4, <1>5, WakesDances DEF Steady, Flags

LEMMA becomeSpinningStoreDances ==
    ASSUME Inv, Inv', DanceInv, NEW m \in Ms, becomeSpinningStore(m) PROVE DanceInv'
<1> DEFINE w == [th[m] EXCEPT !.pc = th[m].ret, !.ret = "run"]
<1>1. m \in Threads
  BY DEF Threads
<1>2. Steady(th[m])
  BY <1>1, SteadyNow
<1>3. /\ th[m].pc = "spun" /\ Become(m, w) /\ lq' = lq /\ pidle' = pidle /\ slack' = slack
      /\ needspinning' = FALSE /\ lastpoll' = lastpoll /\ waiters' = waiters
      /\ netw' = netw /\ netev' = netev
  BY DEF becomeSpinningStore, At, Return, queues, idle, net, others
<1>4. th[m].ret \in {"reset", "find", "scan"} /\ th[m].spin
  BY <1>2, <1>3 DEF Steady, Sound, ThreadOK, Returns, Spins
<1>5. /\ w.pc = th[m].ret /\ w.spin = th[m].spin /\ w.p = th[m].p /\ w.hold = th[m].hold
      /\ w.n = th[m].n /\ w.owed = th[m].owed
  BY <1>2 DEF Steady, Sound, ThreadStates
<1> HIDE DEF w
<1>6. Wakes(w) /\ w.pc \notin PollerPlaces
  BY <1>4, <1>5 DEF Wakes, PollerPlaces
<1>7. QED
  BY <1>1, <1>3, <1>4, <1>5, <1>6, WakesDances

LEMMA findGlobalFirstDances ==
    ASSUME Inv, Inv', DanceInv, NEW m \in Ms, findGlobalFirst(m)
    PROVE  DanceInv'
<1>1. m \in Threads
  BY DEF Threads
<1>2. Steady(th[m])
  BY <1>1, SteadyNow
<1>3. /\ th[m].pc = "find" /\ gq > 0 /\ gq' = gq - 1 /\ lq' = lq /\ Become(m, Found(th[m]))
      /\ pidle' = pidle /\ needspinning' = needspinning /\ slack' = slack
      /\ lastpoll' = lastpoll /\ waiters' = waiters /\ netw' = netw /\ netev' = netev
  BY DEF findGlobalFirst, At, idle, spinning, net, others
<1>4. gq' + Stands(th[m], lq) <= gq
  <2>1. Stands(th[m], lq) \in 0 .. 1
    BY <1>3 DEF Stands, Starts, Bit
  <2>2. QED
    BY <1>2, <1>3, <2>1 DEF Steady, Sound
<1>5. \A p \in Ps : lq'[p] <= lq[p]
  BY <1>2, <1>3 DEF Steady, Sound
<1>6. QED
  BY <1>2, <1>3, <1>4, <1>5, FoundDances DEF Steady, Flags

\* The history is forgotten only when the queues are empty.
LEMMA StillSlackMoves ==
    ASSUME Inv', slack \in BOOLEAN, slack' = StillSlack(lq')
    PROVE  /\ slack' \in BOOLEAN
           /\ slack' \/ (\A p \in Ps : lq'[p] = 0) \/ slack' = slack
<1>1. lq' \in [Ps -> Nat]
  BY DEF Inv, TypeInv
<1>2. slack' = (slack /\ \E p \in Ps : lq'[p] > 0)
  BY DEF StillSlack
<1>3. (\E p \in Ps : lq'[p] > 0) \/ \A p \in Ps : lq'[p] = 0
  BY <1>1
<1>4. QED
  BY <1>2, <1>3

LEMMA findLocalDances == ASSUME Inv, Inv', DanceInv, NEW m \in Ms, findLocal(m) PROVE DanceInv'
<1>1. m \in Threads
  BY DEF Threads
<1>2. Steady(th[m])
  BY <1>1, SteadyNow
<1>3. /\ th[m].pc = "find" /\ lq[th[m].p] > 0 /\ Enqueue(th[m].p, -1) /\ gq' = gq
      /\ Become(m, Found(th[m])) /\ pidle' = pidle /\ needspinning' = needspinning
      /\ slack' = StillSlack(lq')
      /\ lastpoll' = lastpoll /\ waiters' = waiters /\ netw' = netw /\ netev' = netev
  BY DEF findLocal, At, P, idle, spinning, net, others
<1>4. gq' + Stands(th[m], lq) <= gq
  <2>1. Stands(th[m], lq) = 0
    BY <1>3 DEF Stands, Starts, Takes, Bit
  <2>2. QED
    BY <1>2, <1>3, <2>1 DEF Steady, Sound
<1>5. \A p \in Ps : lq'[p] <= lq[p]
  BY <1>2, <1>3 DEF Steady, Sound, Enqueue
<1>6. /\ slack' \in BOOLEAN
      /\ slack' \/ (\A p \in Ps : lq'[p] = 0) \/ slack' = slack
  BY <1>2, <1>3, StillSlackMoves DEF Steady, Flags, Inv, TypeInv
<1>7. QED
  BY <1>2, <1>3, <1>4, <1>5, <1>6, FoundDances

LEMMA findGlobalDances == ASSUME Inv, Inv', DanceInv, NEW m \in Ms, findGlobal(m) PROVE DanceInv'
<1>1. m \in Threads
  BY DEF Threads
<1>2. Steady(th[m])
  BY <1>1, SteadyNow
<1>3. /\ th[m].pc = "find" /\ th[m].p \in Ps /\ pidle' = pidle /\ needspinning' = needspinning
      /\ lastpoll' = lastpoll /\ waiters' = waiters /\ netw' = netw /\ netev' = netev
  BY <1>2 DEF findGlobal, At, P, idle, spinning, net, Steady, Sound, ThreadOK, HasP, WithP
<1>4. CASE gq > 0
  <2>1. TakeGlobal(m, Found(th[m]), th[m].p)
    BY <1>4 DEF findGlobal, P
  <2>2. /\ gq' + 1 <= gq /\ (\A q \in Ps : lq'[q] <= lq[q] \/ q = th[m].p) /\ slack' \in BOOLEAN
        /\ slack' \/ (slack' = slack /\ \A q \in Ps : lq'[q] <= lq[q])
    BY <1>2, <1>3, <1>4, <2>1, TakeGlobalBalance DEF Steady, Sound, Flags
  <2>3. gq' + Stands(th[m], lq) <= gq
    <3>1. Stands(th[m], lq) \in 0 .. 1 /\ gq' \in Nat /\ gq \in Nat
      BY <1>3 DEF Stands, Starts, Bit, Inv, TypeInv
    <3>2. PICK a, b \in Nat : a = gq' /\ b = gq
      BY <3>1
    <3>3. a + 1 <= b
      BY <2>2, <3>2
    <3>4. a + Stands(th[m], lq) <= b
      BY <3>1, <3>3
    <3>5. QED
      BY <3>2, <3>4
  <2>4. Become(m, Found(th[m]))
    BY <2>1 DEF TakeGlobal
  <2>5. QED
    BY <1>3, <2>2, <2>3, <2>4, FoundDances
<1>5. CASE ~(gq > 0)
  <2>1. gq = 0 /\ Goto(m, "poll") /\ lq' = lq /\ gq' = gq /\ slack' = slack
    BY <1>2, <1>5 DEF findGlobal, queues, Steady, Sound
  <2>2. <<th[m].pc, "poll">> \in Onward
    BY <1>3 DEF Onward
  <2>3. QED
    BY <1>1, <1>3, <2>1, <2>2, OnwardDances
<1>6. QED
  BY <1>4, <1>5

LEMMA findStealDances == ASSUME Inv, Inv', DanceInv, NEW m \in Ms, findSteal(m) PROVE DanceInv'
<1>1. m \in Threads
  BY DEF Threads
<1>2. Steady(th[m])
  BY <1>1, SteadyNow
<1>3. /\ th[m].pc = "steal" /\ lq' = lq /\ gq' = gq /\ pidle' = pidle /\ slack' = slack
      /\ needspinning' = needspinning /\ lastpoll' = lastpoll /\ waiters' = waiters
      /\ netw' = netw /\ netev' = netev
  BY DEF findSteal, At, queues, idle, spinning, net, others
<1>4. CASE th[m].spin /\ Goto(m, "scan")
  <2>1. <<th[m].pc, "scan">> \in Onward
    BY <1>3 DEF Onward
  <2>2. QED
    BY <1>1, <1>3, <1>4, <2>1, OnwardDances
<1>5. CASE Become(m, [th[m] EXCEPT !.pc = "limit", !.nm = nmspinning])
  <2> DEFINE w == [th[m] EXCEPT !.pc = "limit", !.nm = nmspinning]
  <2>1. Alike(w, th[m]) /\ w.pc = "limit"
    BY <1>2 DEF Steady, Sound, Alike, ThreadStates, PCs, WithP
  <2>2. Become(m, w)
    BY <1>5
  <2> HIDE DEF w
  <2>3. <<th[m].pc, w.pc>> \in Onward
    BY <1>3, <2>1 DEF Onward
  <2>4. QED
    BY <1>1, <1>3, <2>1, <2>2, <2>3, MoveDances
<1>6. QED
  BY <1>4, <1>5 DEF findSteal

LEMMA findLimitDances == ASSUME Inv, Inv', DanceInv, NEW m \in Ms, findLimit(m) PROVE DanceInv'
<1> DEFINE c == th[m]
           v == [[c EXCEPT !.nm = 0] EXCEPT !.pc = "respin", !.ret = "scan"]
           w == [[c EXCEPT !.nm = 0] EXCEPT !.pc = "release"]
<1>1. m \in Threads
  BY DEF Threads
<1>2. Steady(c)
  BY <1>1, SteadyNow
<1>3. /\ c.pc = "limit" /\ lq' = lq /\ gq' = gq /\ pidle' = pidle /\ slack' = slack
      /\ needspinning' = needspinning /\ lastpoll' = lastpoll /\ waiters' = waiters
      /\ netw' = netw /\ netev' = netev
  BY DEF findLimit, At, queues, idle, spinning, net, others
<1>4. PICK u : u = [c EXCEPT !.nm = 0]
  OBVIOUS
<1>5. Alike(u, c)
  BY <1>2, <1>4 DEF Steady, Sound, Alike, ThreadStates
<1>6. CASE Become(m, v)
  <2>1. v = [u EXCEPT !.pc = "respin", !.ret = "scan"]
    BY <1>4
  <2> HIDE DEF v
  <2>2. v.pc = "respin" /\ v.p = c.p /\ v.hold = c.hold /\ v.n = c.n /\ v.owed = c.owed
    BY <1>5, <2>1 DEF Alike, ThreadStates
  <2>3. Wakes(v) /\ v.pc \notin PollerPlaces
    BY <2>2 DEF Wakes, PollerPlaces
  <2>4. QED
    BY <1>1, <1>2, <1>3, <1>6, <2>2, <2>3, WakesDances DEF Steady, Flags
<1>7. CASE Become(m, w)
  <2>1. w = [u EXCEPT !.pc = "release"]
    BY <1>4
  <2> HIDE DEF w
  <2>2. Alike(w, c) /\ w.pc = "release"
    BY <1>5, <2>1 DEF Alike, ThreadStates, PCs, WithP
  <2>3. <<c.pc, w.pc>> \in Onward
    BY <1>3, <2>2 DEF Onward
  <2>4. QED
    BY <1>1, <1>3, <1>7, <2>2, <2>3, MoveDances
<1>8. QED
  BY <1>6, <1>7 DEF findLimit

\* A thread that spins has looked at one more P.
LEMMA stealWorkDances == ASSUME Inv, Inv', DanceInv, NEW m \in Ms, stealWork(m) PROVE DanceInv'
<1>1. m \in Threads
  BY DEF Threads
<1>2. Steady(th[m])
  BY <1>1, SteadyNow
<1>3. /\ th[m].pc = "scan" /\ th[m].spin /\ th[m].p \in Ps /\ gq' = gq /\ pidle' = pidle
      /\ needspinning' = needspinning
      /\ lastpoll' = lastpoll /\ waiters' = waiters /\ netw' = netw /\ netev' = netev
  BY <1>2 DEF stealWork, At, idle, spinning, net, others, Steady, StepOK, Sound, ThreadOK, HasP, WithP
<1>4. PICK q \in Ps \ (th[m].seen \cup {th[m].p}) :
          IF q \notin pidle /\ lq[q] > 0
          THEN \E n \in Grabs(lq[q]) :
                  /\ lq' = [lq EXCEPT ![q] = @ - n, ![th[m].p] = @ + n - 1]
                  /\ slack' = StillSlack(lq')
                  /\ Become(m, Found(th[m]))
          ELSE Looked(m, q, Ps \ {th[m].p}, "release") /\ UNCHANGED <<lq, slack>>
  BY DEF stealWork, P
<1>5. CASE q \notin pidle /\ lq[q] > 0
  <2>1. PICK n \in Grabs(lq[q]) : /\ lq' = [lq EXCEPT ![q] = @ - n, ![th[m].p] = @ + n - 1]
                                  /\ slack' = StillSlack(lq')
                                  /\ Become(m, Found(th[m]))
    BY <1>4, <1>5
  <2>2. lq \in [Ps -> Nat] /\ lq[q] \in Nat /\ th[m].p # q
    BY <1>2, <1>4 DEF Steady, Sound
  <2>3. n \in Nat /\ 1 <= n /\ n <= lq[q]
    BY <1>5, <2>2, GrabsBounds
  <2>4. \A r \in Ps : lq'[r] <= lq[r] \/ r = th[m].p
    BY <1>3, <1>4, <2>1, <2>2, <2>3, StealQueues
  <2>5. slack' \in BOOLEAN
    BY <1>2, <2>1, StillSlackMoves DEF Steady, Flags
  <2>6. QED
    BY <1>3, <2>1, <2>4, <2>5, FoundDances
<1>6. CASE ~(q \notin pidle /\ lq[q] > 0)
  <2>1. lq' = lq /\ slack' = slack
        /\ (\/ Goto(m, "release")
            \/ Become(m, [th[m] EXCEPT !.seen = @ \cup {q}]))
    BY <1>4, <1>6 DEF Looked
  <2>2. CASE Goto(m, "release")
    <3>1. <<th[m].pc, "release">> \in Onward
      BY <1>3 DEF Onward
    <3>2. QED
      BY <1>1, <1>3, <2>1, <2>2, <3>1, OnwardDances
  <2>3. CASE Become(m, [th[m] EXCEPT !.seen = @ \cup {q}])
    <3> DEFINE w == [th[m] EXCEPT !.seen = @ \cup {q}]
    <3>1. /\ th' = [th EXCEPT ![m] = w] /\ w.pc = "scan" /\ w.spin /\ w.p = th[m].p
          /\ w.n = th[m].n /\ w.owed = th[m].owed
      BY <1>2, <1>3, <2>3 DEF Become, Steady, Sound, ThreadStates
    <3> HIDE DEF w
    <3>2. StepOK(w) /\ Wakes(w) /\ QueuesFall(w)
      BY <1>2, <1>3, <2>1, <3>1 DEF StepOK, Place, Wakes, QueuesFall, Steady, Sound
    <3>3. QED
      BY <1>1, <1>2, <1>3, <2>1, <3>1, <3>2, QuietDances DEF PollerPlaces, GlobalStep, LocalStep, Steady, Flags
  <2>4. QED
    BY <2>1, <2>2, <2>3
<1>7. QED
  BY <1>5, <1>6

-----------------------------------------------------------------------------
(***************************************************************************)
(* findRunnable, without a P.                                              *)
(***************************************************************************)
LEMMA findReleaseDances == ASSUME Inv, Inv', DanceInv, NEW m \in Ms, findRelease(m) PROVE DanceInv'
<1>1. m \in Threads
  BY DEF Threads
<1>2. Steady(th[m])
  BY <1>1, SteadyNow
<1>3. /\ th[m].pc = "release" /\ th[m].p \in Ps /\ th[m].spin \in BOOLEAN
      /\ lastpoll' = lastpoll /\ waiters' = waiters /\ netw' = netw /\ netev' = netev
  BY <1>2 DEF findRelease, At, net, Steady, Sound, ThreadOK, HasP, WithP, ThreadStates
<1>4. ASSUME gq > 0, TakeGlobal(m, Found(th[m]), th[m].p), pidle' = pidle,
             needspinning' = needspinning
      PROVE  DanceInv'
  <2>1. /\ gq' + 1 <= gq /\ (\A q \in Ps : lq'[q] <= lq[q] \/ q = th[m].p) /\ slack' \in BOOLEAN
        /\ slack' \/ (slack' = slack /\ \A q \in Ps : lq'[q] <= lq[q])
    BY <1>2, <1>3, <1>4, TakeGlobalBalance DEF Steady, Sound, Flags
  <2>2. gq' + Stands(th[m], lq) <= gq
    <3>1. Stands(th[m], lq) = 0
      BY <1>3 DEF Stands, Starts, Takes, Bit
    <3>2. PICK a, b \in Nat : a = gq' /\ b = gq
      BY DEF Inv, TypeInv
    <3>3. a + 1 <= b
      BY <2>1, <3>2
    <3>4. a + Stands(th[m], lq) <= b
      BY <3>1, <3>3
    <3>5. QED
      BY <3>2, <3>4
  <2>3. Become(m, Found(th[m]))
    BY <1>4 DEF TakeGlobal
  <2>4. QED
    BY <1>3, <1>4, <2>1, <2>2, <2>3, FoundDances
<1>5. ASSUME needspinning' = FALSE, Become(m, [th[m] EXCEPT !.pc = "find", !.spin = TRUE]),
             lq' = lq, pidle' = pidle, slack' = slack
      PROVE  DanceInv'
  <2> DEFINE w == [th[m] EXCEPT !.pc = "find", !.spin = TRUE]
  <2>1. /\ w.pc = "find" /\ w.spin = TRUE /\ w.p = th[m].p /\ w.hold = th[m].hold
        /\ w.n = th[m].n /\ w.owed = th[m].owed
    BY <1>2 DEF Steady, Sound, ThreadStates
  <2>2. Become(m, w)
    BY <1>5
  <2> HIDE DEF w
  <2>3. Wakes(w) /\ w.pc \notin PollerPlaces
    BY <2>1 DEF Wakes, PollerPlaces
  <2>4. QED
    BY <1>1, <1>3, <1>5, <2>1, <2>2, <2>3, WakesDances
<1>6. ASSUME gq = 0, th[m].spin \/ ~needspinning, pidle' = pidle \cup {th[m].p},
             Become(m, [th[m] EXCEPT !.pc = IF th[m].spin THEN "drop" ELSE "mayBlock", !.p = NoP]),
             UNCHANGED <<queues, spinning, slack>>
      PROVE  DanceInv'
  <2> DEFINE c == th[m]
             w == [c EXCEPT !.pc = IF c.spin THEN "drop" ELSE "mayBlock", !.p = NoP]
  <2>1. m \in Threads
    BY DEF Threads
  <2>2. Steady(c)
    BY <2>1, SteadyNow
  <2>3. /\ th' = [th EXCEPT ![m] = w] /\ c.pc = "release" /\ lq' = lq
        /\ needspinning' = needspinning /\ slack' = slack /\ gq' = 0 /\ lastpoll' = lastpoll
        /\ waiters' = waiters /\ netw' = netw /\ netev' = netev
    BY <1>6 DEF findRelease, At, Become, Goto, Return, P, queues, idle, spinning, net, others
  <2>4. /\ w.pc = (IF c.spin THEN "drop" ELSE "mayBlock") /\ w.p = NoP /\ w.hold = c.hold
        /\ w.spin = c.spin /\ w.hspin = c.hspin /\ w.n = c.n /\ w.owed = c.owed
    BY <2>2, <2>3, <1>6 DEF Steady, Sound, ThreadStates
  <2> HIDE DEF w
  <2>5. /\ c.p \in Ps /\ c.n = 0 /\ ~c.hspin /\ c.hold = NoP /\ c.spin \in BOOLEAN
    BY <2>2, <2>3, <1>6 DEF Steady, StepOK, Sound, ThreadStates, ThreadOK, HasP, Spins, Owes, Place,
       WithP, WithoutP, Handoffs, Injects
  <2>6. StepOK(w) /\ QueuesFall(w)
    BY <2>2, <2>3, <2>4, <2>5, <1>6 DEF StepOK, Place, QueuesFall, Owns, Enqueue, Steady, Sound
  <2>7. GlobalStep(c, w)
    BY <2>2, <2>3, <2>4, <2>5, <1>6 DEF GlobalStep, Wakes, Stands, Starts, Takes, Bit, Steady, Sound
  <2>8. LocalStep(c, w)
    BY <2>2, <2>3, <2>4, <2>5, <1>6 DEF LocalStep, Wakes, Looks, Steady, Sound, Flags
  <2>9. QED
    BY <2>1, <2>2, <2>3, <2>4, <2>5, <1>6, <2>6, <2>7, <2>8, QuietDances DEF PollerPlaces, Steady, Flags,
       Seeks
<1>7. QED
  BY <1>4, <1>5, <1>6 DEF findRelease, P, queues, spinning

LEMMA findDropDances == ASSUME Inv, Inv', DanceInv, NEW m \in Ms, findDrop(m) PROVE DanceInv'
<1> DEFINE c == th[m]
           w == [c EXCEPT !.pc = "again", !.spin = FALSE, !.was = TRUE]
<1>1. m \in Threads
  BY DEF Threads
<1>2. Steady(c)
  BY <1>1, SteadyNow
<1>3. /\ th' = [th EXCEPT ![m] = w] /\ c.pc = "drop" /\ lq' = lq /\ gq' = gq /\ pidle' = pidle
      /\ needspinning' = needspinning /\ slack' = slack /\ lastpoll' = lastpoll
      /\ waiters' = waiters /\ netw' = netw /\ netev' = netev
  BY DEF findDrop, AfterDrop, At, Become, Goto, Return, P, queues, idle, spinning, net, others
<1>4. /\ w.pc = "again" /\ ~w.spin /\ w.p = c.p /\ w.hold = c.hold /\ w.hspin = c.hspin
      /\ w.n = c.n /\ w.owed = c.owed
  BY <1>2, <1>3 DEF Steady, Sound, ThreadStates
<1> HIDE DEF w
<1>5. /\ c.n = 0
  BY <1>2, <1>3 DEF Steady, StepOK, Sound, ThreadStates, ThreadOK, HasP, Spins, Owes, Place, WithP,
     WithoutP, Handoffs, Injects
<1>6. StepOK(w) /\ QueuesFall(w)
  BY <1>2, <1>3, <1>4, <1>5 DEF StepOK, Place, QueuesFall, Owns, Enqueue, Steady, Sound
<1>7. GlobalStep(c, w)
  BY <1>2, <1>3, <1>4, <1>5 DEF GlobalStep, Wakes, Stands, Starts, Takes, Bit, Steady, Sound
<1>8. LocalStep(c, w)
  BY <1>2, <1>3, <1>4, <1>5 DEF LocalStep, Wakes, Looks, Steady, Sound
<1>9. QED
  BY <1>1, <1>2, <1>3, <1>4, <1>5, <1>6, <1>7, <1>8, QuietDances DEF PollerPlaces, Steady, Flags, Seeks

LEMMA findAgainDances == ASSUME Inv, Inv', DanceInv, NEW m \in Ms, findAgain(m) PROVE DanceInv'
<1>1. ASSUME gq > 0, NEW p \in pidle, pidle' = pidle \ {p},
             TakeGlobal(m, Respin(th[m], p, "reset"), p),
             needspinning' = needspinning
      PROVE  DanceInv'
  <2> DEFINE c == th[m]
             w == Respin(c, p, "reset")
  <2>1. m \in Threads
    BY DEF Threads
  <2>2. Steady(c)
    BY <2>1, SteadyNow
  <2>3. /\ th' = [th EXCEPT ![m] = w] /\ c.pc = "again" /\ needspinning' = needspinning
        /\ lastpoll' = lastpoll /\ waiters' = waiters /\ netw' = netw /\ netev' = netev
    BY <1>1 DEF findAgain, TakeGlobal, At, Become, Goto, Return, P, queues, idle, spinning, net,
       others
  <2>4. /\ w.pc = "respin" /\ w.p = p /\ w.hold = c.hold /\ w.spin = c.spin /\ w.hspin = c.hspin
        /\ w.n = c.n /\ w.owed = c.owed
    BY <2>2, <1>1, RespinFields DEF Steady, Sound
  <2> HIDE DEF w
  <2>5. /\ c.p = NoP /\ c.n = 0 /\ p \in Ps
    BY <2>2, <2>3, <1>1 DEF Steady, StepOK, Sound, ThreadStates, ThreadOK, HasP, Spins, Owes, Place,
       WithP, WithoutP, Handoffs, Injects
  <2>6. StepOK(w) /\ QueuesFall(w)
    <3>1. (\A q \in Ps : lq'[q] <= lq[q] \/ q = p)
      BY <1>1, <2>2, <2>5, TakeGlobalBalance DEF Steady, Sound, Flags
    <3>2. QED
      BY <2>4, <2>5, <3>1 DEF StepOK, QueuesFall, Owns
  <2>7. GlobalStep(c, w)
    BY <2>2, <2>3, <2>4, <2>5, <1>1 DEF GlobalStep, Wakes, Stands, Starts, Takes, Bit, Steady, Sound
  <2>8. LocalStep(c, w)
    BY <2>2, <2>3, <2>4, <2>5, <1>1 DEF LocalStep, Wakes, Looks, Steady, Sound
  <2>9. slack' \in BOOLEAN
    BY <1>1, <2>2, <2>5, TakeGlobalBalance DEF Steady, Sound, Flags
  <2>10. QED
    BY <2>1, <2>2, <2>3, <2>4, <2>5, <1>1, <2>6, <2>7, <2>8, <2>9, QuietDances DEF PollerPlaces, Steady, Flags
<1>2. ASSUME gq = 0 \/ pidle = {}, needspinning' = IF gq > 0 THEN Needed ELSE needspinning,
             Goto(m, "queues"), UNCHANGED <<queues, pidle, slack>>
      PROVE  DanceInv'
  <2> DEFINE c == th[m]
             w == [c EXCEPT !.pc = "queues", !.seen = {}]
  <2>1. m \in Threads
    BY DEF Threads
  <2>2. Steady(c)
    BY <2>1, SteadyNow
  <2>3. /\ th' = [th EXCEPT ![m] = w] /\ c.pc = "again" /\ lq' = lq /\ gq' = gq /\ pidle' = pidle
        /\ slack' = slack /\ lastpoll' = lastpoll /\ waiters' = waiters /\ netw' = netw
        /\ netev' = netev
    BY <1>2 DEF findAgain, At, Become, Goto, Return, P, queues, idle, spinning, net, others
  <2>4. /\ w.pc = "queues" /\ w.seen = {} /\ w.p = c.p /\ w.hold = c.hold /\ w.spin = c.spin
        /\ w.hspin = c.hspin /\ w.n = c.n /\ w.owed = c.owed
    BY <2>2, <2>3, <1>2 DEF Steady, Sound, ThreadStates
  <2> HIDE DEF w
  <2>5. /\ c.p = NoP /\ c.n = 0
    BY <2>2, <2>3, <1>2 DEF Steady, StepOK, Sound, ThreadStates, ThreadOK, HasP, Spins, Owes, Place,
       WithP, WithoutP, Handoffs, Injects
  <2>6. StepOK(w) /\ QueuesFall(w)
    BY <2>2, <2>3, <2>4, <2>5, <1>2 DEF StepOK, Place, QueuesFall, Owns, Enqueue, Steady, Sound
  <2>7. GlobalStep(c, w)
    BY <2>2, <2>3, <2>4, <2>5, <1>2 DEF GlobalStep, Wakes, Stands, Starts, Takes, Bit, Steady, Sound
  <2>8. LocalStep(c, w)
    BY <2>2, <2>3, <2>4, <2>5, <1>2 DEF LocalStep, Wakes, Looks, Steady, Sound
  <2>9. QED
    BY <2>1, <2>2, <2>3, <2>4, <2>5, <1>2, <2>6, <2>7, <2>8, QuietDances DEF PollerPlaces, Steady, Flags,
       Seeks, Needed
<1>3. QED
  BY <1>1, <1>2 DEF findAgain

LEMMA checkRunqsGetPDances ==
    ASSUME Inv, Inv', DanceInv, NEW m \in Ms, checkRunqsGetP(m)
    PROVE  DanceInv'
<1>1. ASSUME NEW p \in pidle, pidle' = pidle \ {p}, needspinning' = needspinning,
             Become(m, Respin(th[m], p, "find"))
      PROVE  DanceInv'
  <2> DEFINE c == th[m]
             w == Respin(c, p, "find")
  <2>1. m \in Threads
    BY DEF Threads
  <2>2. Steady(c)
    BY <2>1, SteadyNow
  <2>3. /\ th' = [th EXCEPT ![m] = w] /\ c.pc = "getP" /\ lq' = lq /\ gq' = gq /\ slack' = slack
        /\ lastpoll' = lastpoll /\ waiters' = waiters /\ netw' = netw /\ netev' = netev
    BY <1>1 DEF checkRunqsGetP, At, Become, Goto, Return, P, queues, idle, spinning, net, others
  <2>4. /\ w.pc = "respin" /\ w.p = p /\ w.hold = c.hold /\ w.spin = c.spin /\ w.hspin = c.hspin
        /\ w.n = c.n /\ w.owed = c.owed
    BY <2>2, <1>1, RespinFields DEF Steady, Sound
  <2> HIDE DEF w
  <2>5. /\ c.p = NoP /\ c.n = 0 /\ p \in Ps
    BY <2>2, <2>3, <1>1 DEF Steady, StepOK, Sound, ThreadStates, ThreadOK, HasP, Spins, Owes, Place,
       WithP, WithoutP, Handoffs, Injects
  <2>6. StepOK(w) /\ QueuesFall(w)
    BY <2>2, <2>3, <2>4, <2>5, <1>1 DEF StepOK, Place, QueuesFall, Owns, Enqueue, Steady, Sound
  <2>7. GlobalStep(c, w)
    BY <2>2, <2>3, <2>4, <2>5, <1>1 DEF GlobalStep, Wakes, Stands, Starts, Takes, Bit, Steady, Sound
  <2>8. LocalStep(c, w)
    BY <2>2, <2>3, <2>4, <2>5, <1>1 DEF LocalStep, Wakes, Looks, Steady, Sound
  <2>9. QED
    BY <2>1, <2>2, <2>3, <2>4, <2>5, <1>1, <2>6, <2>7, <2>8, QuietDances DEF PollerPlaces, Steady, Flags
<1>2. ASSUME pidle = {}, pidle' = pidle, needspinning' = Needed, Goto(m, "mayBlock")
      PROVE  DanceInv'
  <2> DEFINE c == th[m]
             w == [c EXCEPT !.pc = "mayBlock", !.seen = {}]
  <2>1. m \in Threads
    BY DEF Threads
  <2>2. Steady(c)
    BY <2>1, SteadyNow
  <2>3. /\ th' = [th EXCEPT ![m] = w] /\ c.pc = "getP" /\ needspinning' = TRUE /\ lq' = lq
        /\ gq' = gq /\ slack' = slack /\ lastpoll' = lastpoll /\ waiters' = waiters /\ netw' = netw
        /\ netev' = netev
    BY <1>2 DEF checkRunqsGetP, Needed, At, Become, Goto, Return, P, queues, idle, spinning, net,
       others
  <2>4. /\ w.pc = "mayBlock" /\ w.p = c.p /\ w.hold = c.hold /\ w.spin = c.spin
        /\ w.hspin = c.hspin /\ w.n = c.n /\ w.owed = c.owed
    BY <2>2, <2>3, <1>2 DEF Steady, Sound, ThreadStates
  <2> HIDE DEF w
  <2>5. /\ c.p = NoP /\ c.n = 0
    BY <2>2, <2>3, <1>2 DEF Steady, StepOK, Sound, ThreadStates, ThreadOK, HasP, Spins, Owes, Place,
       WithP, WithoutP, Handoffs, Injects
  <2>6. StepOK(w) /\ QueuesFall(w)
    BY <2>2, <2>3, <2>4, <2>5, <1>2 DEF StepOK, Place, QueuesFall, Owns, Enqueue, Steady, Sound
  <2>7. GlobalStep(c, w)
    BY <2>2, <2>3, <2>4, <2>5, <1>2 DEF GlobalStep, Wakes, Stands, Starts, Takes, Bit, Steady, Sound
  <2>8. LocalStep(c, w)
    BY <2>2, <2>3, <2>4, <2>5, <1>2 DEF LocalStep, Wakes, Looks, Steady, Sound
  <2>9. QED
    BY <2>1, <2>2, <2>3, <2>4, <2>5, <1>2, <2>6, <2>7, <2>8, QuietDances DEF PollerPlaces, Steady, Flags,
       Seeks
<1>3. QED
  BY <1>1, <1>2 DEF checkRunqsGetP

LEMMA checkRunqsNoPDances ==
    ASSUME Inv, Inv', DanceInv, NEW m \in Ms, checkRunqsNoP(m)
    PROVE  DanceInv'
<1>1. PICK q \in Ps \ th[m].seen : IF q \notin pidle /\ lq[q] > 0 THEN Goto(m, "getP")
                                   ELSE Looked(m, q, Ps, "mayBlock")
  BY DEF checkRunqsNoP
<1>2. ASSUME Goto(m, "getP") PROVE DanceInv'
  <2> DEFINE c == th[m]
             w == [c EXCEPT !.pc = "getP", !.seen = {}]
  <2>1. m \in Threads
    BY DEF Threads
  <2>2. Steady(c)
    BY <2>1, SteadyNow
  <2>3. /\ th' = [th EXCEPT ![m] = w] /\ c.pc = "queues" /\ lq' = lq /\ gq' = gq /\ pidle' = pidle
        /\ needspinning' = needspinning /\ slack' = slack /\ lastpoll' = lastpoll
        /\ waiters' = waiters /\ netw' = netw /\ netev' = netev
    BY <1>1, <1>2 DEF checkRunqsNoP, At, Become, Goto, Return, P, queues, idle, spinning, net, others
  <2>4. /\ w.pc = "getP" /\ w.p = c.p /\ w.hold = c.hold /\ w.spin = c.spin /\ w.hspin = c.hspin
        /\ w.n = c.n /\ w.owed = c.owed
    BY <2>2, <2>3, <1>1, <1>2 DEF Steady, Sound, ThreadStates
  <2> HIDE DEF w
  <2>5. /\ c.n = 0 /\ ~c.spin /\ ~c.hspin /\ c.p = NoP /\ c.seen \subseteq Ps
    BY <2>2, <2>3, <1>1, <1>2 DEF Steady, StepOK, Sound, ThreadStates, ThreadOK, HasP, Spins, Owes,
       Place, WithP, WithoutP, Handoffs, Injects
  <2>6. StepOK(w) /\ QueuesFall(w)
    BY <2>2, <2>3, <2>4, <2>5, <1>1, <1>2 DEF StepOK, Place, QueuesFall, Owns, Enqueue, Steady, Sound
  <2>7. GlobalStep(c, w)
    BY <2>2, <2>3, <2>4, <2>5, <1>1, <1>2 DEF GlobalStep, Wakes, Stands, Starts, Takes, Bit, Steady,
       Sound
  <2>8. LocalStep(c, w)
    BY <2>2, <2>3, <2>4, <2>5, <1>1, <1>2 DEF LocalStep, Wakes, Looks, Steady, Sound
  <2>9. QED
    BY <2>1, <2>2, <2>3, <2>4, <2>5, <1>1, <1>2, <2>6, <2>7, <2>8, QuietDances DEF PollerPlaces, Steady,
       Flags, Seeks
<1>3. ASSUME q \in pidle \/ ~(lq[q] > 0), Ps \subseteq th[m].seen \cup {q}, Goto(m, "mayBlock")
      PROVE  DanceInv'
  <2> DEFINE c == th[m]
             w == [c EXCEPT !.pc = "mayBlock", !.seen = {}]
  <2>1. m \in Threads
    BY DEF Threads
  <2>2. Steady(c)
    BY <2>1, SteadyNow
  <2>3. /\ th' = [th EXCEPT ![m] = w] /\ c.pc = "queues" /\ lq' = lq /\ gq' = gq /\ pidle' = pidle
        /\ needspinning' = needspinning /\ slack' = slack /\ lastpoll' = lastpoll
        /\ waiters' = waiters /\ netw' = netw /\ netev' = netev
    BY <1>1, <1>3 DEF checkRunqsNoP, At, Become, Goto, Return, P, queues, idle, spinning, net, others
  <2>4. /\ w.pc = "mayBlock" /\ w.p = c.p /\ w.hold = c.hold /\ w.spin = c.spin
        /\ w.hspin = c.hspin /\ w.n = c.n /\ w.owed = c.owed
    BY <2>2, <2>3, <1>1, <1>3 DEF Steady, Sound, ThreadStates
  <2> HIDE DEF w
  <2>5. /\ c.n = 0 /\ ~c.spin /\ ~c.hspin /\ c.p = NoP /\ c.seen \subseteq Ps
    BY <2>2, <2>3, <1>1, <1>3 DEF Steady, StepOK, Sound, ThreadStates, ThreadOK, HasP, Spins, Owes,
       Place, WithP, WithoutP, Handoffs, Injects
  <2>6. StepOK(w) /\ QueuesFall(w)
    BY <2>2, <2>3, <2>4, <2>5, <1>1, <1>3 DEF StepOK, Place, QueuesFall, Owns, Enqueue, Steady, Sound
  <2>7. GlobalStep(c, w)
    BY <2>2, <2>3, <2>4, <2>5, <1>1, <1>3 DEF GlobalStep, Wakes, Stands, Starts, Takes, Bit, Steady,
       Sound
  <2>8. LocalStep(c, w)
    BY <1>1, <2>2, <2>3, <2>4, <2>5, <1>1, <1>3 DEF LocalStep, Wakes, Looks, Steady, Sound
  <2>9. QED
    BY <2>1, <2>2, <2>3, <2>4, <2>5, <1>1, <1>3, <2>6, <2>7, <2>8, QuietDances DEF PollerPlaces, Steady,
       Flags, Seeks
<1>4. ASSUME q \in pidle \/ ~(lq[q] > 0), Become(m, [th[m] EXCEPT !.seen = @ \cup {q}])
      PROVE  DanceInv'
  <2> DEFINE c == th[m]
             w == [c EXCEPT !.seen = @ \cup {q}]
  <2>1. m \in Threads
    BY DEF Threads
  <2>2. Steady(c)
    BY <2>1, SteadyNow
  <2>3. /\ th' = [th EXCEPT ![m] = w] /\ c.pc = "queues" /\ lq' = lq /\ gq' = gq /\ pidle' = pidle
        /\ needspinning' = needspinning /\ slack' = slack /\ lastpoll' = lastpoll
        /\ waiters' = waiters /\ netw' = netw /\ netev' = netev
    BY <1>1, <1>4 DEF checkRunqsNoP, At, Become, Goto, Return, P, queues, idle, spinning, net, others
  <2>4. /\ w.pc = "queues" /\ w.seen = c.seen \cup {q} /\ w.p = c.p /\ w.hold = c.hold
        /\ w.spin = c.spin /\ w.hspin = c.hspin /\ w.n = c.n /\ w.owed = c.owed
    BY <2>2, <2>3, <1>1, <1>4 DEF Steady, Sound, ThreadStates
  <2> HIDE DEF w
  <2>5. /\ c.n = 0 /\ ~c.spin /\ ~c.hspin /\ c.p = NoP /\ c.seen \subseteq Ps
    BY <2>2, <2>3, <1>1, <1>4 DEF Steady, StepOK, Sound, ThreadStates, ThreadOK, HasP, Spins, Owes,
       Place, WithP, WithoutP, Handoffs, Injects
  <2>6. StepOK(w) /\ QueuesFall(w)
    BY <2>2, <2>3, <2>4, <2>5, <1>1, <1>4 DEF StepOK, Place, QueuesFall, Owns, Enqueue, Steady, Sound
  <2>7. GlobalStep(c, w)
    BY <2>2, <2>3, <2>4, <2>5, <1>1, <1>4 DEF GlobalStep, Wakes, Stands, Starts, Takes, Bit, Steady,
       Sound
  <2>8. LocalStep(c, w)
    BY <2>2, <2>3, <2>4, <2>5, <1>1, <1>4 DEF LocalStep, Wakes, Looks, Steady, Sound
  <2>9. QED
    BY <2>1, <2>2, <2>3, <2>4, <2>5, <1>1, <1>4, <2>6, <2>7, <2>8, QuietDances DEF PollerPlaces, Steady,
       Flags, Seeks
<1>5. QED
  BY <1>1, <1>2, <1>3, <1>4 DEF Looked

-----------------------------------------------------------------------------
(***************************************************************************)
(* injectglist and handoffp.                                               *)
(***************************************************************************)
LEMMA injectGlobalDances ==
    ASSUME Inv, Inv', DanceInv, NEW t \in Threads, injectGlobal(t)
    PROVE  DanceInv'
<1> DEFINE c == th[t]
           w == [c EXCEPT !.rest = @ - c.n, !.pc = "startIdle"]
<1>1. t \in Threads
  OBVIOUS
<1>2. Steady(c)
  BY <1>1, SteadyNow
<1>3. /\ th' = [th EXCEPT ![t] = w] /\ c.pc = "injectG" /\ gq' = gq + c.n /\ lq' = lq
      /\ pidle' = pidle /\ needspinning' = needspinning /\ slack' = slack /\ lastpoll' = lastpoll
      /\ waiters' = waiters /\ netw' = netw /\ netev' = netev
  BY DEF injectGlobal, At, Become, Goto, Return, P, queues, idle, spinning, net, others
<1>4. /\ w.pc = "startIdle" /\ w.p = c.p /\ w.hold = c.hold /\ w.spin = c.spin /\ w.hspin = c.hspin
      /\ w.n = c.n /\ w.owed = c.owed
  BY <1>2, <1>3 DEF Steady, Sound, ThreadStates
<1> HIDE DEF w
<1>5. /\ c.n \in Nat /\ ~c.hspin /\ c.spin \in BOOLEAN
  BY <1>2, <1>3 DEF Steady, StepOK, Sound, ThreadStates, ThreadOK, HasP, Spins, Owes, Place, WithP,
     WithoutP, Handoffs, Injects
<1>6. StepOK(w) /\ QueuesFall(w)
  BY <1>2, <1>3, <1>4, <1>5 DEF StepOK, Place, QueuesFall, Owns, Enqueue, Steady, Sound
<1>7. GlobalStep(c, w)
  BY <1>2, <1>3, <1>4, <1>5 DEF GlobalStep, Wakes, Stands, Starts, Takes, Bit, Steady, Sound
<1>8. LocalStep(c, w)
  BY <1>2, <1>3, <1>4, <1>5 DEF LocalStep, Wakes, Looks, Steady, Sound
<1>9. QED
  BY <1>1, <1>2, <1>3, <1>4, <1>5, <1>6, <1>7, <1>8, QuietDances DEF PollerPlaces, Steady, Flags, Seeks

LEMMA startIdleDances == ASSUME Inv, Inv', DanceInv, NEW t \in Threads, startIdle(t) PROVE DanceInv'
<1>1. ASSUME NEW p \in pidle, pidle' = pidle \ {p}, needspinning' = needspinning,
             Become(t, [th[t] EXCEPT !.pc = "startm", !.hold = p, !.n = @ - 1,
                                     !.ret = AfterStart(th[t].n - 1, th[t].rest)])
      PROVE  DanceInv'
  <2> DEFINE c == th[t]
             w == [c EXCEPT !.pc = "startm", !.hold = p, !.n = @ - 1, !.ret = AfterStart(c.n - 1, c.rest)]
  <2>1. t \in Threads
    OBVIOUS
  <2>2. Steady(c)
    BY <2>1, SteadyNow
  <2>3. /\ th' = [th EXCEPT ![t] = w] /\ c.pc = "startIdle" /\ lq' = lq /\ gq' = gq
        /\ slack' = slack /\ lastpoll' = lastpoll /\ waiters' = waiters /\ netw' = netw
        /\ netev' = netev
    BY <1>1 DEF startIdle, At, Become, Goto, Return, P, queues, idle, spinning, net, others
  <2>4. /\ w.pc = "startm" /\ w.hold = p /\ w.n = c.n - 1 /\ w.ret = AfterStart(c.n - 1, c.rest)
        /\ w.p = c.p /\ w.spin = c.spin /\ w.hspin = c.hspin /\ w.owed = c.owed
    BY <2>2, <2>3, <1>1 DEF Steady, Sound, ThreadStates
  <2> HIDE DEF w
  <2>5. /\ c.n \in Nat /\ c.n > 0 /\ ~c.hspin /\ c.spin \in BOOLEAN /\ p \in Ps /\ lq[p] = 0
    BY <2>2, <2>3, <1>1 DEF Steady, StepOK, Sound, ThreadStates, ThreadOK, HasP, Spins, Owes, Place,
       WithP, WithoutP, Handoffs, Injects
  <2>6. StepOK(w) /\ QueuesFall(w)
    BY <2>2, <2>3, <2>4, <2>5, <1>1 DEF StepOK, Place, QueuesFall, Owns, Enqueue, Steady, Sound,
       AfterStart
  <2>7. GlobalStep(c, w)
    BY <2>2, <2>3, <2>4, <2>5, <1>1 DEF GlobalStep, Wakes, Stands, Starts, Takes, Bit, Steady, Sound
  <2>8. LocalStep(c, w)
    BY <2>2, <2>3, <2>4, <2>5, <1>1 DEF LocalStep, Wakes, Looks, Steady, Sound
  <2>9. QED
    BY <2>1, <2>2, <2>3, <2>4, <2>5, <1>1, <2>6, <2>7, <2>8, QuietDances DEF PollerPlaces, Steady, Flags
<1>2. ASSUME pidle = {}, pidle' = pidle, needspinning' = Needed,
             Become(t, [th[t] EXCEPT !.pc = AfterStart(0, th[t].rest), !.n = 0])
      PROVE  DanceInv'
  <2> DEFINE c == th[t]
             w == [c EXCEPT !.pc = AfterStart(0, c.rest), !.n = 0]
  <2>1. t \in Threads
    OBVIOUS
  <2>2. Steady(c)
    BY <2>1, SteadyNow
  <2>3. /\ th' = [th EXCEPT ![t] = w] /\ c.pc = "startIdle" /\ needspinning' = TRUE /\ lq' = lq
        /\ gq' = gq /\ slack' = slack /\ lastpoll' = lastpoll /\ waiters' = waiters /\ netw' = netw
        /\ netev' = netev
    BY <1>2 DEF startIdle, Needed, At, Become, Goto, Return, P, queues, idle, spinning, net, others
  <2>4. /\ w.pc = AfterStart(0, c.rest) /\ w.n = 0 /\ w.p = c.p /\ w.hold = c.hold
        /\ w.spin = c.spin /\ w.hspin = c.hspin /\ w.owed = c.owed
    BY <2>2, <2>3, <1>2 DEF Steady, Sound, ThreadStates
  <2> HIDE DEF w
  <2>5. /\ c.n \in Nat /\ c.n > 0 /\ ~c.hspin /\ c.spin \in BOOLEAN
    BY <2>2, <2>3, <1>2 DEF Steady, StepOK, Sound, ThreadStates, ThreadOK, HasP, Spins, Owes, Place,
       WithP, WithoutP, Handoffs, Injects
  <2>6. StepOK(w) /\ QueuesFall(w)
    BY <2>2, <2>3, <2>4, <2>5, <1>2 DEF StepOK, Place, QueuesFall, Owns, Enqueue, Steady, Sound,
       AfterStart
  <2>7. GlobalStep(c, w)
    BY <2>2, <2>3, <2>4, <2>5, <1>2 DEF GlobalStep, Wakes, Stands, Starts, Takes, Bit, Steady, Sound
  <2>8. LocalStep(c, w)
    BY <2>2, <2>3, <2>4, <2>5, <1>2 DEF LocalStep, Wakes, Looks, Steady, Sound
  <2>9. QED
    BY <2>1, <2>2, <2>3, <2>4, <2>5, <1>2, <2>6, <2>7, <2>8, QuietDances DEF PollerPlaces, Steady, Flags,
       Seeks, AfterStart
<1>3. QED
  BY <1>1, <1>2 DEF startIdle

LEMMA injectLocalDances ==
    ASSUME Inv, Inv', DanceInv, NEW t \in Threads, injectLocal(t)
    PROVE  DanceInv'
<1> DEFINE c == th[t]
           w == [c EXCEPT !.pc = "adjust", !.rest = 0]
<1>1. t \in Threads
  OBVIOUS
<1>2. Steady(c)
  BY <1>1, SteadyNow
<1>3. /\ th' = [th EXCEPT ![t] = w] /\ c.pc = "injectP" /\ Enqueue(c.p, c.rest) /\ slack' = TRUE
      /\ gq' = gq /\ pidle' = pidle /\ needspinning' = needspinning /\ lastpoll' = lastpoll
      /\ waiters' = waiters /\ netw' = netw /\ netev' = netev
  BY DEF injectLocal, At, Become, Goto, Return, P, queues, idle, spinning, net, others
<1>4. /\ w.pc = "adjust" /\ w.p = c.p /\ w.hold = c.hold /\ w.spin = c.spin /\ w.hspin = c.hspin
      /\ w.n = c.n /\ w.owed = c.owed
  BY <1>2, <1>3 DEF Steady, Sound, ThreadStates
<1> HIDE DEF w
<1>5. /\ c.n = 0 /\ ~c.hspin /\ c.spin \in BOOLEAN /\ c.p \in Ps
  BY <1>2, <1>3 DEF Steady, StepOK, Sound, ThreadStates, ThreadOK, HasP, Spins, Owes, Place, WithP,
     WithoutP, Handoffs, Injects
<1>6. StepOK(w) /\ QueuesFall(w)
  BY <1>2, <1>3, <1>4, <1>5 DEF StepOK, Place, QueuesFall, Owns, Enqueue, Steady, Sound
<1>7. GlobalStep(c, w)
  BY <1>2, <1>3, <1>4, <1>5 DEF GlobalStep, Wakes, Stands, Starts, Takes, Bit, Steady, Sound
<1>8. LocalStep(c, w)
  BY <1>2, <1>3, <1>4, <1>5 DEF LocalStep, Wakes, Looks, Steady, Sound
<1>9. QED
  BY <1>1, <1>2, <1>3, <1>4, <1>5, <1>6, <1>7, <1>8, QuietDances DEF PollerPlaces, Steady, Flags, Seeks

LEMMA retakeDances == ASSUME Inv, Inv', DanceInv, retake PROVE DanceInv'
<1>1. PICK p \in insys :
         Become(Sysmon, [th[Sysmon] EXCEPT !.pc = "handoff", !.hold = p, !.ret = "sysmon"])
  BY DEF retake
<1> DEFINE c == th[Sysmon]
           w == [c EXCEPT !.pc = "handoff", !.hold = p, !.ret = "sysmon"]
<1>2. Sysmon \in Threads
  BY ThreadsFinite
<1>3. Steady(c)
  BY <1>2, SteadyNow
<1>4. /\ th' = [th EXCEPT ![Sysmon] = w] /\ c.pc = "sysmon" /\ lq' = lq /\ gq' = gq
      /\ pidle' = pidle /\ needspinning' = needspinning /\ slack' = slack /\ lastpoll' = lastpoll
      /\ waiters' = waiters /\ netw' = netw /\ netev' = netev
  BY <1>1 DEF retake, At, Become, Goto, Return, P, queues, idle, spinning, net, others
<1>5. /\ w.pc = "handoff" /\ w.hold = p /\ w.p = c.p /\ w.spin = c.spin /\ w.hspin = c.hspin
      /\ w.n = c.n /\ w.owed = c.owed
  BY <1>3, <1>4, <1>1 DEF Steady, Sound, ThreadStates
<1> HIDE DEF w
<1>6. /\ c.n = 0 /\ ~c.spin /\ ~c.hspin /\ c.p = NoP /\ p \in Ps
  BY <1>3, <1>4, <1>1 DEF Steady, StepOK, Sound, ThreadStates, ThreadOK, HasP, Spins, Owes, Place,
     WithP, WithoutP, Handoffs, Injects
<1>7. StepOK(w) /\ QueuesFall(w)
  BY <1>3, <1>4, <1>5, <1>6, <1>1 DEF StepOK, Place, QueuesFall, Owns, Enqueue, Steady, Sound
<1>8. GlobalStep(c, w)
  BY <1>3, <1>4, <1>5, <1>6, <1>1 DEF GlobalStep, Wakes, Stands, Starts, Takes, Bit, Steady, Sound
<1>9. LocalStep(c, w)
  BY <1>3, <1>4, <1>5, <1>6, <1>1 DEF LocalStep, Wakes, Looks, Steady, Sound
<1>10. QED
  BY <1>2, <1>3, <1>4, <1>5, <1>6, <1>1, <1>7, <1>8, <1>9, QuietDances DEF PollerPlaces, Steady, Flags

LEMMA handoffpDances == ASSUME Inv, Inv', DanceInv, handoffp PROVE DanceInv'
<1>1. Sysmon \in Threads
  BY ThreadsFinite
<1>2. PICK to \in {"startm", "handoffSpin"} : Goto(Sysmon, to)
  BY DEF handoffp
<1>3. <<th[Sysmon].pc, to>> \in Onward /\ th[Sysmon].pc = "handoff"
  BY DEF handoffp, At, Onward
<1>4. QED
  BY <1>1, <1>2, <1>3, OnwardDances DEF handoffp, queues, idle, spinning, net, others

LEMMA handoffSpinDances == ASSUME Inv, Inv', DanceInv, handoffSpin PROVE DanceInv'
<1>1. Sysmon \in Threads
  BY ThreadsFinite
<1>2. PICK to \in {"handoffIdle", "handoffLock"} : Goto(Sysmon, to)
  BY DEF handoffSpin
<1>3. <<th[Sysmon].pc, to>> \in Onward /\ th[Sysmon].pc = "handoffSpin"
  BY DEF handoffSpin, At, Onward
<1>4. QED
  BY <1>1, <1>2, <1>3, OnwardDances DEF handoffSpin, queues, idle, spinning, net, others

LEMMA handoffIdleDances == ASSUME Inv, Inv', DanceInv, handoffIdle PROVE DanceInv'
<1>1. Sysmon \in Threads
  BY ThreadsFinite
<1>2. PICK to \in {"handoffCas", "handoffLock"} : Goto(Sysmon, to)
  BY DEF handoffIdle
<1>3. <<th[Sysmon].pc, to>> \in Onward /\ th[Sysmon].pc = "handoffIdle"
  BY DEF handoffIdle, At, Onward
<1>4. QED
  BY <1>1, <1>2, <1>3, OnwardDances DEF handoffIdle, queues, idle, spinning, net, others

LEMMA handoffCasDances == ASSUME Inv, Inv', DanceInv, handoffCas PROVE DanceInv'
<1> DEFINE w == [th[Sysmon] EXCEPT !.pc = "handoffStore", !.hspin = TRUE]
<1>1. Sysmon \in Threads
  BY ThreadsFinite
<1>2. Steady(th[Sysmon])
  BY <1>1, SteadyNow
<1>3. /\ th[Sysmon].pc = "handoffCas" /\ lq' = lq /\ gq' = gq /\ pidle' = pidle /\ slack' = slack
      /\ needspinning' = needspinning /\ lastpoll' = lastpoll /\ waiters' = waiters
      /\ netw' = netw /\ netev' = netev
  BY DEF handoffCas, At, queues, idle, net, others
<1>4. CASE Become(Sysmon, w)
  <2>1. /\ w.pc = "handoffStore" /\ w.hspin = TRUE /\ w.p = th[Sysmon].p
        /\ w.hold = th[Sysmon].hold /\ w.n = th[Sysmon].n /\ w.owed = th[Sysmon].owed
    BY <1>2 DEF Steady, Sound, ThreadStates
  <2> HIDE DEF w
  <2>2. Wakes(w) /\ w.pc \notin PollerPlaces
    BY <2>1 DEF Wakes, PollerPlaces
  <2>3. QED
    BY <1>1, <1>2, <1>3, <1>4, <2>1, <2>2, WakesDances DEF Steady, Flags
<1>5. CASE Goto(Sysmon, "handoffLock")
  <2>1. <<th[Sysmon].pc, "handoffLock">> \in Onward
    BY <1>3 DEF Onward
  <2>2. QED
    BY <1>1, <1>3, <1>5, <2>1, OnwardDances
<1>6. QED
  BY <1>4, <1>5 DEF handoffCas

LEMMA handoffStoreDances == ASSUME Inv, Inv', DanceInv, handoffStore PROVE DanceInv'
<1> DEFINE c == th[Sysmon]
           w == [c EXCEPT !.pc = "startm", !.seen = {}]
<1>1. Sysmon \in Threads
  BY ThreadsFinite
<1>2. Steady(c)
  BY <1>1, SteadyNow
<1>3. /\ c.pc = "handoffStore" /\ lq' = lq /\ gq' = gq /\ pidle' = pidle /\ slack' = slack
      /\ needspinning' = FALSE /\ lastpoll' = lastpoll /\ waiters' = waiters
      /\ netw' = netw /\ netev' = netev /\ Become(Sysmon, w)
  BY DEF handoffStore, At, Goto, queues, idle, net, others
<1>4. c.hspin
  BY <1>2, <1>3 DEF Steady, Sound, ThreadOK, Spins
<1>5. /\ w.pc = "startm" /\ w.hspin = c.hspin /\ w.p = c.p /\ w.hold = c.hold /\ w.n = c.n
      /\ w.owed = c.owed
  BY <1>2 DEF Steady, Sound, ThreadStates
<1> HIDE DEF w
<1>6. Wakes(w) /\ w.pc \notin PollerPlaces
  BY <1>4, <1>5 DEF Wakes, PollerPlaces
<1>7. QED
  BY <1>1, <1>3, <1>5, <1>6, WakesDances

LEMMA handoffLockDances == ASSUME Inv, Inv', DanceInv, handoffLock PROVE DanceInv'
<1>1. ASSUME Goto(Sysmon, "startm"), UNCHANGED <<pidle, slack>> PROVE DanceInv'
  <2>1. Sysmon \in Threads /\ th[Sysmon].pc = "handoffLock"
    BY ThreadsFinite DEF handoffLock, At
  <2>2. <<th[Sysmon].pc, "startm">> \in Onward
    BY <2>1 DEF Onward
  <2>3. QED
    BY <1>1, <2>1, <2>2, OnwardDances DEF handoffLock, queues, spinning, net
<1>2. ASSUME ~(gq > 0), ~LastP, pidle' = pidle \cup {th[Sysmon].hold},
             slack' = (slack \/ \E p \in Ps : lq[p] > 0), Become(Sysmon, [Thread EXCEPT !.pc = "sysmon"])
      PROVE  DanceInv'
  <2> DEFINE c == th[Sysmon]
             w == [Thread EXCEPT !.pc = "sysmon"]
  <2>1. Sysmon \in Threads
    BY ThreadsFinite
  <2>2. Steady(c)
    BY <2>1, SteadyNow
  <2>3. /\ th' = [th EXCEPT ![Sysmon] = w] /\ c.pc = "handoffLock" /\ gq' = gq /\ lq' = lq
        /\ needspinning' = needspinning /\ lastpoll' = lastpoll /\ waiters' = waiters
        /\ netw' = netw /\ netev' = netev
    BY <1>2 DEF handoffLock, At, Become, Goto, Return, P, queues, idle, spinning, net, others
  <2>4. /\ w.pc = "sysmon" /\ w.n = 0 /\ w.owed = 0 /\ ~w.spin /\ ~w.hspin
    BY <2>2, <2>3, <1>2 DEF Steady, Sound, ThreadStates, Thread
  <2> HIDE DEF w
  <2>5. /\ c.n = 0 /\ c.owed = 0 /\ ~c.spin /\ ~c.hspin /\ c.hold \in Ps
    BY <2>2, <2>3, <1>2 DEF Steady, StepOK, Sound, ThreadStates, ThreadOK, HasP, Spins, Owes, Place,
       WithP, WithoutP, Handoffs, Injects, AnyP
  <2>6. StepOK(w) /\ QueuesFall(w)
    BY <2>2, <2>3, <2>4, <2>5, <1>2 DEF StepOK, Place, QueuesFall, Owns, Enqueue, Steady, Sound
  <2>7. GlobalStep(c, w)
    BY <2>2, <2>3, <2>4, <2>5, <1>2 DEF GlobalStep, Wakes, Stands, Starts, Takes, Bit, Steady, Sound
  <2>8. LocalStep(c, w)
    <3>1. ~slack' => \A p \in Ps : ~(lq[p] > 0)
      BY <1>2
    <3>2. ~slack' => \A p \in Ps : lq'[p] = 0
      BY <2>2, <2>3, <3>1 DEF Steady, Sound
    <3>3. QED
      BY <3>2 DEF LocalStep
  <2>9. SeekStep(c, w)
    <3>1. SUFFICES ASSUME pidle' = Ps PROVE ~lastpoll'
      BY DEF SeekStep
    <3>2. IsFiniteSet(pidle) /\ c.hold \notin pidle
      BY <2>2, <2>5, ThreadsFinite, FS_Subset DEF Steady, Sound, Owns
    <3>3. Cardinality(pidle \cup {c.hold}) = npidle + 1
      BY <3>2, FS_AddElement DEF npidle
    <3>4. gomaxprocs = npidle + 1 /\ npidle \in Nat
      BY <1>2, <3>1, <3>3, IdleCounted DEF gomaxprocs
    <3>5. npidle = gomaxprocs - 1
      BY <3>4
    <3>6. QED
      BY <1>2, <2>3, <3>5 DEF LastP
  <2>10. QED
    BY <2>1, <2>2, <2>3, <2>4, <2>5, <1>2, <2>6, <2>7, <2>8, <2>9, QuietDances DEF PollerPlaces, Steady, Flags
<1>3. QED
  BY <1>1, <1>2 DEF handoffLock

-----------------------------------------------------------------------------
(***************************************************************************)
(* The poller.                                                             *)
(***************************************************************************)
\* A thread with a P keeps it from being idle.
LEMMA BusyP ==
    ASSUME Inv, Inv', NEW t \in Threads, NEW w, th' = [th EXCEPT ![t] = w], w.p \in Ps
    PROVE  pidle' # Ps
<1>1. th'[t] = w
  BY DEF Inv, TypeInv
<1>2. QED
  BY <1>1 DEF Inv, Owned, Owns

LEMMA parkNetDances == ASSUME Inv, Inv', DanceInv, NEW m \in Ms, parkNet(m) PROVE DanceInv'
<1> DEFINE c == th[m]
           w == [c EXCEPT !.pc = "count", !.seen = {}]
<1>1. m \in Threads
  BY DEF Threads
<1>2. Steady(c)
  BY <1>1, SteadyNow
<1>3. /\ th' = [th EXCEPT ![m] = w] /\ c.pc = "run" /\ lq' = lq /\ gq' = gq /\ pidle' = pidle
      /\ needspinning' = needspinning /\ slack' = slack /\ lastpoll' = lastpoll
      /\ waiters' = waiters /\ netw' = netw + 1 /\ netev' = netev
  BY DEF parkNet, At, Become, Goto, Return, P, queues, idle, spinning, net, others
<1>4. /\ w.pc = "count" /\ w.p = c.p /\ w.hold = c.hold /\ w.spin = c.spin /\ w.hspin = c.hspin
      /\ w.n = c.n /\ w.owed = c.owed
  BY <1>2, <1>3 DEF Steady, Sound, ThreadStates
<1> HIDE DEF w
<1>5. /\ c.p \in Ps /\ c.n = 0 /\ ~c.spin /\ ~c.hspin /\ c.hold = NoP /\ c.owed = 0
  BY <1>2, <1>3 DEF Steady, StepOK, Sound, ThreadStates, ThreadOK, HasP, Spins, Owes, Place, WithP,
     WithoutP, Handoffs, Injects
<1>6. StepOK(w) /\ QueuesFall(w)
  BY <1>2, <1>3, <1>4, <1>5 DEF StepOK, Place, QueuesFall, Owns, Enqueue, Steady, Sound
<1>7. GlobalStep(c, w)
  BY <1>2, <1>3, <1>4, <1>5 DEF GlobalStep, Wakes, Stands, Starts, Takes, Bit, Steady, Sound
<1>8. LocalStep(c, w)
  BY <1>2, <1>3, <1>4, <1>5 DEF LocalStep, Wakes, Looks, Steady, Sound
<1>9. Flags' /\ LastStep(c, w)
  BY <1>2, <1>3, <1>4, <1>5 DEF Flags, LastStep, Polls, Steady, Sound, ThreadStates
<1>10. /\ Late(w) = 1 /\ Late(c) = 0 /\ Fetched(w) = 0 /\ Fetched(c) = 0
  BY <1>2, <1>3, <1>4, <1>5 DEF Late, Fetched, Bit, Steady, Sound, ThreadStates
<1>11. WaitersStep(c, w)
  BY <1>2, <1>3, <1>5, <1>10 DEF WaitersStep, Steady, Sound, Flags, ThreadStates
<1>12. SeekStep(c, w)
  BY <1>1, <1>2, <1>3, <1>4, <1>5, BusyP DEF SeekStep
<1>13. QED
  BY <1>1, <1>3, <1>6, <1>7, <1>8, <1>9, <1>11, <1>12, StepDances

LEMMA netpollAdjustWaitersDances ==
    ASSUME Inv, Inv', DanceInv, NEW m \in Ms, netpollAdjustWaiters(m)
    PROVE  DanceInv'
<1> DEFINE c == th[m]
           w == [c EXCEPT !.pc = "find", !.seen = {}]
<1>1. m \in Threads
  BY DEF Threads
<1>2. Steady(c)
  BY <1>1, SteadyNow
<1>3. /\ th' = [th EXCEPT ![m] = w] /\ c.pc = "count" /\ lq' = lq /\ gq' = gq /\ pidle' = pidle
      /\ needspinning' = needspinning /\ slack' = slack /\ lastpoll' = lastpoll
      /\ waiters' = waiters + 1 /\ netw' = netw /\ netev' = netev
  BY DEF netpollAdjustWaiters, At, Become, Goto, Return, P, queues, idle, spinning, net, others
<1>4. /\ w.pc = "find" /\ w.p = c.p /\ w.hold = c.hold /\ w.spin = c.spin /\ w.hspin = c.hspin
      /\ w.n = c.n /\ w.owed = c.owed
  BY <1>2, <1>3 DEF Steady, Sound, ThreadStates
<1> HIDE DEF w
<1>5. /\ c.p \in Ps /\ c.n = 0 /\ ~c.spin /\ ~c.hspin /\ c.hold = NoP /\ c.owed = 0
  BY <1>2, <1>3 DEF Steady, StepOK, Sound, ThreadStates, ThreadOK, HasP, Spins, Owes, Place, WithP,
     WithoutP, Handoffs, Injects
<1>6. StepOK(w) /\ QueuesFall(w)
  BY <1>2, <1>3, <1>4, <1>5 DEF StepOK, Place, QueuesFall, Owns, Enqueue, Steady, Sound
<1>7. GlobalStep(c, w)
  BY <1>2, <1>3, <1>4, <1>5 DEF GlobalStep, Wakes, Stands, Starts, Takes, Bit, Steady, Sound
<1>8. LocalStep(c, w)
  BY <1>2, <1>3, <1>4, <1>5 DEF LocalStep, Wakes, Looks, Steady, Sound
<1>9. Flags' /\ LastStep(c, w)
  BY <1>2, <1>3, <1>4, <1>5 DEF Flags, LastStep, Polls, Steady, Sound, ThreadStates
<1>10. /\ Late(w) = 0 /\ Late(c) = 1 /\ Fetched(w) = 0 /\ Fetched(c) = 0
  BY <1>2, <1>3, <1>4, <1>5 DEF Late, Fetched, Bit, Steady, Sound, ThreadStates
<1>11. WaitersStep(c, w)
  BY <1>2, <1>3, <1>5, <1>10 DEF WaitersStep, Steady, Sound, Flags, ThreadStates
<1>12. SeekStep(c, w)
  BY <1>1, <1>2, <1>3, <1>4, <1>5, BusyP DEF SeekStep
<1>13. QED
  BY <1>1, <1>3, <1>6, <1>7, <1>8, <1>9, <1>11, <1>12, StepDances

LEMMA findPollDances == ASSUME Inv, Inv', DanceInv, NEW m \in Ms, findPoll(m) PROVE DanceInv'
<1>1. m \in Threads
  BY DEF Threads
<1>2. Steady(th[m])
  BY <1>1, SteadyNow
<1>3. ASSUME netev > 0, netev' = 0, Become(m, RunOne(th[m], netev, npidle)) PROVE DanceInv'
  <2> DEFINE c == th[m]
             w == RunOne(c, netev, npidle)
  <2>1. m \in Threads
    BY DEF Threads
  <2>2. Steady(c)
    BY <2>1, SteadyNow
  <2>3. /\ th' = [th EXCEPT ![m] = w] /\ c.pc = "poll" /\ lq' = lq /\ gq' = gq
        /\ pidle' = pidle /\ needspinning' = needspinning /\ slack' = slack /\ lastpoll' = lastpoll
        /\ waiters' = waiters /\ netw' = netw /\ netev' = 0
    BY <1>3 DEF findPoll, At, Become, Goto, Return, P, queues, idle, spinning, net, others
  <2>4. /\ w.pc = (IF w.n > 0 THEN "injectG" ELSE IF netev - 1 > 0 THEN "injectP" ELSE "adjust")
        /\ w.n \in Nat /\ w.owed = netev /\ w.p = c.p /\ w.spin = c.spin /\ w.hspin = c.hspin
    <3>1. Injector(w, c, netev - 1, netev)
      BY <1>3, <2>2, IdleCounted, RunOneFields DEF Steady, Sound
    <3>2. QED
      BY <3>1 DEF Injector
  <2> HIDE DEF w
  <2>5. /\ c.p \in Ps /\ c.n = 0 /\ ~c.hspin /\ c.owed = 0 /\ c.spin \in BOOLEAN
    BY <2>2, <2>3, <1>3 DEF Steady, StepOK, Sound, ThreadStates, ThreadOK, HasP, Spins, Owes, Place,
       WithP, WithoutP, Handoffs, Injects
  <2>6. StepOK(w) /\ QueuesFall(w)
    BY <2>2, <2>3, <2>4, <2>5, <1>3 DEF StepOK, Place, QueuesFall, Owns, Enqueue, Steady, Sound
  <2>7. GlobalStep(c, w)
    BY <2>2, <2>3, <2>4, <2>5, <1>3 DEF GlobalStep, Wakes, Stands, Starts, Takes, Bit, Steady, Sound
  <2>8. LocalStep(c, w)
    BY <2>2, <2>3, <2>4, <2>5, <1>3 DEF LocalStep, Wakes, Looks, Steady, Sound
  <2>9. Flags' /\ LastStep(c, w)
    BY <2>2, <2>3, <2>4, <2>5, <1>3 DEF Flags, LastStep, Polls, Steady, Sound, ThreadStates
  <2>10. /\ Late(w) = 0 /\ Late(c) = 0 /\ Fetched(w) = netev /\ Fetched(c) = 0
    BY <2>2, <2>3, <2>4, <2>5, <1>3 DEF Late, Fetched, Bit, Steady, Sound, ThreadStates
  <2>11. WaitersStep(c, w)
    BY <2>2, <2>3, <2>5, <2>10, <1>3 DEF WaitersStep, Steady, Sound, Flags, ThreadStates
  <2>12. SeekStep(c, w)
    BY <2>1, <2>2, <2>3, <2>4, <2>5, <1>3, BusyP DEF SeekStep
  <2>13. QED
    BY <2>1, <2>3, <2>6, <2>7, <2>8, <2>9, <2>11, <2>12, StepDances
<1>4. ASSUME Goto(m, "steal"), netev' = netev PROVE DanceInv'
  <2>1. <<th[m].pc, "steal">> \in Onward /\ th[m].pc = "poll"
    BY DEF findPoll, At, Onward
  <2>2. QED
    BY <1>1, <1>4, <2>1, OnwardDances DEF findPoll, queues, idle, spinning, others
<1>5. QED
  BY <1>3, <1>4 DEF findPoll

LEMMA FetchedType == ASSUME Inv PROVE FetchedAll(th) \in Nat
<1> DEFINE f == [t \in Threads |-> Fetched(th[t])]
<1>1. f \in [Threads -> Nat]
  BY StandsType DEF Inv, TypeInv
<1>2. FetchedAll(th) = Sum(f, Threads)
  BY DEF FetchedAll
<1> HIDE DEF f
<1>3. QED
  BY <1>1, <1>2, ThreadsFinite, SumMoves

LEMMA findMayBlockDances ==
    ASSUME Inv, Inv', DanceInv, NEW m \in Ms, findMayBlock(m)
    PROVE  DanceInv'
<1>1. ASSUME lastpoll, lastpoll' = FALSE, Goto(m, "polling") PROVE DanceInv'
  <2> DEFINE c == th[m]
             w == [c EXCEPT !.pc = "polling", !.seen = {}]
  <2>1. m \in Threads
    BY DEF Threads
  <2>2. Steady(c)
    BY <2>1, SteadyNow
  <2>3. /\ th' = [th EXCEPT ![m] = w] /\ c.pc = "mayBlock" /\ lq' = lq /\ gq' = gq
        /\ pidle' = pidle /\ needspinning' = needspinning /\ slack' = slack /\ waiters' = waiters
        /\ netw' = netw /\ netev' = netev
    BY <1>1 DEF findMayBlock, At, Become, Goto, Return, P, queues, idle, spinning, net, others
  <2>4. /\ w.pc = "polling" /\ w.p = c.p /\ w.hold = c.hold /\ w.spin = c.spin /\ w.hspin = c.hspin
        /\ w.n = c.n /\ w.owed = c.owed
    BY <2>2, <2>3, <1>1 DEF Steady, Sound, ThreadStates
  <2> HIDE DEF w
  <2>5. /\ c.p = NoP /\ c.n = 0 /\ ~c.spin /\ ~c.hspin /\ c.hold = NoP /\ c.owed = 0
    BY <2>2, <2>3, <1>1 DEF Steady, StepOK, Sound, ThreadStates, ThreadOK, HasP, Spins, Owes, Place,
       WithP, WithoutP, Handoffs, Injects
  <2>6. StepOK(w) /\ QueuesFall(w)
    BY <2>2, <2>3, <2>4, <2>5, <1>1 DEF StepOK, Place, QueuesFall, Owns, Enqueue, Steady, Sound
  <2>7. GlobalStep(c, w)
    BY <2>2, <2>3, <2>4, <2>5, <1>1 DEF GlobalStep, Wakes, Stands, Starts, Takes, Bit, Steady, Sound
  <2>8. LocalStep(c, w)
    BY <2>2, <2>3, <2>4, <2>5, <1>1 DEF LocalStep, Wakes, Looks, Steady, Sound
  <2>9. Flags' /\ LastStep(c, w)
    BY <2>2, <2>3, <2>4, <2>5, <1>1 DEF Flags, LastStep, Polls, Steady, Sound, ThreadStates
  <2>10. /\ Late(w) = 0 /\ Late(c) = 0 /\ Fetched(w) = 0 /\ Fetched(c) = 0
    BY <2>2, <2>3, <2>4, <2>5, <1>1 DEF Late, Fetched, Bit, Steady, Sound, ThreadStates
  <2>11. WaitersStep(c, w)
    BY <2>2, <2>3, <2>5, <2>10, <1>1 DEF WaitersStep, Steady, Sound, Flags, ThreadStates
  <2>12. SeekStep(c, w)
    BY <2>1, <2>2, <2>3, <2>4, <2>5, <1>1 DEF SeekStep
  <2>13. QED
    BY <2>1, <2>3, <2>6, <2>7, <2>8, <2>9, <2>11, <2>12, StepDances
<1>2. ASSUME waiters = 0 \/ ~lastpoll, lastpoll' = lastpoll, Become(m, Thread) PROVE DanceInv'
  <2> DEFINE c == th[m]
             w == Thread
  <2>1. m \in Threads
    BY DEF Threads
  <2>2. Steady(c)
    BY <2>1, SteadyNow
  <2>3. /\ th' = [th EXCEPT ![m] = w] /\ c.pc = "mayBlock" /\ lq' = lq /\ gq' = gq
        /\ pidle' = pidle /\ needspinning' = needspinning /\ slack' = slack /\ waiters' = waiters
        /\ netw' = netw /\ netev' = netev
    BY <1>2 DEF findMayBlock, At, Become, Goto, Return, P, queues, idle, spinning, net, others
  <2>4. /\ w.pc = "parked" /\ w.p = NoP /\ w.hold = NoP /\ ~w.spin /\ ~w.hspin
        /\ w.n = 0 /\ w.owed = 0
    BY ThreadFields
  <2> HIDE DEF w
  <2>5. /\ c.p = NoP /\ c.n = 0 /\ ~c.spin /\ ~c.hspin /\ c.hold = NoP /\ c.owed = 0
    BY <2>2, <2>3, <1>2 DEF Steady, StepOK, Sound, ThreadStates, ThreadOK, HasP, Spins, Owes, Place,
       WithP, WithoutP, Handoffs, Injects
  <2>6. StepOK(w) /\ QueuesFall(w)
    BY <2>2, <2>3, <2>4, <2>5, <1>2 DEF StepOK, Place, QueuesFall, Owns, Enqueue, Steady, Sound
  <2>7. GlobalStep(c, w)
    BY <2>2, <2>3, <2>4, <2>5, <1>2 DEF GlobalStep, Wakes, Stands, Starts, Takes, Bit, Steady, Sound
  <2>8. LocalStep(c, w)
    BY <2>2, <2>3, <2>4, <2>5, <1>2 DEF LocalStep, Wakes, Looks, Steady, Sound
  <2>9. Flags' /\ LastStep(c, w)
    BY <2>2, <2>3, <2>4, <2>5, <1>2 DEF Flags, LastStep, Polls, Steady, Sound, ThreadStates
  <2>10. /\ Late(w) = 0 /\ Late(c) = 0 /\ Fetched(w) = 0 /\ Fetched(c) = 0
    BY <2>2, <2>3, <2>4, <2>5, <1>2 DEF Late, Fetched, Bit, Steady, Sound, ThreadStates
  <2>11. WaitersStep(c, w)
    BY <2>2, <2>3, <2>5, <2>10, <1>2 DEF WaitersStep, Steady, Sound, Flags, ThreadStates
  <2>12. SeekStep(c, w)
    <3>1. SUFFICES ASSUME pidle' = Ps, lastpoll' PROVE netw' + netev' = 0
      BY DEF SeekStep
    <3>2. \A u \in Threads : Late(th[u]) = 0
      <4>1. SUFFICES ASSUME NEW u \in Threads, th[u].pc = "count" PROVE FALSE
        BY DEF Late, Bit
      <4>2. th[u].p \in Ps
        BY <4>1, Facts DEF ThreadOK, HasP, WithP
      <4>3. QED
        BY <2>3, <3>1, <4>2, Facts DEF Owns
    <3>3. LateAll(th) = 0
      BY <3>2, SumOfZeros DEF LateAll
    <3>4. FetchedAll(th) \in Nat
      BY FetchedType
    <3>5. waiters + 0 = netw + netev + FetchedAll(th)
      BY <3>3 DEF DanceInv, WaitersInv
    <3>6. waiters = 0 /\ waiters \in Int /\ netw \in Nat /\ netev \in Nat
      BY <1>2, <2>2, <3>1 DEF Steady, Sound, Flags
    <3>7. netw + netev = 0
      BY <3>4, <3>5, <3>6
    <3>8. QED
      BY <2>3, <3>7
  <2>13. QED
    BY <2>1, <2>3, <2>6, <2>7, <2>8, <2>9, <2>11, <2>12, StepDances
<1>3. lastpoll \in BOOLEAN
  BY DEF DanceInv, Flags
<1>4. CASE AnyWaiters /\ lastpoll
  BY <1>1, <1>4 DEF findMayBlock
<1>5. CASE AnyWaiters /\ ~lastpoll
  BY <1>2, <1>3, <1>5 DEF findMayBlock
<1>6. CASE ~AnyWaiters
  BY <1>2, <1>6 DEF findMayBlock, AnyWaiters
<1>7. QED
  BY <1>4, <1>5, <1>6

LEMMA findPollingDances == ASSUME Inv, Inv', DanceInv, NEW m \in Ms, findPolling(m) PROVE DanceInv'
<1> DEFINE c == th[m]
           w == [c EXCEPT !.pc = "polled", !.rest = netev]
<1>1. m \in Threads
  BY DEF Threads
<1>2. Steady(c)
  BY <1>1, SteadyNow
<1>3. /\ th' = [th EXCEPT ![m] = w] /\ c.pc = "polling" /\ lq' = lq /\ gq' = gq /\ pidle' = pidle
      /\ needspinning' = needspinning /\ slack' = slack /\ lastpoll' = lastpoll
      /\ waiters' = waiters /\ netw' = netw /\ netev' = 0
  BY DEF findPolling, At, Become, Goto, Return, P, queues, idle, spinning, net, others
<1>4. /\ w.pc = "polled" /\ w.rest = netev /\ w.p = c.p /\ w.hold = c.hold /\ w.spin = c.spin
      /\ w.hspin = c.hspin /\ w.n = c.n /\ w.owed = c.owed
  BY <1>2, <1>3 DEF Steady, Sound, ThreadStates
<1> HIDE DEF w
<1>5. /\ c.p = NoP /\ c.n = 0 /\ ~c.spin /\ ~c.hspin /\ c.hold = NoP /\ c.owed = 0
  BY <1>2, <1>3 DEF Steady, StepOK, Sound, ThreadStates, ThreadOK, HasP, Spins, Owes, Place, WithP,
     WithoutP, Handoffs, Injects
<1>6. StepOK(w) /\ QueuesFall(w)
  BY <1>2, <1>3, <1>4, <1>5 DEF StepOK, Place, QueuesFall, Owns, Enqueue, Steady, Sound
<1>7. GlobalStep(c, w)
  BY <1>2, <1>3, <1>4, <1>5 DEF GlobalStep, Wakes, Stands, Starts, Takes, Bit, Steady, Sound
<1>8. LocalStep(c, w)
  BY <1>2, <1>3, <1>4, <1>5 DEF LocalStep, Wakes, Looks, Steady, Sound
<1>9. Flags' /\ LastStep(c, w)
  BY <1>2, <1>3, <1>4, <1>5 DEF Flags, LastStep, Polls, Steady, Sound, ThreadStates
<1>10. /\ Late(w) = 0 /\ Late(c) = 0 /\ Fetched(w) = netev /\ Fetched(c) = 0
  BY <1>2, <1>3, <1>4, <1>5 DEF Late, Fetched, Bit, Steady, Sound, ThreadStates
<1>11. WaitersStep(c, w)
  BY <1>2, <1>3, <1>5, <1>10 DEF WaitersStep, Steady, Sound, Flags, ThreadStates
<1>12. SeekStep(c, w)
  BY <1>1, <1>2, <1>3, <1>4, <1>5 DEF SeekStep, Steady, Polls
<1>13. QED
  BY <1>1, <1>3, <1>6, <1>7, <1>8, <1>9, <1>11, <1>12, StepDances

LEMMA findPolledDances == ASSUME Inv, Inv', DanceInv, NEW m \in Ms, findPolled(m) PROVE DanceInv'
<1> DEFINE c == th[m]
           w == [c EXCEPT !.pc = "pollP", !.seen = {}]
<1>1. m \in Threads
  BY DEF Threads
<1>2. Steady(c)
  BY <1>1, SteadyNow
<1>3. /\ th' = [th EXCEPT ![m] = w] /\ c.pc = "polled" /\ lq' = lq /\ gq' = gq /\ pidle' = pidle
      /\ needspinning' = needspinning /\ slack' = slack /\ lastpoll' = TRUE /\ waiters' = waiters
      /\ netw' = netw /\ netev' = netev
  BY DEF findPolled, At, Become, Goto, Return, P, queues, idle, spinning, net, others
<1>4. /\ w.pc = "pollP" /\ w.rest = c.rest /\ w.p = c.p /\ w.hold = c.hold /\ w.spin = c.spin
      /\ w.hspin = c.hspin /\ w.n = c.n /\ w.owed = c.owed
  BY <1>2, <1>3 DEF Steady, Sound, ThreadStates
<1> HIDE DEF w
<1>5. /\ c.p = NoP /\ c.n = 0 /\ ~c.spin /\ ~c.hspin /\ c.hold = NoP /\ c.owed = 0
  BY <1>2, <1>3 DEF Steady, StepOK, Sound, ThreadStates, ThreadOK, HasP, Spins, Owes, Place, WithP,
     WithoutP, Handoffs, Injects
<1>6. StepOK(w) /\ QueuesFall(w)
  BY <1>2, <1>3, <1>4, <1>5 DEF StepOK, Place, QueuesFall, Owns, Enqueue, Steady, Sound
<1>7. GlobalStep(c, w)
  BY <1>2, <1>3, <1>4, <1>5 DEF GlobalStep, Wakes, Stands, Starts, Takes, Bit, Steady, Sound
<1>8. LocalStep(c, w)
  BY <1>2, <1>3, <1>4, <1>5 DEF LocalStep, Wakes, Looks, Steady, Sound
<1>9. Flags' /\ LastStep(c, w)
  BY <1>2, <1>3, <1>4, <1>5 DEF Flags, LastStep, Polls, Steady, Sound, ThreadStates
<1>10. /\ Late(w) = 0 /\ Late(c) = 0 /\ Fetched(w) = c.rest /\ Fetched(c) = c.rest
  BY <1>2, <1>3, <1>4, <1>5 DEF Late, Fetched, Bit, Steady, Sound, ThreadStates
<1>11. WaitersStep(c, w)
  BY <1>2, <1>3, <1>5, <1>10 DEF WaitersStep, Steady, Sound, Flags, ThreadStates
<1>12. SeekStep(c, w)
  BY <1>1, <1>2, <1>3, <1>4, <1>5 DEF SeekStep, Seeks
<1>13. QED
  BY <1>1, <1>3, <1>6, <1>7, <1>8, <1>9, <1>11, <1>12, StepDances

LEMMA findPollPDances == ASSUME Inv, Inv', DanceInv, NEW m \in Ms, findPollP(m) PROVE DanceInv'
<1>1. ASSUME th[m].rest # 0, NEW p \in pidle, pidle' = pidle \ {p},
             Become(m, RunOne([[th[m] EXCEPT !.was = FALSE] EXCEPT !.p = p], th[m].rest, npidle - 1))
      PROVE  DanceInv'
  <2> DEFINE c == th[m]
             w == RunOne([[c EXCEPT !.was = FALSE] EXCEPT !.p = p], c.rest, npidle - 1)
  <2>1. m \in Threads
    BY DEF Threads
  <2>2. Steady(c)
    BY <2>1, SteadyNow
  <2>3. /\ th' = [th EXCEPT ![m] = w] /\ c.pc = "pollP" /\ lq' = lq /\ gq' = gq
        /\ needspinning' = needspinning /\ slack' = slack /\ lastpoll' = lastpoll
        /\ waiters' = waiters /\ netw' = netw /\ netev' = netev
    BY <1>1 DEF findPollP, At, Become, Goto, Return, P, queues, idle, spinning, net, others
  <2>4. /\ c.p = NoP /\ c.n = 0 /\ ~c.spin /\ ~c.hspin /\ c.hold = NoP /\ c.owed = 0
        /\ c.rest \in Nat /\ c.rest > 0 /\ p \in Ps
    BY <2>2, <2>3, <1>1 DEF Steady, StepOK, Sound, ThreadStates, ThreadOK, HasP, Spins, Owes, Place,
       WithP, WithoutP, Handoffs, Injects
  <2>5. /\ w.pc = (IF w.n > 0 THEN "injectG" ELSE IF c.rest - 1 > 0 THEN "injectP" ELSE "adjust")
        /\ w.n \in Nat /\ w.owed = c.rest /\ w.p = p /\ w.spin = c.spin /\ w.hspin = c.hspin
    <3> DEFINE d == [[c EXCEPT !.was = FALSE] EXCEPT !.p = p]
    <3>1. /\ d \in ThreadStates /\ d.p = p /\ d.spin = c.spin /\ d.hspin = c.hspin
      BY <2>2, <2>4 DEF Steady, Sound, ThreadStates, AnyP
    <3>2. npidle - 1 \in Nat
      BY <1>1, IdleCounted
    <3> HIDE DEF d
    <3>3. Injector(RunOne(d, c.rest, npidle - 1), d, c.rest - 1, c.rest)
      BY <2>4, <3>1, <3>2, RunOneFields
    <3>4. QED
      BY <3>1, <3>3 DEF Injector, d
  <2> HIDE DEF w
  <2>6. StepOK(w) /\ QueuesFall(w)
    BY <2>2, <2>3, <2>4, <2>5, <1>1 DEF StepOK, Place, QueuesFall, Owns, Enqueue, Steady, Sound
  <2>7. GlobalStep(c, w)
    BY <2>2, <2>3, <2>4, <2>5, <1>1 DEF GlobalStep, Wakes, Stands, Starts, Takes, Bit, Steady, Sound
  <2>8. LocalStep(c, w)
    BY <2>2, <2>3, <2>4, <2>5, <1>1 DEF LocalStep, Wakes, Looks, Steady, Sound
  <2>9. Flags' /\ LastStep(c, w)
    BY <2>2, <2>3, <2>4, <2>5, <1>1 DEF Flags, LastStep, Polls, Steady, Sound, ThreadStates
  <2>10. /\ Late(w) = 0 /\ Late(c) = 0 /\ Fetched(w) = c.rest /\ Fetched(c) = c.rest
    BY <2>2, <2>3, <2>4, <2>5, <1>1 DEF Late, Fetched, Bit, Steady, Sound, ThreadStates
  <2>11. WaitersStep(c, w)
    BY <2>2, <2>3, <2>5, <2>10, <1>1 DEF WaitersStep, Steady, Sound, Flags, ThreadStates
  <2>12. SeekStep(c, w)
    BY <2>1, <2>2, <2>3, <2>4, <2>5, <1>1, BusyP DEF SeekStep
  <2>13. QED
    BY <2>1, <2>3, <2>6, <2>7, <2>8, <2>9, <2>11, <2>12, StepDances
<1>2. ASSUME th[m].rest # 0, pidle = {}, pidle' = pidle,
             Become(m, [Inject([th[m] EXCEPT !.was = FALSE], th[m].rest, 0) EXCEPT !.owed = th[m].rest])
      PROVE  DanceInv'
  <2> DEFINE c == th[m]
             w == [Inject([c EXCEPT !.was = FALSE], c.rest, 0) EXCEPT !.owed = c.rest]
  <2>1. m \in Threads
    BY DEF Threads
  <2>2. Steady(c)
    BY <2>1, SteadyNow
  <2>3. /\ th' = [th EXCEPT ![m] = w] /\ c.pc = "pollP" /\ lq' = lq /\ gq' = gq
        /\ needspinning' = needspinning /\ slack' = slack /\ lastpoll' = lastpoll
        /\ waiters' = waiters /\ netw' = netw /\ netev' = netev
    BY <1>2 DEF findPollP, At, Become, Goto, Return, P, queues, idle, spinning, net, others
  <2>4. /\ c.p = NoP /\ c.n = 0 /\ ~c.spin /\ ~c.hspin /\ c.hold = NoP /\ c.owed = 0
        /\ c.rest \in Nat /\ c.rest > 0
    BY <2>2, <2>3, <1>2 DEF Steady, StepOK, Sound, ThreadStates, ThreadOK, HasP, Spins, Owes, Place,
       WithP, WithoutP, Handoffs, Injects
  <2>5. /\ w.pc = (IF w.n > 0 THEN "injectG" ELSE IF c.rest > 0 THEN "injectP" ELSE "adjust")
        /\ w.n \in Nat /\ w.owed = c.rest /\ w.p = c.p /\ w.spin = c.spin /\ w.hspin = c.hspin
    <3> DEFINE d == [c EXCEPT !.was = FALSE]
    <3>1. d \in ThreadStates /\ d.p = c.p /\ d.spin = c.spin /\ d.hspin = c.hspin /\ 0 \in Nat
      BY <2>2 DEF Steady, Sound, ThreadStates
    <3> HIDE DEF c, d
    <3>2. Injector([Inject(d, c.rest, 0) EXCEPT !.owed = c.rest], d, c.rest, c.rest)
      BY <2>4, <3>1, InjectFields
    <3>3. w = [Inject(d, c.rest, 0) EXCEPT !.owed = c.rest]
      BY DEF d
    <3> HIDE DEF w
    <3>4. QED
      BY <3>1, <3>2, <3>3 DEF Injector
  <2> HIDE DEF w
  <2>6. StepOK(w) /\ QueuesFall(w)
    BY <2>2, <2>3, <2>4, <2>5, <1>2 DEF StepOK, Place, QueuesFall, Owns, Enqueue, Steady, Sound
  <2>7. GlobalStep(c, w)
    BY <2>2, <2>3, <2>4, <2>5, <1>2 DEF GlobalStep, Wakes, Stands, Starts, Takes, Bit, Steady, Sound
  <2>8. LocalStep(c, w)
    BY <2>2, <2>3, <2>4, <2>5, <1>2 DEF LocalStep, Wakes, Looks, Steady, Sound
  <2>9. Flags' /\ LastStep(c, w)
    BY <2>2, <2>3, <2>4, <2>5, <1>2 DEF Flags, LastStep, Polls, Steady, Sound, ThreadStates
  <2>10. /\ Late(w) = 0 /\ Late(c) = 0 /\ Fetched(w) = c.rest /\ Fetched(c) = c.rest
    BY <2>2, <2>3, <2>4, <2>5, <1>2 DEF Late, Fetched, Bit, Steady, Sound, ThreadStates
  <2>11. WaitersStep(c, w)
    BY <2>2, <2>3, <2>5, <2>10, <1>2 DEF WaitersStep, Steady, Sound, Flags, ThreadStates
  <2>12. SeekStep(c, w)
    BY <2>1, <2>2, <2>3, <2>4, <2>5, <1>2, SchedAssumption DEF SeekStep
  <2>13. QED
    BY <2>1, <2>3, <2>6, <2>7, <2>8, <2>9, <2>11, <2>12, StepDances
<1>3. ASSUME th[m].rest = 0, NEW p \in pidle, pidle' = pidle \ {p}, Become(m, PolledNone(th[m], p))
      PROVE  DanceInv'
  <2> DEFINE c == th[m]
             w == PolledNone(c, p)
  <2>1. m \in Threads
    BY DEF Threads
  <2>2. Steady(c)
    BY <2>1, SteadyNow
  <2>3. /\ th' = [th EXCEPT ![m] = w] /\ c.pc = "pollP" /\ lq' = lq /\ gq' = gq
        /\ needspinning' = needspinning /\ slack' = slack /\ lastpoll' = lastpoll
        /\ waiters' = waiters /\ netw' = netw /\ netev' = netev
    BY <1>3 DEF findPollP, At, Become, queues, idle, spinning, net, others
  <2>4. /\ c.p = NoP /\ c.n = 0 /\ ~c.spin /\ ~c.hspin /\ c.hold = NoP /\ c.owed = 0
        /\ c.rest = 0 /\ p \in Ps
    BY <2>2, <2>3, <1>3 DEF Steady, StepOK, Sound, ThreadStates, ThreadOK, HasP, Spins, Owes, Place,
       WithP, WithoutP, Handoffs, Injects
  <2>5. /\ w.pc \in {"respin", "find"} /\ w.p = p /\ w.spin = c.spin /\ w.hspin = c.hspin
        /\ w.n = c.n /\ w.owed = c.owed /\ w.rest = c.rest
    <3>1. CASE c.was
      <4>1. w = Respin(c, p, "find")
        BY <3>1 DEF PolledNone
      <4> HIDE DEF w
      <4>2. QED
        BY <2>2, <2>4, <4>1, RespinFields DEF Steady, Sound
    <3>2. CASE ~c.was
      <4>1. w = [c EXCEPT !.pc = "find", !.p = p]
        BY <3>2 DEF PolledNone
      <4> HIDE DEF w
      <4>2. QED
        BY <2>2, <4>1 DEF Steady, Sound, ThreadStates
    <3>3. QED
      BY <3>1, <3>2
  <2> HIDE DEF w
  <2>6. StepOK(w) /\ QueuesFall(w)
    BY <2>2, <2>3, <2>4, <2>5, <1>3 DEF StepOK, Place, QueuesFall, Owns, Steady, Sound
  <2>7. GlobalStep(c, w)
    BY <2>2, <2>3, <2>4, <2>5, <1>3 DEF GlobalStep, Wakes, Stands, Starts, Takes, Bit, Steady, Sound
  <2>8. LocalStep(c, w)
    BY <2>2, <2>3, <2>4, <2>5, <1>3 DEF LocalStep, Wakes, Looks, Steady, Sound
  <2>9. Flags' /\ LastStep(c, w)
    BY <2>2, <2>3, <2>4, <2>5, <1>3 DEF Flags, LastStep, Polls, Steady, Sound, ThreadStates
  <2>10. /\ Late(w) = 0 /\ Late(c) = 0 /\ Fetched(w) = 0 /\ Fetched(c) = 0
    BY <2>2, <2>3, <2>4, <2>5, <1>3 DEF Late, Fetched, Bit, Steady, Sound, ThreadStates
  <2>11. WaitersStep(c, w)
    BY <2>2, <2>3, <2>5, <2>10, <1>3 DEF WaitersStep, Steady, Sound, Flags, ThreadStates
  <2>12. SeekStep(c, w)
    BY <2>1, <2>2, <2>3, <2>4, <2>5, <1>3, BusyP DEF SeekStep
  <2>13. QED
    BY <2>1, <2>3, <2>6, <2>7, <2>8, <2>9, <2>11, <2>12, StepDances
<1>4. ASSUME th[m].rest = 0, pidle = {}, pidle' = pidle, Become(m, Thread) PROVE DanceInv'
  <2> DEFINE c == th[m]
             w == Thread
  <2>1. m \in Threads
    BY DEF Threads
  <2>2. Steady(c)
    BY <2>1, SteadyNow
  <2>3. /\ th' = [th EXCEPT ![m] = w] /\ c.pc = "pollP" /\ lq' = lq /\ gq' = gq
        /\ needspinning' = needspinning /\ slack' = slack /\ lastpoll' = lastpoll
        /\ waiters' = waiters /\ netw' = netw /\ netev' = netev
    BY <1>4 DEF findPollP, At, Become, queues, idle, spinning, net, others
  <2>4. /\ w.pc = "parked" /\ w.p = NoP /\ ~w.spin /\ ~w.hspin /\ w.n = 0 /\ w.owed = 0
    BY ThreadFields
  <2> HIDE DEF w
  <2>5. /\ c.p = NoP /\ c.n = 0 /\ ~c.spin /\ ~c.hspin /\ c.hold = NoP /\ c.owed = 0
    BY <2>2, <2>3, <1>4 DEF Steady, StepOK, Sound, ThreadStates, ThreadOK, HasP, Spins, Owes, Place,
       WithP, WithoutP, Handoffs, Injects
  <2>6. StepOK(w) /\ QueuesFall(w)
    BY <2>2, <2>3, <2>4, <2>5, <1>4 DEF StepOK, Place, QueuesFall, Owns, Steady, Sound
  <2>7. GlobalStep(c, w)
    BY <1>4 DEF GlobalStep
  <2>8. LocalStep(c, w)
    BY <2>2, <2>3, <2>4, <2>5, <1>4 DEF LocalStep, Wakes, Looks, Steady, Sound
  <2>9. Flags' /\ LastStep(c, w)
    BY <2>2, <2>3, <2>4, <2>5, <1>4 DEF Flags, LastStep, Polls, Steady, Sound, ThreadStates
  <2>10. /\ Late(w) = 0 /\ Late(c) = 0 /\ Fetched(w) = 0 /\ Fetched(c) = 0
    BY <2>2, <2>3, <2>4, <2>5, <1>4 DEF Late, Fetched, Bit, Steady, Sound, ThreadStates
  <2>11. WaitersStep(c, w)
    BY <2>2, <2>3, <2>5, <2>10, <1>4 DEF WaitersStep, Steady, Sound, Flags, ThreadStates
  <2>12. SeekStep(c, w)
    BY <1>4, SchedAssumption DEF SeekStep
  <2>13. QED
    BY <2>1, <2>3, <2>6, <2>7, <2>8, <2>9, <2>11, <2>12, StepDances
<1>5. [th[m] EXCEPT !.was = FALSE].rest = th[m].rest
  <2>1. th[m] \in ThreadStates
    BY Facts DEF Threads
  <2>2. QED
    BY <2>1 DEF ThreadStates
<1>6. QED
  BY <1>1, <1>2, <1>3, <1>4, <1>5 DEF findPollP

LEMMA adjustWaitersDances ==
    ASSUME Inv, Inv', DanceInv, NEW t \in Threads, adjustWaiters(t)
    PROVE  DanceInv'
<1>1. ASSUME NEW to \in {"sysmon", "parked", "run", "reset"}, NEW s,
             th' = [th EXCEPT ![t] = [th[t] EXCEPT !.owed = 0, !.pc = to, !.seen = s]]
      PROVE  DanceInv'
  <2> DEFINE c == th[t]
             w == [c EXCEPT !.owed = 0, !.pc = to, !.seen = s]
  <2>1. t \in Threads
    OBVIOUS
  <2>2. Steady(c)
    BY <2>1, SteadyNow
  <2>3. /\ th' = [th EXCEPT ![t] = w] /\ c.pc = "adjust" /\ lq' = lq /\ gq' = gq /\ pidle' = pidle
        /\ needspinning' = needspinning /\ slack' = slack /\ lastpoll' = lastpoll
        /\ waiters' = waiters - c.owed /\ netw' = netw /\ netev' = netev
    BY <1>1 DEF adjustWaiters, At, Become, Goto, Return, P, queues, idle, spinning, net, others
  <2>4. /\ w.pc = to /\ w.owed = 0 /\ w.p = c.p /\ w.hold = c.hold /\ w.spin = c.spin
        /\ w.hspin = c.hspin /\ w.n = c.n
    BY <2>2, <2>3, <1>1 DEF Steady, Sound, ThreadStates
  <2> HIDE DEF w
  <2>5. /\ c.n = 0 /\ ~c.hspin /\ c.spin \in BOOLEAN /\ c.owed \in Nat
    BY <2>2, <2>3, <1>1 DEF Steady, StepOK, Sound, ThreadStates, ThreadOK, HasP, Spins, Owes, Place,
       WithP, WithoutP, Handoffs, Injects
  <2>6. StepOK(w) /\ QueuesFall(w)
    BY <2>2, <2>3, <2>4, <2>5, <1>1 DEF StepOK, Place, QueuesFall, Owns, Enqueue, Steady, Sound
  <2>7. GlobalStep(c, w)
    BY <2>2, <2>3, <2>4, <2>5, <1>1 DEF GlobalStep, Wakes, Stands, Starts, Takes, Bit, Steady, Sound
  <2>8. LocalStep(c, w)
    BY <2>2, <2>3, <2>4, <2>5, <1>1 DEF LocalStep, Wakes, Looks, Steady, Sound
  <2>9. Flags' /\ LastStep(c, w)
    BY <2>2, <2>3, <2>4, <2>5, <1>1 DEF Flags, LastStep, Polls, Steady, Sound, ThreadStates
  <2>10. /\ Late(w) = 0 /\ Late(c) = 0 /\ Fetched(w) = 0 /\ Fetched(c) = c.owed
    BY <2>2, <2>3, <2>4, <2>5, <1>1 DEF Late, Fetched, Bit, Steady, Sound, ThreadStates
  <2>11. WaitersStep(c, w)
    BY <2>2, <2>3, <2>5, <2>10, <1>1 DEF WaitersStep, Steady, Sound, Flags, ThreadStates
  <2>12. SeekStep(c, w)
    BY <2>1, <2>2, <2>3, <2>4, <2>5, <1>1 DEF SeekStep, Seeks, Steady, Sound
  <2>13. QED
    BY <2>1, <2>3, <2>6, <2>7, <2>8, <2>9, <2>11, <2>12, StepDances
<1>2. QED
  <2> DEFINE w == [th[t] EXCEPT !.owed = 0]
  <2>1. th[t] \in ThreadStates /\ w.spin = th[t].spin /\ w.seen = th[t].seen
    BY Facts DEF ThreadStates
  <2>2. Become(t, CASE t = Sysmon -> [w EXCEPT !.pc = "sysmon"]
                    [] t # Sysmon /\ th[t].p = NoP -> [w EXCEPT !.pc = "parked"]
                    [] OTHER -> Found(w))
    BY DEF adjustWaiters, P
  <2>3. CASE t = Sysmon
    <3>1. th' = [th EXCEPT ![t] = [th[t] EXCEPT !.owed = 0, !.pc = "sysmon", !.seen = th[t].seen]]
      BY <2>1, <2>2, <2>3 DEF Become, ThreadStates
    <3>2. QED
      BY <1>1, <3>1
  <2>4. CASE t # Sysmon /\ th[t].p = NoP
    <3>1. th' = [th EXCEPT ![t] = [th[t] EXCEPT !.owed = 0, !.pc = "parked", !.seen = th[t].seen]]
      BY <2>1, <2>2, <2>4 DEF Become, ThreadStates
    <3>2. QED
      BY <1>1, <3>1
  <2>5. CASE t # Sysmon /\ th[t].p # NoP
    <3> DEFINE to == IF th[t].spin THEN "reset" ELSE "run"
    <3>1. th' = [th EXCEPT ![t] = [th[t] EXCEPT !.owed = 0, !.pc = to, !.seen = {}]]
      BY <2>1, <2>2, <2>5 DEF Become, Found, ThreadStates
    <3>2. to \in {"reset", "run"}
      OBVIOUS
    <3> HIDE DEF to
    <3>3. QED
      BY <1>1, <3>1, <3>2
  <2>6. QED
    BY <2>3, <2>4, <2>5

LEMMA sysmonPollDances == ASSUME Inv, Inv', DanceInv, sysmonPoll PROVE DanceInv'
<1> DEFINE c == th[Sysmon]
           w == [Inject(c, netev, npidle) EXCEPT !.owed = netev]
<1>1. Sysmon \in Threads
  BY ThreadsFinite
<1>2. Steady(c)
  BY <1>1, SteadyNow
<1>3. /\ th' = [th EXCEPT ![Sysmon] = w] /\ c.pc = "sysmon" /\ netev > 0 /\ lq' = lq /\ gq' = gq
      /\ pidle' = pidle /\ needspinning' = needspinning /\ slack' = slack /\ lastpoll' = lastpoll
      /\ waiters' = waiters /\ netw' = netw /\ netev' = 0
  BY DEF sysmonPoll, At, Become, Goto, Return, P, queues, idle, spinning, net, others
<1>4. /\ w.pc = (IF w.n > 0 THEN "injectG" ELSE IF netev > 0 THEN "injectP" ELSE "adjust")
      /\ w.n \in Nat /\ w.owed = netev /\ w.p = c.p /\ w.spin = c.spin /\ w.hspin = c.hspin
  <2>1. c \in ThreadStates /\ npidle \in Nat /\ netev \in Nat
    BY <1>2, IdleCounted DEF Steady, Sound
  <2> HIDE DEF c
  <2>2. Injector(w, c, netev, netev)
    BY <2>1, InjectFields
  <2> HIDE DEF w
  <2>3. QED
    BY <2>2 DEF Injector
<1> HIDE DEF w
<1>5. /\ c.p = NoP /\ c.n = 0 /\ ~c.spin /\ ~c.hspin /\ c.hold = NoP /\ c.owed = 0
  BY <1>2, <1>3 DEF Steady, StepOK, Sound, ThreadStates, ThreadOK, HasP, Spins, Owes, Place, WithP,
     WithoutP, Handoffs, Injects
<1>6. StepOK(w) /\ QueuesFall(w)
  BY <1>2, <1>3, <1>4, <1>5 DEF StepOK, Place, QueuesFall, Owns, Enqueue, Steady, Sound
<1>7. GlobalStep(c, w)
  BY <1>2, <1>3, <1>4, <1>5 DEF GlobalStep, Wakes, Stands, Starts, Takes, Bit, Steady, Sound
<1>8. LocalStep(c, w)
  BY <1>2, <1>3, <1>4, <1>5 DEF LocalStep, Wakes, Looks, Steady, Sound
<1>9. Flags' /\ LastStep(c, w)
  BY <1>2, <1>3, <1>4, <1>5 DEF Flags, LastStep, Polls, Steady, Sound, ThreadStates
<1>10. /\ Late(w) = 0 /\ Late(c) = 0 /\ Fetched(w) = netev /\ Fetched(c) = 0
  BY <1>2, <1>3, <1>4, <1>5 DEF Late, Fetched, Bit, Steady, Sound, ThreadStates
<1>11. WaitersStep(c, w)
  BY <1>2, <1>3, <1>5, <1>10 DEF WaitersStep, Steady, Sound, Flags, ThreadStates
<1>12. SeekStep(c, w)
  BY <1>1, <1>2, <1>3, <1>4, <1>5 DEF SeekStep, Seeks, Steady, Sound
<1>13. QED
  BY <1>1, <1>3, <1>6, <1>7, <1>8, <1>9, <1>11, <1>12, StepDances

-----------------------------------------------------------------------------
(***************************************************************************)
(* startm, and the whole dance.                                            *)
(***************************************************************************)
\* startm moves two threads: what the one that starts the other stood for, or
\* was to do, they do together.
LEMMA startmDances == ASSUME Inv, Inv', DanceInv, NEW t \in Threads, startm(t) PROVE DanceInv'
<1>1. PICK m \in Ms :
        /\ At(m, "parked")
        /\ th' = [th EXCEPT
                    ![m] = [Thread EXCEPT !.pc = "find", !.p = th[t].hold, !.spin = th[t].hspin],
                    ![t] = [@ EXCEPT !.pc = th[t].ret, !.ret = "run", !.hold = NoP, !.hspin = FALSE]]
  BY DEF startm
<1> DEFINE c == th[t]
           d == th[m]
           w == [c EXCEPT !.pc = c.ret, !.ret = "run", !.hold = NoP, !.hspin = FALSE]
           v == [Thread EXCEPT !.pc = "find", !.p = c.hold, !.spin = c.hspin]
<1>2. m \in Threads
  BY DEF Threads
<1>3. Steady(c) /\ Steady(d)
  BY <1>2, SteadyNow
<1>4. /\ c.pc = "startm" /\ d.pc = "parked" /\ m # t /\ lq' = lq /\ gq' = gq /\ pidle' = pidle
      /\ needspinning' = needspinning /\ slack' = slack
      /\ lastpoll' = lastpoll /\ waiters' = waiters /\ netw' = netw /\ netev' = netev
  BY <1>1 DEF startm, At, queues, idle, spinning, net, others
<1>5. /\ w.pc = c.ret /\ w.spin = c.spin /\ w.hspin = FALSE /\ w.n = c.n /\ w.owed = c.owed
      /\ w.p = c.p
  BY <1>3 DEF Steady, Sound, ThreadStates
<1>6. /\ v.pc = "find" /\ v.p = c.hold /\ v.spin = c.hspin /\ v.hspin = FALSE /\ v.n = 0
      /\ v.owed = 0
  BY DEF Thread
<1>7. th'[t] = w /\ th'[m] = v /\ \A u \in Threads : u # t /\ u # m => th'[u] = th[u]
  BY <1>1, <1>2, <1>4 DEF Inv, TypeInv
<1> HIDE DEF w, v
<1>8. /\ c.hold \in Ps /\ c.hspin \in BOOLEAN /\ c.spin \in BOOLEAN /\ c.n \in Nat
      /\ c.ret \in {"run", "find", "sysmon", "startIdle", "injectP", "adjust"}
      /\ c.n > 0 => c.ret = "startIdle"
  BY <1>3, <1>4 DEF Steady, StepOK, Sound, ThreadStates, AnyP, ThreadOK, HasP, Returns, Place
<1>9. ~d.spin /\ ~d.hspin /\ d.owed = 0
  BY <1>3, <1>4 DEF Steady, Sound, ThreadStates, ThreadOK, Spins, Owes, Place, Injects
<1>10. Flags'
  BY <1>3, <1>4 DEF Flags, Steady
<1>11. \A u \in Threads : StepOK(th'[u])
  <2>1. StepOK(w) /\ StepOK(v)
    BY <1>5, <1>6, <1>8 DEF StepOK, Place
  <2>2. QED
    BY <1>7, <2>1 DEF DanceInv
<1>12. Awake(th) => Awake(th')
  <2>1. SUFFICES ASSUME NEW u \in Threads, Wakes(th[u]) PROVE Awake(th')
    BY DEF Awake
  <2>2. CASE u # t
    <3>1. u # m
      BY <1>4, <1>9, <2>1 DEF Wakes
    <3>2. QED
      BY <1>7, <2>1, <2>2, <3>1 DEF Awake
  <2>3. CASE u = t
    <3>1. c.spin \/ c.hspin
      BY <1>4, <2>1, <2>3 DEF Wakes
    <3>2. Wakes(w) \/ Wakes(v)
      BY <1>5, <1>6, <3>1 DEF Wakes
    <3>3. QED
      BY <1>2, <1>7, <3>2 DEF Awake
  <2>4. QED
    BY <2>2, <2>3
<1>13. GlobalInv'
  <2>1. CASE pidle = {} \/ Awake(th)
    BY <1>4, <1>12, <2>1 DEF GlobalInv, Awake
  <2>2. CASE ~Awake(th) /\ gq <= Stand(th, lq)
    <3> DEFINE f == [u \in Threads |-> Stands(th[u], lq)]
               g == [u \in Threads |-> IF u = t THEN Stands(w, lq) ELSE Stands(th[u], lq)]
               h == [u \in Threads |-> Stands(th'[u], lq)]
    <3>1. th \in [Threads -> ThreadStates] /\ th' \in [Threads -> ThreadStates] /\ w \in ThreadStates
      BY <1>7 DEF Inv, TypeInv
    <3>2. f \in [Threads -> Nat] /\ g \in [Threads -> Nat] /\ h \in [Threads -> Nat]
      BY <3>1, StandsType
    <3>3. /\ f[t] = Stands(c, lq) /\ g[t] = Stands(w, lq) /\ g[m] = Stands(d, lq) /\ h[m] = Stands(v, lq)
          /\ (\A u \in Threads : u # t => g[u] = f[u]) /\ (\A u \in Threads : u # m => h[u] = g[u])
      BY <1>2, <1>4, <1>7
    <3>4. Stand(th, lq) = Sum(f, Threads) /\ Stand(th', lq') = Sum(h, Threads)
      BY <1>4 DEF Stand
    <3> HIDE DEF f, g, h
    <3>5. /\ Sum(f, Threads) \in Nat /\ Sum(g, Threads) \in Nat
          /\ Sum(g, Threads) = Sum(f, Threads) - f[t] + g[t]
      BY <3>2, <3>3, ThreadsFinite, SumMoves
    <3>6. Sum(h, Threads) \in Nat /\ Sum(h, Threads) = Sum(g, Threads) - g[m] + h[m]
      BY <1>2, <3>2, <3>3, ThreadsFinite, SumMoves
    <3>7. ~c.hspin
      BY <2>2 DEF Awake, Wakes
    <3>8. /\ f[t] = Bit(lq[c.hold] = 0) + c.n /\ h[m] = Bit(lq[c.hold] = 0) /\ g[m] = 0
      BY <1>4, <1>6, <1>8, <3>3, <3>7 DEF Stands, Starts, Takes, Bit
    <3>9. g[t] \in Nat /\ g[t] >= c.n
      <4>1. Starts(w) = c.n
        BY <1>5, <1>8 DEF Starts
      <4>2. QED
        BY <1>8, <3>3, <4>1 DEF Stands, Bit
    <3>10. Bit(lq[c.hold] = 0) \in Nat
      BY DEF Bit
    <3>11. Sum(f, Threads) <= Sum(h, Threads)
      BY <1>8, <3>5, <3>6, <3>8, <3>9, <3>10
    <3>12. gq <= Sum(h, Threads)
      <4>1. gq \in Nat /\ gq <= Sum(f, Threads)
        BY <2>2, <3>4 DEF Inv, TypeInv
      <4>2. QED
        BY <3>5, <3>6, <3>11, <4>1
    <3>13. QED
      BY <1>4, <3>4, <3>12 DEF GlobalInv
  <2>3. QED
    BY <2>1, <2>2 DEF DanceInv, GlobalInv, Awake
<1>14. LocalInv'
  <2>1. ASSUME NEW u \in Threads, Looks(th[u], lq) PROVE Looks(th'[u], lq')
    <3>1. u # t /\ u # m
      BY <1>4, <2>1 DEF Looks
    <3>2. QED
      BY <1>4, <1>7, <2>1, <3>1
  <2>2. LocalInv
    BY DEF DanceInv
  <2>3. QED
    BY <1>4, <1>12, <2>1, <2>2 DEF LocalInv, Awake
<1>15. WaitersInv'
  <2>1. /\ Fetched(w) = Fetched(c) /\ Fetched(v) = 0 /\ Fetched(d) = 0
        /\ Late(w) = 0 /\ Late(c) = 0 /\ Late(v) = 0 /\ Late(d) = 0
    <3>1. c.owed \in Nat
      BY <1>3 DEF Steady, Sound, ThreadStates
    <3>2. QED
      BY <1>4, <1>5, <1>6, <1>8, <1>9, <3>1 DEF Fetched, Late, Bit
  <2>2. \A u \in Threads : Fetched(th'[u]) = Fetched(th[u]) /\ Late(th'[u]) = Late(th[u])
    BY <1>7, <2>1
  <2>3. FetchedAll(th') = FetchedAll(th) /\ LateAll(th') = LateAll(th)
    <3>1. /\ [u \in Threads |-> Fetched(th'[u])] = [u \in Threads |-> Fetched(th[u])]
          /\ [u \in Threads |-> Late(th'[u])] = [u \in Threads |-> Late(th[u])]
      BY <2>2
    <3>2. QED
      BY <3>1, Zenon DEF FetchedAll, LateAll
  <2>4. WaitersInv
    BY DEF DanceInv
  <2>5. QED
    BY <1>4, <2>3, <2>4 DEF WaitersInv
<1>16. LastInv'
  <2>1. \A u \in Threads : Polls(th'[u]) <=> Polls(th[u])
    BY <1>4, <1>5, <1>6, <1>7, <1>8 DEF Polls
  <2>2. LastInv
    BY DEF DanceInv
  <2>3. QED
    BY <1>4, <2>1, <2>2 DEF LastInv
<1>17. SeekInv'
  <2>1. c.hold \notin pidle
    BY <1>3, <1>8 DEF Steady, Sound, Owns
  <2>2. QED
    BY <1>4, <1>8, <2>1 DEF SeekInv
<1>18. QED
  BY <1>10, <1>11, <1>13, <1>14, <1>15, <1>16, <1>17 DEF DanceInv

LEMMA NetEventDances == ASSUME Inv, Inv', DanceInv, NetEvent PROVE DanceInv'
<1>1. /\ th' = th /\ netw' = netw - 1 /\ netev' = netev + 1 /\ lq' = lq /\ gq' = gq /\ pidle' = pidle
      /\ needspinning' = needspinning /\ slack' = slack /\ lastpoll' = lastpoll /\ waiters' = waiters
  BY DEF NetEvent, queues, idle, spinning, others
<1>2. Flags' /\ \A t \in Threads : StepOK(th'[t])
  BY <1>1 DEF DanceInv, Flags
<1>3. Stand(th', lq') = Stand(th, lq) /\ FetchedAll(th') = FetchedAll(th) /\ LateAll(th') = LateAll(th)
  BY <1>1
<1>4. GlobalInv' /\ LocalInv' /\ LastInv'
  BY <1>1, <1>3 DEF DanceInv, GlobalInv, LocalInv, LastInv
<1>5. netw \in Nat /\ netev \in Nat
  BY DEF Inv, TypeInv
<1>6. netw' + netev' = netw + netev
  BY <1>1, <1>5
<1>7. WaitersInv' /\ SeekInv'
  <2>1. WaitersInv /\ SeekInv
    BY DEF DanceInv
  <2>2. waiters' + LateAll(th') = (netw' + netev') + FetchedAll(th')
    BY <1>1, <1>3, <1>6, <2>1, Zenon DEF WaitersInv
  <2>3. SeekInv'
    BY <1>1, <1>6, <2>1, Zenon DEF SeekInv
  <2>4. QED
    BY <2>2, <2>3 DEF WaitersInv
<1>8. QED
  BY <1>2, <1>4, <1>7 DEF DanceInv

LEMMA DanceInit == ASSUME Init, Inv PROVE DanceInv
<1>1. /\ \A p \in Ps : lq[p] = 0
      /\ gq = 0 /\ needspinning = FALSE /\ lastpoll = TRUE /\ waiters = 0 /\ netw = 0 /\ netev = 0
      /\ slack = FALSE
  BY DEF Init
<1>2. ASSUME NEW t \in Threads
      PROVE  /\ th[t].pc \in {"run", "sysmon", "parked"} /\ th[t].n = 0 /\ th[t].owed = 0
  BY DEF Init, Thread
<1>3. Flags
  <2>1. slack \in BOOLEAN /\ needspinning \in BOOLEAN /\ lastpoll \in BOOLEAN
    BY <1>1, Zenon
  <2>2. waiters \in Int
    BY <1>1
  <2>3. QED
    BY <2>1, <2>2 DEF Flags
<1>4. \A t \in Threads : StepOK(th[t]) /\ ~Polls(th[t])
  BY <1>2 DEF StepOK, Polls
<1>5. GlobalInv
  <2>1. \A t \in Threads : Stands(th[t], lq) = 0
    BY <1>2 DEF Stands, Starts, Takes, Bit
  <2>2. Stand(th, lq) = 0
    BY <2>1, SumOfZeros DEF Stand
  <2>3. QED
    BY <1>1, <2>2 DEF GlobalInv
<1>6. LocalInv /\ LastInv /\ SeekInv
  BY <1>1, <1>4 DEF LocalInv, LastInv, SeekInv
<1>7. WaitersInv
  <2>1. \A t \in Threads : Fetched(th[t]) = 0 /\ Late(th[t]) = 0
    BY <1>2 DEF Fetched, Late, Bit
  <2>2. FetchedAll(th) = 0 /\ LateAll(th) = 0
    BY <2>1, SumOfZeros DEF FetchedAll, LateAll
  <2>3. QED
    BY <1>1, <2>2 DEF WaitersInv
<1>8. QED
  BY <1>3, <1>4, <1>5, <1>6, <1>7 DEF DanceInv

LEMMA DanceNext == ASSUME Inv, Inv', DanceInv, [Next]_vars PROVE DanceInv'
<1>1. ASSUME NEW m \in Ms, Goroutine(m) PROVE DanceInv'
  BY <1>1, readyDances, parkDances, parkNetDances, goschedImplDances, entersyscallDances,
     exitsyscallfastDances DEF Goroutine
<1>2. ASSUME NEW m \in Ms, Scheduler(m) PROVE DanceInv'
  BY <1>2, netpollAdjustWaitersDances, exitsyscallLostDances, exitsyscall0Dances, wakepDances, wakepGetDances,
     resetspinningDances, findGlobalFirstDances, findLocalDances, findGlobalDances, findPollDances,
     findStealDances, stealWorkDances, findReleaseDances, findDropDances, findAgainDances,
     checkRunqsNoPDances, checkRunqsGetPDances, findLimitDances, becomeSpinningDances,
     becomeSpinningStoreDances, findMayBlockDances, findPollingDances, findPolledDances, findPollPDances DEF Scheduler
<1>3. ASSUME NEW t \in Threads, Injecting(t) PROVE DanceInv'
  BY <1>3, startmDances, injectGlobalDances, startIdleDances, injectLocalDances,
     adjustWaitersDances DEF Injecting
<1>4. ASSUME SysmonStep PROVE DanceInv'
  BY <1>4, sysmonPollDances, retakeDances, handoffpDances, handoffSpinDances, handoffIdleDances,
     handoffCasDances, handoffStoreDances, handoffLockDances
     DEF SysmonStep
<1>5. CASE UNCHANGED vars
  <2>1. /\ th' = th /\ netw' = netw /\ netev' = netev /\ lq' = lq /\ gq' = gq /\ pidle' = pidle
        /\ needspinning' = needspinning /\ slack' = slack /\ lastpoll' = lastpoll
        /\ waiters' = waiters
    BY <1>5 DEF vars, queues, idle, spinning, net, others
  <2>2. Stand(th', lq') = Stand(th, lq) /\ FetchedAll(th') = FetchedAll(th)
        /\ LateAll(th') = LateAll(th)
    BY <2>1
  <2>3. QED
    BY <2>1, <2>2 DEF DanceInv, Flags, GlobalInv, LocalInv, WaitersInv, LastInv, SeekInv
<1>6. QED
  BY <1>1, <1>2, <1>3, <1>4, <1>5, NetEventDances DEF Next

LEMMA Dance == Spec => []DanceInv
<1>1. Init /\ Inv => DanceInv
  BY DanceInit
<1>2. Inv /\ Inv' /\ DanceInv /\ [Next]_vars => DanceInv'
  BY DanceNext
<1>3. QED
  BY <1>1, <1>2, Invariance, PTL DEF Spec

\* A thread at rest neither spins nor stands for anything.
LEMMA AtRest ==
    ASSUME Inv, Settled, NEW t \in Threads
    PROVE  /\ th[t].pc \in {"run", "parked", "polling", "syscall", "sysmon"}
           /\ ~Wakes(th[t]) /\ ~Looks(th[t], lq) /\ ~Seeks(th[t]) /\ Stands(th[t], lq) = 0
<1>1. th[t].pc \in {"run", "parked", "polling", "syscall", "sysmon"}
  BY DEF Settled, Where
<1>2. ~th[t].spin /\ ~th[t].hspin
  BY <1>1, Facts DEF ThreadOK, Spins, Place, Injects
<1>3. QED
  BY <1>1, <1>2 DEF Wakes, Looks, Seeks, Stands, Starts, Takes, Bit

\* The delicate dance works for any number of threads, Ps and goroutines: however
\* submissions, steals, polls, and threads that stop spinning, drop their P or
\* are woken interleave, once all are at rest no P is idle while the global queue
\* holds a goroutine, nor, without bulk insertions and handoffp's omissions,
\* while a local queue does.
THEOREM NoWorkLeft == Spec => []WorkConserving
<1>1. Inv /\ DanceInv => WorkConserving
  <2>1. SUFFICES ASSUME Inv, DanceInv, Settled, pidle # {}
                 PROVE  gq = 0 /\ (slack \/ \A p \in Ps : lq[p] = 0)
    BY DEF WorkConserving
  <2>2. \A t \in Threads : ~Wakes(th[t]) /\ ~Looks(th[t], lq) /\ Stands(th[t], lq) = 0
    BY <2>1, AtRest
  <2>3. Stand(th, lq) = 0
    BY <2>2, SumOfZeros DEF Stand
  <2>4. gq <= 0 /\ gq \in Nat
    BY <2>1, <2>2, <2>3 DEF DanceInv, GlobalInv, Inv, TypeInv
  <2>5. slack \/ \A p \in Ps : lq[p] = 0
    BY <2>1, <2>2 DEF DanceInv, LocalInv
  <2>6. QED
    BY <2>4, <2>5
<1>2. QED
  BY <1>1, Invariance, Dance, PTL

\* When all threads have come to rest with every P idle while a goroutine waits
\* for the network, one of them is blocked in netpoll, for any number of threads,
\* Ps and goroutines: findRunnable's lastpoll.Swap(0) and handoffp's test for the
\* last P never leave the poller to nobody.
THEOREM SomeonePolls == Spec => []PollerPresent
<1>1. Inv /\ DanceInv => PollerPresent
  <2>1. SUFFICES ASSUME Inv, DanceInv, Settled, pidle = Ps, netw + netev > 0
                 PROVE  Where({"polling"}) # {}
    BY DEF PollerPresent
  <2>2. \A t \in Threads : ~Seeks(th[t]) /\ th[t].pc # "polled"
    BY <2>1, AtRest
  <2>3. ~lastpoll
    BY <2>1, <2>2 DEF DanceInv, SeekInv
  <2>4. PICK t \in Threads : Polls(th[t])
    BY <2>1, <2>3 DEF DanceInv, LastInv
  <2>5. th[t].pc = "polling"
    BY <2>2, <2>4 DEF Polls
  <2>6. QED
    BY <2>5 DEF Where
<1>2. QED
  BY <1>1, Invariance, Dance, PTL
=============================================================================
