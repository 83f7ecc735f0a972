--------------------------- MODULE TcpStackProofs ---------------------------
(***************************************************************************)
(* Proofs about TcpStack, for every number of slots, clients, retries and  *)
(* sequence numbers.                                                       *)
(***************************************************************************)
EXTENDS TcpStack, WellFoundedInduction, FiniteSetTheorems, TLAPS

-----------------------------------------------------------------------------
(***************************************************************************)
(* Powers of two, which the provers know nothing of: 2 ^ n counts the      *)
(* subsets of a set of n elements.                                         *)
(***************************************************************************)
\* The powers of two, from the sizes of powersets.
LEMMA PowerIsSize ==
    ASSUME NEW n \in Nat
    PROVE  /\ IsFiniteSet(SUBSET (1 .. n)) /\ Cardinality(SUBSET (1 .. n)) = 2 ^ n
           /\ 2 ^ n \in Nat \ {0}
<1>1. IsFiniteSet(1 .. n) /\ Cardinality(1 .. n) = n
  BY FS_Interval
<1>2. IsFiniteSet(SUBSET (1 .. n)) /\ Cardinality(SUBSET (1 .. n)) = 2 ^ n
  BY <1>1, FS_SUBSET, Zenon
<1>3. Cardinality(SUBSET (1 .. n)) \in Nat
  BY <1>2, FS_CardinalityType
<1>4. {} \in SUBSET (1 .. n)
  OBVIOUS
<1>5. Cardinality(SUBSET (1 .. n)) # 0
  BY <1>2, <1>4, FS_EmptySet, Zenon
<1>6. QED
  BY <1>2, <1>3, <1>5, Zenon

\* A larger exponent does not make the power smaller.
LEMMA PowerMonotone ==
    ASSUME NEW m \in Nat, NEW n \in Nat, m <= n PROVE 2 ^ m <= 2 ^ n
<1>1. SUBSET (1 .. m) \in SUBSET (SUBSET (1 .. n))
  <2>1. 1 .. m \subseteq 1 .. n
    OBVIOUS
  <2> QED
    BY <2>1, Zenon
<1> DEFINE S == SUBSET (1 .. m)
           T == SUBSET (1 .. n)
<1>2. IsFiniteSet(T) /\ Cardinality(T) = 2 ^ n /\ Cardinality(S) = 2 ^ m /\ S \in SUBSET T
  BY <1>1, PowerIsSize
<1> HIDE DEF S, T
<1>3. Cardinality(S) <= Cardinality(T)
  BY <1>2, FS_Subset
<1>4. QED
  BY <1>2, <1>3

\* One more makes it twice as large: half the subsets have the new element.
LEMMA PowerDoubles == ASSUME NEW n \in Nat PROVE 2 ^ (n + 1) = 2 * 2 ^ n
<1> DEFINE S == SUBSET (1 .. n)
           T == {X \in SUBSET (1 .. n + 1) : n + 1 \in X}
           f == [X \in S |-> X \cup {n + 1}]
<1>1. 1 .. n + 1 = (1 .. n) \cup {n + 1} /\ n + 1 \notin 1 .. n
  OBVIOUS
<1>2. SUBSET (1 .. n + 1) = S \cup T
  <2>1. ASSUME NEW X \in SUBSET (1 .. n + 1), n + 1 \notin X PROVE X \in S
    BY <1>1, <2>1
  <2>2. QED
    BY <1>1, <2>1
<1>3. S \cap T = {}
  BY <1>1
<1>4. f \in Bijection(S, T)
  <2>1. ASSUME NEW X \in S PROVE f[X] \in T /\ f[X] = X \cup {n + 1} /\ n + 1 \notin X
    BY <1>1
  <2>2. f \in [S -> T]
    BY <2>1
  <2>3. ASSUME NEW X \in S, NEW Y \in S, f[X] = f[Y] PROVE X = Y
    BY <2>1, <2>3
  <2>4. ASSUME NEW Y \in T PROVE \E X \in S : f[X] = Y
    <3>1. Y \ {n + 1} \in S
      BY <1>1
    <3>2. (Y \ {n + 1}) \cup {n + 1} = Y
      OBVIOUS
    <3>3. QED
      BY <3>1, <3>2, <2>1
  <2> HIDE DEF f, S, T
  <2>5. f \in Injection(S, T)
    BY <2>2, <2>3 DEF Injection, IsInjective
  <2>6. f \in Surjection(S, T)
    BY <2>2, <2>4 DEF Surjection
  <2>7. QED
    BY <2>5, <2>6 DEF Bijection
<1>5. IsFiniteSet(S) /\ Cardinality(S) = 2 ^ n
  BY PowerIsSize
<1>6. Cardinality(SUBSET (1 .. n + 1)) = 2 ^ (n + 1)
  BY PowerIsSize
<1> HIDE DEF f, S, T
<1>7. IsFiniteSet(T) /\ Cardinality(T) = Cardinality(S)
  <2>1. ExistsBijection(S, T)
    BY <1>4 DEF ExistsBijection
  <2>2. QED
    BY <1>5, <2>1, FS_Bijection
<1>8. Cardinality(S \cup T) = Cardinality(S) + Cardinality(T) - Cardinality(S \cap T)
  BY <1>5, <1>7, FS_Union
<1>9. Cardinality(S \cap T) = 0
  BY <1>3, FS_EmptySet
<1>10. 2 ^ n \in Nat
  BY PowerIsSize
<1>11. 2 ^ (n + 1) = 2 ^ n + 2 ^ n - 0
  BY <1>2, <1>5, <1>6, <1>7, <1>8, <1>9, Zenon
<1>12. \A k \in Nat : k + k - 0 = 2 * k
  OBVIOUS
<1>13. QED
  BY <1>10, <1>11, <1>12, Zenon

\* The empty set has one subset.
LEMMA PowerOfZero == 2 ^ 0 = 1
<1>1. Cardinality(SUBSET (1 .. 0)) = 2 ^ 0
  BY PowerIsSize
<1>2. SUBSET (1 .. 0) = {{}}
  <2>1. 1 .. 0 = {}
    OBVIOUS
  <2>2. QED
    BY <2>1
<1>3. Cardinality({{}}) = 1
  BY FS_Singleton, Zenon
<1>4. QED
  BY <1>1, <1>2, <1>3, Zenon

-----------------------------------------------------------------------------
(***************************************************************************)
(* Typing of the operators.                                                *)
(***************************************************************************)
\* Sequence arithmetic stays within the sequence space.
LEMMA AddType == \A s, n \in Int : Add(s, n) \in Seqs
BY SeqAssumption DEF Add, Seqs

\* Tick arithmetic stays within its field, and wraps only at its end.
LEMMA WrapType ==
    /\ \A n \in Int : Wrap(n) \in Ticks
    /\ \A n \in Ticks : Wrap(n) = n
BY TimerAssumption DEF Wrap, Ticks

\* The fields of an incoming frame have their types.
LEMMA FrameType ==
    ASSUME NEW f \in Frames
    PROVE  /\ f.flow \in Flows /\ f.flags \in SUBSET Flags
           /\ f.seq \in Seqs /\ f.ack \in Seqs /\ f.len \in Lens /\ f.len \in Int
BY FrameAssumption DEF Frames, Flags

\* A tick keeps a control block a control block.
LEMMA tickType == ASSUME NEW c \in Tcbs PROVE tick(c) \in Tcbs
<1>1. /\ Wrap(c.rto_counts + 1) \in Ticks /\ Wrap(2 * c.rto_ticks) \in Ticks
      /\ c.retry_count + 1 \in Nat /\ 0 \in Ticks
  <2>1. c.rto_counts + 1 \in Int /\ 2 * c.rto_ticks \in Int /\ c.retry_count + 1 \in Nat
    BY DEF Tcbs, Ticks
  <2>2. 0 \in Ticks
    BY TimerAssumption DEF Ticks
  <2>3. QED
    BY <2>1, <2>2, WrapType
<1>2. CASE GivesUp(c)
  BY <1>1, <1>2, Zenon DEF tick, Tcbs, States
<1>3. CASE ~GivesUp(c) /\ Resends(c)
  BY <1>1, <1>3, Zenon DEF tick, Tcbs
<1>4. CASE ~GivesUp(c) /\ ~Resends(c) /\ Armed(c)
  BY <1>1, <1>4, Zenon DEF tick, Tcbs
<1>5. CASE ~GivesUp(c) /\ ~Resends(c) /\ ~Armed(c)
  BY <1>5, Zenon DEF tick
<1>6. QED
  BY <1>2, <1>3, <1>4, <1>5

\* The segment a connection builds is a segment.
LEMMA SegmentType ==
    ASSUME NEW c \in Tcbs, NEW flags \in SUBSET Flags, NEW n \in Int
    PROVE  Segment(flags, c, n) \in Packets
BY DEF Segment, Packets, Tcbs

\* The first interval is a number of ticks.
LEMMA TimerRange == INITIAL_RTO_TICKS \in Ticks /\ 0 \in Ticks /\ 0 \in Nat
<1>1. 0 \in 0 .. MAX_RETRIES
  BY TimerAssumption
<1>2. INITIAL_RTO_TICKS * 2 ^ 0 < TICK_MOD
  BY <1>1, TimerAssumption
<1>3. INITIAL_RTO_TICKS * 1 < TICK_MOD
  BY <1>2, PowerOfZero
<1>4. QED
  BY <1>3, TimerAssumption DEF Ticks

\* Sending keeps a control block a control block.
LEMMA SendReliablyType ==
    ASSUME NEW c \in Tcbs, NEW p \in Packets
    PROVE  SendReliably(c, p) \in Tcbs
<1>1. SeqLen(p) \in Int
  BY DEF SeqLen, Packets
<1>2. Add(c.send_next, SeqLen(p)) \in Seqs
  BY <1>1, AddType DEF Tcbs, Seqs
<1>3. [p EXCEPT !.intact = Fits(p.len)] \in Packets
  <2>1. Fits(p.len) \in BOOLEAN
    BY DEF Fits
  <2>2. QED
    BY <2>1 DEF Packets
<1>4. INITIAL_RTO_TICKS \in Ticks /\ 0 \in Ticks /\ 0 \in Nat
  BY TimerRange
<1>5. QED
  BY <1>2, <1>3, <1>4, Zenon DEF SendReliably, start_tcp_timer, Tcbs

\* The control blocks the handler builds are control blocks.
LEMMA HandlerTypes ==
    ASSUME NEW c \in Tcbs, NEW f \in Frames
    PROVE  /\ Opened(c, f) \in Tcbs /\ SynAck(c, f) \in Packets
           /\ Echoed(c, f) \in Tcbs /\ Echo(c, f) \in Packets
           /\ close_tcp_timer(c) \in Tcbs /\ Acked(c, f) \in Tcbs
           /\ Closing(c, f) \in Tcbs /\ FinAck(c, f) \in Packets
           /\ Confirmed(c, f) \in Tcbs /\ Released(c, f) \in Tcbs
<1>1. /\ f.flow \in AnyFlow /\ f.len \in Int
      /\ Add(f.seq, 1) \in Seqs /\ Add(f.seq, f.len) \in Seqs /\ ISS \in Seqs
      /\ 0 \in Nat /\ 0 \in Ticks
  <2>1. f.flow \in AnyFlow /\ f.seq \in Int /\ f.len \in Int
    BY FrameType, SeqAssumption DEF AnyFlow, Seqs
  <2>2. ISS \in Seqs /\ 0 \in Nat /\ 1 \in Int
    BY SeqAssumption DEF Seqs
  <2>3. QED
    BY <2>1, <2>2, AddType, TimerRange, Zenon
<1>2. Opened(c, f) \in Tcbs
  BY <1>1, Zenon DEF Opened, alloc_tcp, Tcbs, States
<1>3. Echoed(c, f) \in Tcbs
  BY <1>1, Zenon DEF Echoed, Tcbs
<1>4. close_tcp_timer(c) \in Tcbs
  BY <1>1, Zenon DEF close_tcp_timer, Tcbs
<1>5. Acked(c, f) \in Tcbs
  BY <1>4 DEF Acked
<1>6. Closing(c, f) \in Tcbs
  BY <1>1, <1>5, Zenon DEF Closing, Tcbs, States
<1>7. /\ SynAck(c, f) \in Packets /\ Echo(c, f) \in Packets /\ FinAck(c, f) \in Packets
  <2>1. /\ {"SYN", "ACK"} \in SUBSET Flags /\ {"ACK", "PSH"} \in SUBSET Flags
        /\ {"FIN", "ACK"} \in SUBSET Flags
    BY DEF Flags
  <2>2. QED
    BY <1>1, <1>2, <1>3, <1>6, <2>1, SegmentType DEF SynAck, Echo, FinAck
<1>8. Confirmed(c, f) \in Tcbs
  BY <1>4, Zenon DEF Confirmed, Tcbs, States
<1>9. Released(c, f) \in Tcbs
  <2>1. (IF AcksAll(c, f) THEN "LISTEN" ELSE c.state) \in States
    BY DEF Tcbs, States
  <2>2. QED
    BY <1>4, <2>1, Zenon DEF Released, Tcbs
<1>10. QED
  BY <1>2, <1>3, <1>4, <1>5, <1>6, <1>7, <1>8, <1>9

-----------------------------------------------------------------------------
(***************************************************************************)
(* Type correctness.                                                       *)
(***************************************************************************)
\* The saved segments of a table are segments.
LEMMA resentType ==
    ASSUME NEW t \in [Slots -> Tcbs] PROVE resent(t) \in SUBSET Packets
BY DEF resent, Tcbs

\* An iteration over a well-typed table leaves well-typed variables.
LEMMA TickType ==
    ASSUME NEW t \in [Slots -> Tcbs], NEW out \in SUBSET Packets, TypeOK, Tick(t, out)
    PROVE  TypeOK'
<1>1. tcp_conn' \in [Slots -> Tcbs]
  BY tickType DEF Tick, tcp_timer_tick
<1>2. sent' \in SUBSET Packets
  BY resentType DEF Tick
<1>3. QED
  BY <1>1, <1>2 DEF TypeOK, Tick

\* The same for an iteration whose handler wrote slot i.
LEMMA WriteType ==
    ASSUME NEW i \in Slots, NEW c \in Tcbs, NEW out \in SUBSET Packets, TypeOK,
           Tick([tcp_conn EXCEPT ![i] = c], out)
    PROVE  TypeOK'
<1>1. [tcp_conn EXCEPT ![i] = c] \in [Slots -> Tcbs]
  BY DEF TypeOK
<1>2. QED
  BY <1>1, TickType

\* The slots a lookup returns are slots.
LEMMA LookupType ==
    ASSUME NEW t, NEW flow
    PROVE  find_tcp(t, flow) \subseteq Slots /\ free_slot(t) \subseteq Slots
BY DEF find_tcp, free_slot, First

\* A control block overwritten in part is a control block.
LEMMA CutType == ASSUME NEW c \in Tcbs, NEW g \in Tcbs, NEW k PROVE Cut(c, g, k) \in Tcbs
BY DEF Cut, Tcbs

\* The copy into slot i leaves a table, and leaves alone what it does not reach.
LEMMA overrunType ==
    ASSUME NEW t \in [Slots -> Tcbs], NEW i \in Slots, NEW n \in Int, NEW u \in overrun(t, i, n)
    PROVE  /\ u \in [Slots -> Tcbs]
           /\ \A j \in Slots : j \notin Reach(i, n) => u[j] = t[j]
<1>1. PICK g \in [Reach(i, n) -> Garbage], k \in 0 .. Fields :
        u = [j \in Slots |-> IF j \in Reach(i, n)
                             THEN Cut(t[j], g[j], IF Covers(i, j, n) THEN Fields ELSE k)
                             ELSE t[j]]
  BY DEF overrun
<1>2. \A j \in Reach(i, n) : g[j] \in Tcbs
  BY GarbageAssumption
<1>3. ASSUME NEW j \in Slots PROVE u[j] \in Tcbs /\ (j \notin Reach(i, n) => u[j] = t[j])
  <2>1. CASE j \in Reach(i, n)
    BY <1>1, <1>2, <2>1, CutType
  <2>2. CASE j \notin Reach(i, n)
    BY <1>1, <2>2
  <2>3. QED
    BY <2>1, <2>2
<1>4. u \in [Slots -> Tcbs]
  BY <1>1, <1>3
<1>5. QED
  BY <1>3, <1>4

\* A frame that fits reaches no other slot.
LEMMA FitsReachesNothing ==
    ASSUME NEW i \in Slots, NEW n \in Int, Fits(n) PROVE Reach(i, n) = {}
<1> SUFFICES ASSUME NEW j \in Slots, Reaches(i, j, n) PROVE FALSE
  BY DEF Reach
<1>1. i \in Int /\ j \in Int /\ i < j /\ TCB_SIZE \in Nat /\ PKG_SIZE \in Nat /\ HDR_LEN \in Nat
  BY FrameAssumption DEF Reaches, Slots
<1>2. j - i - 1 \in Nat
  BY <1>1
<1>3. (j - i - 1) * TCB_SIZE \in Nat
  BY <1>1, <1>2
<1>4. PKG_SIZE + (j - i - 1) * TCB_SIZE < HDR_LEN + n /\ HDR_LEN + n <= PKG_SIZE
  BY DEF Reaches, Fits
<1>5. QED
  BY <1>1, <1>3, <1>4

\* The zeroed table of a program that just started is well typed.
LEMMA InitType == Init => TypeOK
<1>1. NoPacket \in Packets
  BY SeqAssumption DEF NoPacket, Packets, AnyFlow, Seqs
<1>2. ZeroTcb \in Tcbs
  BY <1>1, SeqAssumption, TimerRange DEF ZeroTcb, Tcbs, States, AnyFlow, Seqs
<1>3. QED
  BY <1>2 DEF Init, TypeOK

\* Every step keeps the types.
LEMMA TypeStep == TypeOK /\ [Next]_vars => TypeOK'
<1> SUFFICES ASSUME TypeOK, [Next]_vars PROVE TypeOK'
  OBVIOUS
<1>1. \A i \in Slots : tcp_conn[i] \in Tcbs
  BY DEF TypeOK
<1>2. CASE NoSegment
  BY <1>2, TickType DEF NoSegment, TypeOK
<1>3. ASSUME NEW f \in Frames, HandleSyn(f) PROVE TypeOK'
  <2>1. PICK i \in Slots :
          Tick([tcp_conn EXCEPT ![i] = SendReliably(Opened(tcp_conn[i], f), SynAck(tcp_conn[i], f))],
               {SynAck(tcp_conn[i], f)})
    BY <1>3, LookupType DEF HandleSyn
  <2>2. /\ SendReliably(Opened(tcp_conn[i], f), SynAck(tcp_conn[i], f)) \in Tcbs
        /\ SynAck(tcp_conn[i], f) \in Packets
    BY <1>1, HandlerTypes, SendReliablyType
  <2>3. QED
    BY <2>1, <2>2, WriteType
<1>4. ASSUME NEW f \in Frames, DropUnknown(f) PROVE TypeOK'
  BY <1>4, TickType DEF DropUnknown, TypeOK
<1>5. ASSUME NEW f \in Frames, NEW i \in Slots, SynRcvd(i, f) PROVE TypeOK'
  BY <1>1, <1>5, HandlerTypes, WriteType DEF SynRcvd
<1>6. ASSUME NEW f \in Frames, NEW i \in Slots, LastAck(i, f) PROVE TypeOK'
  BY <1>1, <1>6, HandlerTypes, WriteType DEF LastAck
<1>7. ASSUME NEW f \in Frames, NEW i \in Slots, OtherState(i, f) PROVE TypeOK'
  BY <1>7, TickType DEF OtherState, TypeOK
<1>8. ASSUME NEW f \in Frames, NEW i \in Slots, EstablishedData(i, f) PROVE TypeOK'
  <2>1. /\ SendReliably(Echoed(tcp_conn[i], f), Echo(tcp_conn[i], f)) \in Tcbs
        /\ Echo(tcp_conn[i], f) \in Packets
    BY <1>1, HandlerTypes, SendReliablyType
  <2> DEFINE t == [tcp_conn EXCEPT ![i] = SendReliably(Echoed(tcp_conn[i], f), Echo(tcp_conn[i], f))]
  <2>2. t \in [Slots -> Tcbs]
    BY <2>1 DEF TypeOK
  <2>3. PICK u \in overrun(t, i, f.len) : Tick(u, {Echo(tcp_conn[i], f)})
    BY <1>8 DEF EstablishedData
  <2> HIDE DEF t
  <2>4. u \in [Slots -> Tcbs]
    BY <2>2, FrameType, overrunType
  <2>5. QED
    BY <2>1, <2>3, <2>4, TickType
<1>9. ASSUME NEW f \in Frames, NEW i \in Slots, EstablishedAck(i, f) PROVE TypeOK'
  BY <1>1, <1>9, HandlerTypes, WriteType DEF EstablishedAck
<1>10. ASSUME NEW f \in Frames, NEW i \in Slots, EstablishedFin(i, f) PROVE TypeOK'
  <2>1. /\ SendReliably(Closing(tcp_conn[i], f), FinAck(tcp_conn[i], f)) \in Tcbs
        /\ FinAck(tcp_conn[i], f) \in Packets
    BY <1>1, HandlerTypes, SendReliablyType
  <2>2. QED
    BY <1>10, <2>1, WriteType DEF EstablishedFin
<1>11. CASE Runt \/ LoopBreaks \/ UNCHANGED vars
  BY <1>11 DEF Runt, LoopBreaks, TypeOK, vars
<1>12. ASSUME NEW f \in Frames, TableFull(f) PROVE TypeOK'
  BY <1>12 DEF TableFull, TypeOK
<1>13. ASSUME NEW f \in Frames, NEW i \in Slots, EchoCrash(i, f) PROVE TypeOK'
  <2>1. {Echo(tcp_conn[i], f)} \in SUBSET Packets /\ {} \in SUBSET Packets
    BY <1>1, HandlerTypes
  <2>2. QED
    BY <1>13, <2>1 DEF EchoCrash, TypeOK
<1>14. QED
  BY <1>2, <1>3, <1>4, <1>5, <1>6, <1>7, <1>8, <1>9, <1>10, <1>11, <1>12, <1>13, LookupType
  DEF Next, TickIteration, SegmentIteration, Crash

\* Type correctness of the stack, whatever arrives, frames longer than the buffer
\* they are saved in and blocks overwritten with any bytes included: sequence
\* numbers and tick counts wrap inside their fields, and the table and everything
\* written keep their shape.
THEOREM TypeCorrect == Spec => []TypeOK
BY InitType, TypeStep, PTL DEF Spec

-----------------------------------------------------------------------------
(***************************************************************************)
(* Lookups.                                                                *)
(***************************************************************************)
\* The scan of the table returns a slot whenever there is one to return.
LEMMA FirstExists == ASSUME NEW S, S \subseteq Slots, S # {} PROVE First(S) # {}
<1> DEFINE R == OpToRel(<, Nat)
<1>1. S \subseteq Nat
  BY TableAssumption DEF Slots
<1>2. IsWellFoundedOn(R, Nat)
  BY NatLessThanWellFounded
<1>3. \A x, y \in Nat : y < x => <<y, x>> \in R
  BY Zenon DEF OpToRel
<1> HIDE DEF R
<1>4. PICK x \in S : \A y \in S : ~(<<y, x>> \in R)
  BY <1>1, <1>2, WFMin
<1>5. ASSUME NEW y \in S PROVE x <= y
  <2>1. x \in Nat /\ y \in Nat /\ ~(y < x)
    BY <1>1, <1>3, <1>4
  <2>2. QED
    BY <2>1
<1>6. QED
  BY <1>5 DEF First

\* find_tcp returns NULL exactly when no used slot has the 4-tuple.
LEMMA UnknownMeansNone ==
    ASSUME NEW f, Unknown(f), NEW i \in Slots, tcp_conn[i].usued
    PROVE  tcp_conn[i].flow # f.flow
<1> DEFINE S == {j \in Slots : tcp_conn[j].usued /\ tcp_conn[j].flow = f.flow}
<1>1. SUFFICES ASSUME tcp_conn[i].flow = f.flow PROVE FALSE
  OBVIOUS
<1>2. S # {} /\ S \subseteq Slots
  BY <1>1
<1>3. First(S) = {}
  BY DEF Unknown, find_tcp
<1> HIDE DEF S
<1>4. QED
  BY <1>2, <1>3, FirstExists

\* alloc_tcp returns NULL only when every slot is used.
LEMMA NoFreeSlot ==
    ASSUME NEW t, free_slot(t) = {}, NEW i \in Slots
    PROVE  t[i].usued
<1> DEFINE S == {j \in Slots : ~t[j].usued}
<1>1. SUFFICES ASSUME ~t[i].usued PROVE FALSE
  OBVIOUS
<1>2. S # {} /\ S \subseteq Slots
  BY <1>1
<1>3. First(S) = {}
  BY DEF free_slot
<1> HIDE DEF S
<1>4. QED
  BY <1>2, <1>3, FirstExists

-----------------------------------------------------------------------------
(***************************************************************************)
(* The inductive invariant, one control block at a time.                   *)
(***************************************************************************)
SlotOK(c) == Live(c) /\ Pending(c) /\ Guarded(c)

\* The used slots of a table belong to different clients.
Distinct(t) == \A i, j \in Slots : t[i].usued /\ t[j].usued /\ t[i].flow = t[j].flow => i = j

Consistent(t) == Distinct(t) /\ \A i \in Slots : SlotOK(t[i])

\* What a tick leaves alone, and what it takes away.
LEMMA tickFields ==
    ASSUME NEW c \in Tcbs
    PROVE  /\ tick(c).flow = c.flow /\ tick(c).send_next = c.send_next
           /\ tick(c).recv_next = c.recv_next /\ tick(c).unreact_pkg = c.unreact_pkg
           /\ GivesUp(c) => tick(c).usued = FALSE
           /\ ~GivesUp(c) => /\ tick(c).usued = c.usued /\ tick(c).state = c.state
                             /\ tick(c).time_active = c.time_active
<1>1. CASE GivesUp(c)
  BY <1>1 DEF tick, Tcbs
<1>2. CASE ~GivesUp(c) /\ Resends(c)
  BY <1>2 DEF tick, Tcbs
<1>3. CASE ~GivesUp(c) /\ ~Resends(c) /\ Armed(c)
  BY <1>3 DEF tick, Tcbs
<1>4. CASE ~GivesUp(c) /\ ~Resends(c) /\ ~Armed(c)
  BY <1>4 DEF tick, Tcbs
<1>5. QED
  BY <1>1, <1>2, <1>3, <1>4

\* A tick keeps a control block consistent.
LEMMA tickSlotOK == ASSUME NEW c \in Tcbs, SlotOK(c) PROVE SlotOK(tick(c))
<1>1. CASE GivesUp(c)
  BY <1>1, tickFields DEF SlotOK, Live, Pending, Guarded, Armed
<1>2. CASE ~GivesUp(c)
  <2>1. /\ tick(c).flow = c.flow /\ tick(c).send_next = c.send_next
        /\ tick(c).recv_next = c.recv_next /\ tick(c).unreact_pkg = c.unreact_pkg
        /\ tick(c).usued = c.usued /\ tick(c).state = c.state
        /\ tick(c).time_active = c.time_active
    BY <1>2, tickFields
  <2>2. QED
    BY <2>1 DEF SlotOK, Live, Pending, Guarded, Armed, Newest
<1>3. QED
  BY <1>1, <1>2

\* A live connection that sends the segment its state calls for is consistent
\* afterwards, and the segment is its newest.
LEMMA SendSlotOK ==
    ASSUME NEW c \in Tcbs, NEW n \in Int, NEW flags \in SUBSET Flags,
           c.usued, c.flow \in Flows, c.state \in {"SYN_RCVD", "ESTABLISHED", "LAST_ACK"},
           flags = PendingFlags(c.state), Fits(n),
           NEW p, p = Segment(flags, c, n), NEW d, d = SendReliably(c, p)
    PROVE  /\ SlotOK(d) /\ Newest(p, d) /\ ~GivesUp(d)
           /\ d.usued /\ d.flow = c.flow
<1>1. p \in Packets
  BY SegmentType
<1>2. /\ p.flow = c.flow /\ p.flags = flags /\ p.seq = c.send_next /\ p.ack = c.recv_next
      /\ p.len = n /\ p.intact = TRUE
  BY DEF Segment
<1>3. /\ d.usued = c.usued /\ d.flow = c.flow /\ d.state = c.state
      /\ d.recv_next = c.recv_next /\ d.send_next = Add(c.send_next, SeqLen(p))
      /\ d.time_active = TRUE /\ d.retry_count = 0
      /\ d.unreact_pkg = [p EXCEPT !.intact = Fits(p.len)]
  BY <1>1 DEF SendReliably, start_tcp_timer, Tcbs
<1>4. [p EXCEPT !.intact = Fits(p.len)] = p
  <2>1. Fits(p.len) = TRUE
    BY <1>2 DEF Fits
  <2>2. QED
    BY <1>1, <1>2, <2>1, Zenon DEF Packets
<1>5. Newest(p, d)
  BY <1>2, <1>3 DEF Newest
<1>6. SlotOK(d)
  BY <1>2, <1>3, <1>4, <1>5 DEF SlotOK, Live, Pending, Guarded
<1>7. ~GivesUp(d)
  BY <1>3, TimerAssumption DEF GivesUp
<1>8. QED
  BY <1>3, <1>5, <1>6, <1>7

\* The iteration that handled a frame of a consistent table, leaving the
\* consistent table t and the new segments out, keeps the invariant.
LEMMA TickKeeps ==
    ASSUME NEW t \in [Slots -> Tcbs], NEW out, Consistent(t), Tick(t, out),
           \A p \in out : \E i \in Slots : t[i].usued /\ Newest(p, t[i]) /\ ~GivesUp(t[i])
    PROVE  Consistent(tcp_conn') /\ SentIsCurrent'
<1>1. \A i \in Slots : tcp_conn'[i] = tick(t[i])
  BY DEF Tick, tcp_timer_tick
<1>2. \A i \in Slots : SlotOK(tcp_conn'[i])
  BY <1>1, tickSlotOK DEF Consistent
<1>3. ASSUME NEW i \in Slots
      PROVE  tcp_conn'[i].flow = t[i].flow /\ (tcp_conn'[i].usued => t[i].usued)
  <2>1. t[i] \in Tcbs /\ tcp_conn'[i] = tick(t[i])
    BY <1>1
  <2>2. CASE GivesUp(t[i])
    BY <2>1, <2>2, tickFields
  <2>3. CASE ~GivesUp(t[i])
    BY <2>1, <2>3, tickFields
  <2>4. QED
    BY <2>2, <2>3
<1>4. Distinct(tcp_conn')
  BY <1>3 DEF Consistent, Distinct
<1>5. ASSUME NEW p, NEW i \in Slots, t[i].usued, Newest(p, t[i]), ~GivesUp(t[i])
      PROVE  tcp_conn'[i].usued /\ Newest(p, tcp_conn'[i])
  <2>1. t[i] \in Tcbs
    OBVIOUS
  <2>2. /\ tcp_conn'[i].usued = t[i].usued /\ tcp_conn'[i].flow = t[i].flow
        /\ tcp_conn'[i].send_next = t[i].send_next /\ tcp_conn'[i].recv_next = t[i].recv_next
    BY <1>1, <1>5, <2>1, tickFields
  <2>3. QED
    BY <1>5, <2>2 DEF Newest
<1>6. ASSUME NEW p \in resent(t)
      PROVE  \E i \in Slots : t[i].usued /\ Newest(p, t[i]) /\ ~GivesUp(t[i])
  <2>1. PICK i \in Slots : Resends(t[i]) /\ p = t[i].unreact_pkg
    BY DEF resent
  <2>2. t[i].usued /\ Newest(p, t[i])
    BY <2>1 DEF Resends, Due, Armed, Consistent, SlotOK, Pending
  <2>3. ~GivesUp(t[i])
    BY <2>1, TimerAssumption DEF Resends, GivesUp, Tcbs
  <2>4. QED
    BY <2>2, <2>3
<1>7. ASSUME NEW p \in sent'
      PROVE  \E i \in Slots : tcp_conn'[i].usued /\ Newest(p, tcp_conn'[i])
  <2>1. p \in out \/ p \in resent(t)
    BY DEF Tick
  <2>2. PICK i \in Slots : t[i].usued /\ Newest(p, t[i]) /\ ~GivesUp(t[i])
    BY <1>6, <2>1
  <2>3. QED
    BY <1>5, <2>2
<1>8. SentIsCurrent'
  BY <1>7 DEF SentIsCurrent, Newest
<1>9. QED
  BY <1>2, <1>4, <1>8 DEF Consistent

\* Writing slot i keeps the table consistent when the new control block is
\* consistent and its client has no other slot.
LEMMA WriteKeeps ==
    ASSUME NEW t \in [Slots -> Tcbs], Consistent(t), NEW i \in Slots, NEW c \in Tcbs, SlotOK(c),
           c.usued => \A j \in Slots : t[j].usued /\ t[j].flow = c.flow => j = i
    PROVE  /\ [t EXCEPT ![i] = c] \in [Slots -> Tcbs]
           /\ Consistent([t EXCEPT ![i] = c])
<1> DEFINE u == [t EXCEPT ![i] = c]
<1>1. u \in [Slots -> Tcbs]
  OBVIOUS
<1>2. u[i] = c /\ \A j \in Slots : j # i => u[j] = t[j]
  OBVIOUS
<1> HIDE DEF u
<1>3. \A j \in Slots : SlotOK(u[j])
  BY <1>2 DEF Consistent
<1>4. Distinct(u)
  BY <1>2 DEF Consistent, Distinct
<1>5. Consistent(u)
  BY <1>3, <1>4 DEF Consistent
<1>6. QED
  BY <1>1, <1>5 DEF u

\* The parts of the handler that do not send keep a control block consistent.
LEMMA QuietSlotOK ==
    ASSUME NEW c \in Tcbs, NEW f, SlotOK(c)
    PROVE  /\ c.state = "SYN_RCVD" => /\ SlotOK(Confirmed(c, f))
                                      /\ Confirmed(c, f).flow = c.flow
           /\ c.state = "ESTABLISHED" => /\ SlotOK(Acked(c, f))
                                         /\ Acked(c, f).flow = c.flow
           /\ SlotOK(Released(c, f)) /\ Released(c, f).usued = FALSE
<1>1. ASSUME c.state = "SYN_RCVD"
      PROVE  SlotOK(Confirmed(c, f)) /\ Confirmed(c, f).flow = c.flow
  <2>1. CASE AcksAll(c, f)
    <3> DEFINE d == Confirmed(c, f)
    <3>1. /\ d.usued = c.usued /\ d.flow = c.flow /\ d.state = "ESTABLISHED"
          /\ d.time_active = FALSE
      BY <2>1 DEF Confirmed, close_tcp_timer, Tcbs
    <3> HIDE DEF d
    <3>2. SlotOK(d)
      BY <3>1 DEF SlotOK, Live, Pending, Guarded, Armed
    <3>3. QED
      BY <3>1, <3>2 DEF d
  <2>2. CASE ~AcksAll(c, f)
    BY <2>2 DEF Confirmed
  <2>3. QED
    BY <2>1, <2>2
<1>2. ASSUME c.state = "ESTABLISHED"
      PROVE  SlotOK(Acked(c, f)) /\ Acked(c, f).flow = c.flow
  <2>1. CASE PureAck(c, f)
    <3> DEFINE d == Acked(c, f)
    <3>1. /\ d.usued = c.usued /\ d.flow = c.flow /\ d.state = "ESTABLISHED"
          /\ d.time_active = FALSE
      BY <1>2, <2>1 DEF Acked, close_tcp_timer, Tcbs
    <3> HIDE DEF d
    <3>2. SlotOK(d)
      BY <3>1 DEF SlotOK, Live, Pending, Guarded, Armed
    <3>3. QED
      BY <3>1, <3>2 DEF d
  <2>2. CASE ~PureAck(c, f)
    BY <2>2 DEF Acked
  <2>3. QED
    BY <2>1, <2>2
<1>3. Released(c, f).usued = FALSE
  BY DEF Released, close_tcp_timer, Tcbs
<1>4. SlotOK(Released(c, f))
  BY <1>3 DEF SlotOK, Live, Pending, Guarded, Armed
<1>5. QED
  BY <1>1, <1>2, <1>3, <1>4

\* The parts of the handler that send leave a consistent control block, and
\* what they send is its newest segment.
LEMMA SendingSlotOK ==
    ASSUME FramesFit, NEW c \in Tcbs, NEW f \in Frames,
           NEW d, NEW p,
           \/ d = SendReliably(Opened(c, f), SynAck(c, f)) /\ p = SynAck(c, f)
           \/ /\ c.usued /\ c.flow = f.flow /\ c.state = "ESTABLISHED"
              /\ \/ d = SendReliably(Echoed(c, f), Echo(c, f)) /\ p = Echo(c, f)
                 \/ d = SendReliably(Closing(c, f), FinAck(c, f)) /\ p = FinAck(c, f)
    PROVE  /\ SlotOK(d) /\ Newest(p, d) /\ ~GivesUp(d)
           /\ d.usued /\ d.flow = f.flow
<1>1. f.flow \in Flows /\ Fits(f.len) /\ Fits(0) /\ f.len \in Int /\ 0 \in Int
  BY FrameType, FrameAssumption DEF FramesFit, Fits
<1>2. /\ {"SYN", "ACK"} \in SUBSET Flags /\ {"ACK", "PSH"} \in SUBSET Flags
      /\ {"FIN", "ACK"} \in SUBSET Flags
  BY DEF Flags
<1>3. CASE d = SendReliably(Opened(c, f), SynAck(c, f)) /\ p = SynAck(c, f)
  <2>1. /\ Opened(c, f) \in Tcbs
        /\ Opened(c, f).usued /\ Opened(c, f).flow = f.flow /\ Opened(c, f).state = "SYN_RCVD"
    BY HandlerTypes DEF Opened, alloc_tcp, Tcbs
  <2>2. {"SYN", "ACK"} = PendingFlags(Opened(c, f).state)
    BY <2>1 DEF PendingFlags
  <2>3. QED
    BY <1>1, <1>2, <1>3, <2>1, <2>2, SendSlotOK DEF SynAck
<1>4. CASE /\ c.usued /\ c.flow = f.flow /\ c.state = "ESTABLISHED"
           /\ d = SendReliably(Echoed(c, f), Echo(c, f)) /\ p = Echo(c, f)
  <2>1. /\ Echoed(c, f) \in Tcbs
        /\ Echoed(c, f).usued /\ Echoed(c, f).flow = f.flow /\ Echoed(c, f).state = "ESTABLISHED"
    BY <1>4, HandlerTypes DEF Echoed, Tcbs
  <2>2. {"ACK", "PSH"} = PendingFlags(Echoed(c, f).state)
    BY <2>1 DEF PendingFlags
  <2>3. QED
    BY <1>1, <1>2, <1>4, <2>1, <2>2, SendSlotOK DEF Echo
<1>5. CASE /\ c.usued /\ c.flow = f.flow /\ c.state = "ESTABLISHED"
           /\ d = SendReliably(Closing(c, f), FinAck(c, f)) /\ p = FinAck(c, f)
  <2>1. /\ Acked(c, f) \in Tcbs /\ Acked(c, f).usued = c.usued /\ Acked(c, f).flow = c.flow
    BY HandlerTypes DEF Acked, close_tcp_timer, Tcbs
  <2>2. /\ Closing(c, f) \in Tcbs
        /\ Closing(c, f).usued /\ Closing(c, f).flow = f.flow /\ Closing(c, f).state = "LAST_ACK"
    BY <1>5, <2>1, HandlerTypes DEF Closing, Tcbs
  <2>3. {"FIN", "ACK"} = PendingFlags(Closing(c, f).state)
    BY <2>2 DEF PendingFlags
  <2>4. QED
    BY <1>1, <1>2, <1>5, <2>2, <2>3, SendSlotOK DEF FinAck
<1>6. QED
  BY <1>3, <1>4, <1>5

-----------------------------------------------------------------------------
(***************************************************************************)
(* The safety of the stack.                                                *)
(***************************************************************************)
\* Stands by itself under steps: types, a consistent table, only newest
\* segments written, and a crash only with a table full of other clients.
IInv == /\ TypeOK
        /\ Consistent(tcp_conn)
        /\ SentIsCurrent
        /\ CrashOnlyWhenFull

\* The invariant speaks of slots the way the properties do.
LEMMA IInvImplies ==
    IInv => OneSlotPerFlow /\ UsedSlotsLive /\ RetransmitIsCurrent /\ HalfOpenGuarded
BY DEF IInv, Consistent, Distinct, SlotOK, OneSlotPerFlow, UsedSlotsLive,
       RetransmitIsCurrent, HalfOpenGuarded

\* The zeroed table satisfies the invariant.
LEMMA InitIInv == Init => IInv
<1> SUFFICES ASSUME Init PROVE IInv
  OBVIOUS
<1>1. \A i \in Slots : tcp_conn[i].usued = FALSE
  BY DEF Init, ZeroTcb
<1>2. Consistent(tcp_conn)
  BY <1>1 DEF Consistent, Distinct, SlotOK, Live, Pending, Guarded, Armed
<1>3. SentIsCurrent /\ CrashOnlyWhenFull
  BY DEF Init, SentIsCurrent, CrashOnlyWhenFull
<1>4. QED
  BY <1>2, <1>3, InitType DEF IInv

\* An iteration that reaches the tick keeps the invariant.
LEMMA TickIterationKeeps ==
    ASSUME FramesFit, IInv, Running, TickIteration
    PROVE  Consistent(tcp_conn') /\ SentIsCurrent'
<1>1. tcp_conn \in [Slots -> Tcbs] /\ Consistent(tcp_conn) /\ \A i \in Slots : tcp_conn[i] \in Tcbs
  BY DEF IInv, TypeOK
<1>2. \A i \in Slots : SlotOK(tcp_conn[i])
  BY <1>1 DEF Consistent
<1>3. ASSUME Tick(tcp_conn, {}) PROVE Consistent(tcp_conn') /\ SentIsCurrent'
  BY <1>1, <1>3, TickKeeps
<1>4. ASSUME NEW i \in Slots, NEW c \in Tcbs, SlotOK(c), NEW out,
             Tick([tcp_conn EXCEPT ![i] = c], out),
             c.usued => \A j \in Slots : tcp_conn[j].usued /\ tcp_conn[j].flow = c.flow => j = i,
             \A p \in out : c.usued /\ Newest(p, c) /\ ~GivesUp(c)
      PROVE  Consistent(tcp_conn') /\ SentIsCurrent'
  <2> DEFINE u == [tcp_conn EXCEPT ![i] = c]
  <2>1. u \in [Slots -> Tcbs] /\ Consistent(u)
    BY <1>1, <1>4, WriteKeeps
  <2>2. u[i] = c
    BY <1>1
  <2>3. Tick(u, out)
    BY <1>4
  <2> HIDE DEF u
  <2>4. \A p \in out : \E j \in Slots : u[j].usued /\ Newest(p, u[j]) /\ ~GivesUp(u[j])
    BY <1>4, <2>2
  <2>5. QED
    BY <2>1, <2>3, <2>4, TickKeeps
<1>5. CASE NoSegment
  BY <1>3, <1>5 DEF NoSegment
<1>6. ASSUME NEW f \in Frames, HandleSyn(f) PROVE Consistent(tcp_conn') /\ SentIsCurrent'
  <2>1. PICK i \in Slots :
          Tick([tcp_conn EXCEPT ![i] = SendReliably(Opened(tcp_conn[i], f), SynAck(tcp_conn[i], f))],
               {SynAck(tcp_conn[i], f)})
    BY <1>6, LookupType DEF HandleSyn
  <2> DEFINE p == SynAck(tcp_conn[i], f)
             d == SendReliably(Opened(tcp_conn[i], f), p)
  <2>2. d \in Tcbs
    BY <1>1, HandlerTypes, SendReliablyType
  <2>3. SlotOK(d) /\ Newest(p, d) /\ ~GivesUp(d) /\ d.usued /\ d.flow = f.flow
    BY <1>1, SendingSlotOK
  <2>4. \A j \in Slots : tcp_conn[j].usued => tcp_conn[j].flow # f.flow
    BY <1>6, UnknownMeansNone DEF HandleSyn
  <2>5. Tick([tcp_conn EXCEPT ![i] = d], {p})
    BY <2>1
  <2> HIDE DEF p, d
  <2>6. QED
    BY <1>4, <2>2, <2>3, <2>4, <2>5
<1>7. ASSUME NEW f \in Frames, DropUnknown(f) PROVE Consistent(tcp_conn') /\ SentIsCurrent'
  BY <1>3, <1>7 DEF DropUnknown
<1>8. ASSUME NEW f \in Frames, NEW i \in find_tcp(tcp_conn, f.flow),
             \/ SynRcvd(i, f) \/ LastAck(i, f) \/ OtherState(i, f)
             \/ EstablishedData(i, f) \/ EstablishedAck(i, f) \/ EstablishedFin(i, f)
      PROVE  Consistent(tcp_conn') /\ SentIsCurrent'
  <2>1. i \in Slots /\ tcp_conn[i].usued /\ tcp_conn[i].flow = f.flow
    BY <1>8 DEF find_tcp, First
  <2>2. \A j \in Slots : tcp_conn[j].usued /\ tcp_conn[j].flow = f.flow => j = i
    BY <1>1, <2>1 DEF Consistent, Distinct
  <2> DEFINE c == tcp_conn[i]
  <2>3. c \in Tcbs /\ SlotOK(c)
    BY <1>1, <1>2, <2>1
  <2>4. CASE SynRcvd(i, f)
    <3>1. Confirmed(c, f) \in Tcbs /\ SlotOK(Confirmed(c, f)) /\ Confirmed(c, f).flow = f.flow
      BY <2>1, <2>3, <2>4, HandlerTypes, QuietSlotOK DEF SynRcvd, InState
    <3>2. Tick([tcp_conn EXCEPT ![i] = Confirmed(c, f)], {})
      BY <2>4 DEF SynRcvd
    <3>3. QED
      BY <1>4, <2>1, <2>2, <3>1, <3>2
  <2>5. CASE LastAck(i, f)
    <3>1. Released(c, f) \in Tcbs /\ SlotOK(Released(c, f)) /\ Released(c, f).usued = FALSE
      BY <2>3, HandlerTypes, QuietSlotOK
    <3>2. Tick([tcp_conn EXCEPT ![i] = Released(c, f)], {})
      BY <2>5 DEF LastAck
    <3>3. QED
      BY <1>4, <2>1, <3>1, <3>2
  <2>6. CASE OtherState(i, f)
    BY <1>3, <2>6 DEF OtherState
  <2>7. CASE EstablishedData(i, f)
    <3> DEFINE p == Echo(c, f)
               d == SendReliably(Echoed(c, f), p)
    <3>1. d \in Tcbs
      BY <2>3, HandlerTypes, SendReliablyType
    <3>2. SlotOK(d) /\ Newest(p, d) /\ ~GivesUp(d) /\ d.usued /\ d.flow = f.flow
      BY <2>1, <2>3, <2>7, SendingSlotOK DEF EstablishedData, InState
    <3>3. Fits(f.len)
      BY FrameType DEF FramesFit
    <3> DEFINE t == [tcp_conn EXCEPT ![i] = d]
    <3>4. PICK u \in overrun(t, i, f.len) : Tick(u, {p})
      BY <2>7 DEF EstablishedData
    <3> HIDE DEF p, d
    <3>5. t \in [Slots -> Tcbs]
      BY <1>1, <3>1
    <3> HIDE DEF t
    <3>6. u \in [Slots -> Tcbs] /\ \A j \in Slots : u[j] = t[j]
      BY <2>1, <3>3, <3>5, FrameType, overrunType, FitsReachesNothing
    <3>7. u = t
      BY <3>5, <3>6
    <3>8. Tick([tcp_conn EXCEPT ![i] = d], {p})
      BY <3>4, <3>7 DEF t
    <3>9. QED
      BY <1>4, <2>1, <2>2, <3>1, <3>2, <3>8
  <2>8. CASE EstablishedAck(i, f)
    <3>1. Acked(c, f) \in Tcbs /\ SlotOK(Acked(c, f)) /\ Acked(c, f).flow = f.flow
      BY <2>1, <2>3, <2>8, HandlerTypes, QuietSlotOK DEF EstablishedAck, InState
    <3>2. Tick([tcp_conn EXCEPT ![i] = Acked(c, f)], {})
      BY <2>8 DEF EstablishedAck
    <3>3. QED
      BY <1>4, <2>1, <2>2, <3>1, <3>2
  <2>9. CASE EstablishedFin(i, f)
    <3> DEFINE p == FinAck(c, f)
               d == SendReliably(Closing(c, f), p)
    <3>1. d \in Tcbs
      BY <2>3, HandlerTypes, SendReliablyType
    <3>2. SlotOK(d) /\ Newest(p, d) /\ ~GivesUp(d) /\ d.usued /\ d.flow = f.flow
      BY <2>1, <2>3, <2>9, SendingSlotOK DEF EstablishedFin, InState
    <3>3. Tick([tcp_conn EXCEPT ![i] = d], {p})
      BY <2>9 DEF EstablishedFin
    <3> HIDE DEF p, d
    <3>4. QED
      BY <1>4, <2>1, <2>2, <3>1, <3>2, <3>3
  <2>10. QED
    BY <1>8, <2>4, <2>5, <2>6, <2>7, <2>8, <2>9
<1>9. QED
  BY <1>5, <1>6, <1>7, <1>8 DEF TickIteration, SegmentIteration

\* When no frame is longer than the buffer it is saved in, every step keeps the
\* invariant.
LEMMA IInvStep == ASSUME FramesFit, IInv, [Next]_vars PROVE IInv'
<1>1. TypeOK'
  BY TypeStep DEF IInv
<1>2. CASE Running /\ TickIteration
  <2>1. proc' = "running"
    BY <1>2 DEF TickIteration, SegmentIteration, NoSegment, HandleSyn, DropUnknown, SynRcvd,
                LastAck, OtherState, EstablishedData, EstablishedAck, EstablishedFin, Tick, Running
  <2>2. QED
    BY <1>1, <1>2, <2>1, TickIterationKeeps DEF IInv, CrashOnlyWhenFull
<1>3. CASE Runt \/ LoopBreaks
  BY <1>1, <1>3 DEF Runt, LoopBreaks, Running, IInv, SentIsCurrent, CrashOnlyWhenFull
<1>4. ASSUME NEW f \in Frames, TableFull(f) PROVE IInv'
  <2>1. tcp_conn' = tcp_conn /\ sent' = {}
    BY <1>4 DEF TableFull
  <2>2. \A i \in Slots : tcp_conn[i].usued /\ Live(tcp_conn[i])
    BY <1>4, NoFreeSlot DEF TableFull, IInv, Consistent, SlotOK
  <2>3. \A i \in Slots : tcp_conn[i].flow # f.flow
    BY <1>4, <2>2, UnknownMeansNone DEF TableFull
  <2>4. f.flow \in Flows
    BY FrameType
  <2>5. CrashOnlyWhenFull' /\ SentIsCurrent'
    BY <2>1, <2>2, <2>3, <2>4 DEF CrashOnlyWhenFull, SentIsCurrent, Live
  <2>6. QED
    BY <1>1, <2>1, <2>5 DEF IInv
<1>5. CASE UNCHANGED vars
  BY <1>5 DEF vars, IInv, TypeOK, SentIsCurrent, CrashOnlyWhenFull
<1>crash. ASSUME NEW f \in Frames, NEW i \in find_tcp(tcp_conn, f.flow), EchoCrash(i, f) PROVE FALSE
  <2>1. i \in Slots /\ Fits(f.len) /\ f.len \in Int
    BY FrameType, LookupType DEF FramesFit
  <2>2. ~(HDR_LEN + f.len > BUF_SIZE)
    BY <2>1, FrameAssumption DEF Fits
  <2>3. ~Reaches(i, MAX_CONN + 1, f.len)
    <3>1. /\ i \in Int /\ MAX_CONN \in Int /\ i <= MAX_CONN
          /\ TCB_SIZE \in Nat /\ PKG_SIZE \in Nat /\ HDR_LEN \in Nat
      BY <2>1, FrameAssumption, TableAssumption DEF Slots
    <3>2. MAX_CONN + 1 - i - 1 \in Nat
      BY <3>1
    <3>3. (MAX_CONN + 1 - i - 1) * TCB_SIZE \in Nat
      BY <3>1, <3>2
    <3>4. QED
      BY <2>1, <3>1, <3>3 DEF Reaches, Fits
  <2>4. QED
    BY <1>crash, <2>2, <2>3 DEF EchoCrash, OutOfBounds
<1>6. TickIteration => Running
  BY DEF TickIteration, SegmentIteration, NoSegment, HandleSyn, DropUnknown, SynRcvd,
         LastAck, OtherState, EstablishedData, EstablishedAck, EstablishedFin
<1>7. QED
  BY <1>2, <1>3, <1>4, <1>5, <1>6, <1>crash DEF Next, Crash

LEMMA IInvHolds == ASSUME FramesFit PROVE Spec => []IInv
<1>1. IInv /\ [Next]_vars => IInv'
  BY IInvStep
<1>2. QED
  BY InitIInv, <1>1, PTL DEF Spec

\* With frames that fit, whatever arrives in whatever order: a client has at most
\* one slot (find_tcp and alloc_tcp), every used slot can make progress, a
\* half-open one has its timer armed, and what a timer would retransmit is the
\* newest segment of its connection.
THEOREM StackSafe == ASSUME FramesFit PROVE Spec => []TableSound
<1>1. IInv => TableSound
  BY IInvImplies DEF TableSound
<1>2. QED
  BY <1>1, IInvHolds, PTL

\* Whatever an iteration writes, a reply of handle_tcp or a retransmission of
\* tcp_timer_tick, is the newest segment of a connection that still exists.
THEOREM WritesAreCurrent == ASSUME FramesFit PROVE Spec => []SentIsCurrent
<1>1. IInv => SentIsCurrent
  BY DEF IInv
<1>2. QED
  BY <1>1, IInvHolds, PTL

\* The NULL of alloc_tcp is dereferenced only when every slot holds a live
\* connection of another client.
THEOREM FatalOnlyWhenFull == ASSUME FramesFit PROVE Spec => []CrashOnlyWhenFull
<1>1. IInv => CrashOnlyWhenFull
  BY DEF IInv
<1>2. QED
  BY <1>1, IInvHolds, PTL

\* As many clients as there are slots, or fewer, can never crash the stack:
\* slots do not leak, and the pigeonhole principle does the rest.
THEOREM NoCrash ==
    ASSUME FramesFit, IsFiniteSet(Flows)
    PROVE  Spec => []CrashNeedsMoreClients
<1>1. IInv => CrashNeedsMoreClients
  <2> SUFFICES ASSUME IInv, proc = "crashed", ~(Cardinality(Flows) > MAX_CONN) PROVE FALSE
    BY DEF CrashNeedsMoreClients
  <2>1. PICK f \in Flows : \A i \in Slots : tcp_conn[i].flow # f
    BY DEF IInv, CrashOnlyWhenFull
  <2>2. \A i \in Slots : tcp_conn[i].usued /\ tcp_conn[i].flow \in Flows \ {f}
    BY <2>1 DEF IInv, CrashOnlyWhenFull, Live
  <2> DEFINE owner == [i \in Slots |-> tcp_conn[i].flow]
  <2>3. owner \in [Slots -> Flows \ {f}]
    BY <2>2
  <2>4. /\ IsFiniteSet(Flows \ {f}) /\ Cardinality(Flows \ {f}) = Cardinality(Flows) - 1
    BY FS_RemoveElement
  <2>5. IsFiniteSet(Slots) /\ Cardinality(Slots) = MAX_CONN
    BY FS_Interval, TableAssumption DEF Slots
  <2>6. Cardinality(Flows \ {f}) < Cardinality(Slots)
    BY <2>4, <2>5, FS_CardinalityType, TableAssumption
  <2> HIDE DEF owner
  <2>7. PICK i, j \in Slots : i # j /\ owner[i] = owner[j]
    BY <2>3, <2>4, <2>5, <2>6, FS_PigeonHole
  <2>8. QED
    BY <2>2, <2>7 DEF owner, IInv, Consistent, Distinct
<1>2. QED
  BY <1>1, IInvHolds, PTL

-----------------------------------------------------------------------------
(***************************************************************************)
(* What one iteration does to the table, frames that do not fit included.  *)
(***************************************************************************)
\* No slot, used or free, has retransmitted more than MAX_RETRIES times, and a
\* timer that runs is within its interval.
TimerOK(c) ==
    /\ c.retry_count <= MAX_RETRIES
    /\ c.time_active => /\ c.rto_ticks = INITIAL_RTO_TICKS * 2 ^ c.retry_count
                        /\ c.rto_counts < c.rto_ticks

\* What handling a frame may make of the control block of its connection.
Handled(c, d, out) ==
    /\ d \in Tcbs
    /\ TimerOK(c) => TimerOK(d)
    /\ c.usued /\ d.usued /\ c.send_next # d.send_next
       => ~GivesUp(d) /\ \E p \in out : p.seq = c.send_next /\ Newest(p, d)
    /\ HalfOpen(c) /\ HalfOpen(d) /\ c.state = d.state => d = c

\* Slot i answered with an echo whose saved copy reaches slot j.
Overran(t, i, j, out) ==
    /\ ~FramesFit
    /\ t[i].usued /\ t[i].state = "ESTABLISHED"
    /\ \E p \in out : p.flow = t[i].flow /\ j \in Reach(i, p.len)

\* The handler made u of table t: slot i, and slots an overrun reached.
Touches(t, u, i, out) ==
    /\ u \in [Slots -> Tcbs]
    /\ Handled(t[i], u[i], out)
    /\ \A p, q \in out : p = q
    /\ \A j \in Slots : j # i => u[j] = t[j] \/ Overran(t, i, j, out)

\* A timer just armed is at the start of its first interval.
LEMMA SendTimer ==
    ASSUME NEW c \in Tcbs, NEW p \in Packets, NEW d, d = SendReliably(c, p)
    PROVE  /\ TimerOK(d) /\ ~GivesUp(d)
           /\ d.usued = c.usued /\ d.flow = c.flow /\ d.state = c.state
           /\ d.recv_next = c.recv_next /\ d.send_next = Add(c.send_next, SeqLen(p))
<1>1. /\ d.usued = c.usued /\ d.flow = c.flow /\ d.state = c.state
      /\ d.recv_next = c.recv_next /\ d.send_next = Add(c.send_next, SeqLen(p))
      /\ d.time_active = TRUE /\ d.retry_count = 0 /\ d.rto_counts = 0
      /\ d.rto_ticks = INITIAL_RTO_TICKS
  BY DEF SendReliably, start_tcp_timer, Tcbs
<1>2. ~GivesUp(d)
  BY <1>1, TimerAssumption DEF GivesUp
<1>3. 2 ^ d.retry_count = 1
  BY <1>1, PowerOfZero
<1>4. TimerOK(d)
  BY <1>1, <1>3, TimerAssumption DEF TimerOK
<1>5. QED
  BY <1>1, <1>2, <1>4

\* A stopped timer has nothing to keep.
LEMMA CloseTimer ==
    ASSUME NEW c \in Tcbs, NEW d \in Tcbs, d.time_active = FALSE, d.retry_count = 0
    PROVE  TimerOK(d)
BY TimerAssumption DEF TimerOK

\* A segment built from a connection that is then sent reliably is its newest.
LEMMA SentIsNewest ==
    ASSUME NEW c \in Tcbs, NEW flags \in SUBSET Flags, NEW n \in Int,
           NEW p, p = Segment(flags, c, n), NEW d, d = SendReliably(c, p)
    PROVE  p.seq = c.send_next /\ Newest(p, d)
<1>1. p \in Packets
  BY SegmentType
<1>2. /\ p.flow = c.flow /\ p.seq = c.send_next /\ p.ack = c.recv_next /\ p.intact = TRUE
  BY DEF Segment
<1>3. /\ d.flow = c.flow /\ d.recv_next = c.recv_next
      /\ d.send_next = Add(c.send_next, SeqLen(p))
  BY <1>1, SendTimer
<1>4. QED
  BY <1>2, <1>3 DEF Newest

\* Opening, echoing and closing: the connection's timer is fresh, and the
\* sequence numbers it moved by are those of the segment written.
LEMMA SendHandled ==
    ASSUME NEW c \in Tcbs, NEW e \in Tcbs, NEW flags \in SUBSET Flags, NEW n \in Int,
           NEW p, p = Segment(flags, e, n), NEW d, d = SendReliably(e, p), NEW out, p \in out,
           c.usued => e.send_next = c.send_next /\ c.state = "ESTABLISHED"
    PROVE  Handled(c, d, out) /\ d.usued = e.usued /\ ~GivesUp(d)
<1>1. p \in Packets
  BY SegmentType
<1>2. d \in Tcbs
  BY <1>1, SendReliablyType
<1>3. TimerOK(d) /\ ~GivesUp(d) /\ d.usued = e.usued
  BY <1>1, SendTimer
<1>4. p.seq = e.send_next /\ Newest(p, d)
  BY SentIsNewest
<1>5. ~HalfOpen(c)
  BY DEF HalfOpen
<1>6. QED
  BY <1>2, <1>3, <1>4, <1>5 DEF Handled

\* The parts of the handler that do not send.
LEMMA QuietHandled ==
    ASSUME NEW c \in Tcbs, NEW f \in Frames, NEW out
    PROVE  /\ Handled(c, c, out)
           /\ c.state = "SYN_RCVD" => Handled(c, Confirmed(c, f), out)
           /\ c.state = "ESTABLISHED" => Handled(c, Acked(c, f), out)
           /\ Handled(c, Released(c, f), out)
<1>1. Handled(c, c, out)
  BY DEF Handled
<1> DEFINE d == close_tcp_timer(c)
<1>2. /\ d \in Tcbs /\ d.time_active = FALSE /\ d.retry_count = 0
      /\ d.send_next = c.send_next /\ d.state = c.state
  BY HandlerTypes DEF close_tcp_timer, Tcbs
<1>3. ASSUME c.state = "SYN_RCVD" PROVE Handled(c, Confirmed(c, f), out)
  <2>1. CASE AcksAll(c, f)
    <3> DEFINE e == Confirmed(c, f)
    <3>1. /\ e \in Tcbs /\ e.time_active = FALSE /\ e.retry_count = 0
          /\ e.send_next = c.send_next /\ e.state = "ESTABLISHED"
      BY <2>1, HandlerTypes DEF Confirmed, close_tcp_timer, Tcbs
    <3> HIDE DEF e
    <3>2. TimerOK(e)
      BY <3>1, CloseTimer
    <3>3. Handled(c, e, out)
      BY <1>3, <3>1, <3>2 DEF Handled
    <3>4. QED
      BY <3>3 DEF e
  <2>2. CASE ~AcksAll(c, f)
    BY <1>1, <2>2 DEF Confirmed
  <2>3. QED
    BY <2>1, <2>2
<1>4. ASSUME c.state = "ESTABLISHED" PROVE Handled(c, Acked(c, f), out)
  <2>1. CASE PureAck(c, f)
    <3>1. TimerOK(d)
      BY <1>2, CloseTimer
    <3>2. ~HalfOpen(c)
      BY <1>4 DEF HalfOpen
    <3> HIDE DEF d
    <3>3. Handled(c, d, out)
      BY <1>2, <3>1, <3>2 DEF Handled
    <3>4. QED
      BY <2>1, <3>3 DEF Acked, d
  <2>2. CASE ~PureAck(c, f)
    BY <1>1, <2>2 DEF Acked
  <2>3. QED
    BY <2>1, <2>2
<1>5. Handled(c, Released(c, f), out)
  <2> DEFINE e == Released(c, f)
  <2>1. e \in Tcbs /\ e.time_active = FALSE /\ e.retry_count = 0 /\ e.usued = FALSE
    BY HandlerTypes DEF Released, close_tcp_timer, Tcbs
  <2> HIDE DEF e
  <2>2. TimerOK(e)
    BY <2>1, CloseTimer
  <2>3. Handled(c, e, out)
    BY <2>1, <2>2 DEF Handled, HalfOpen
  <2>4. QED
    BY <2>3 DEF e
<1>6. QED
  BY <1>1, <1>3, <1>4, <1>5

\* Every iteration that reaches the tick handles one connection at most, and
\* touches another slot only by an echo that does not fit.
LEMMA IterationTouches ==
    ASSUME TypeOK, TickIteration
    PROVE  \E i \in Slots : \E u, out : Touches(tcp_conn, u, i, out) /\ Tick(u, out)
<1>1. tcp_conn \in [Slots -> Tcbs] /\ \A i \in Slots : tcp_conn[i] \in Tcbs
  BY DEF TypeOK
<1>2. ASSUME Tick(tcp_conn, {})
      PROVE  \E i \in Slots : \E u, out : Touches(tcp_conn, u, i, out) /\ Tick(u, out)
  <2>1. 1 \in Slots
    BY TableAssumption DEF Slots
  <2>2. Handled(tcp_conn[1], tcp_conn[1], {})
    BY <1>1, <2>1 DEF Handled
  <2>3. Touches(tcp_conn, tcp_conn, 1, {})
    BY <1>1, <2>2 DEF Touches
  <2>4. QED
    BY <1>2, <2>1, <2>3
<1>3. ASSUME NEW i \in Slots, NEW d, NEW out, Handled(tcp_conn[i], d, out),
             \A p, q \in out : p = q,
             Tick([tcp_conn EXCEPT ![i] = d], out)
      PROVE  \E k \in Slots : \E u, o : Touches(tcp_conn, u, k, o) /\ Tick(u, o)
  <2> DEFINE u == [tcp_conn EXCEPT ![i] = d]
  <2>1. d \in Tcbs
    BY <1>3 DEF Handled
  <2>2. u \in [Slots -> Tcbs] /\ u[i] = d /\ \A j \in Slots : j # i => u[j] = tcp_conn[j]
    BY <1>1, <2>1
  <2>3. Tick(u, out)
    BY <1>3
  <2> HIDE DEF u
  <2>4. Touches(tcp_conn, u, i, out)
    BY <1>3, <2>2 DEF Touches
  <2>5. QED
    BY <2>3, <2>4
<1>4. CASE NoSegment
  BY <1>2, <1>4 DEF NoSegment
<1>5. ASSUME NEW f \in Frames, HandleSyn(f)
      PROVE  \E i \in Slots : \E u, out : Touches(tcp_conn, u, i, out) /\ Tick(u, out)
  <2>1. PICK i \in free_slot(tcp_conn) :
          Tick([tcp_conn EXCEPT ![i] = SendReliably(Opened(tcp_conn[i], f), SynAck(tcp_conn[i], f))],
               {SynAck(tcp_conn[i], f)})
    BY <1>5 DEF HandleSyn
  <2>2. i \in Slots /\ ~tcp_conn[i].usued
    BY DEF free_slot, First
  <2> DEFINE p == SynAck(tcp_conn[i], f)
             d == SendReliably(Opened(tcp_conn[i], f), p)
  <2>3. Opened(tcp_conn[i], f) \in Tcbs /\ {"SYN", "ACK"} \in SUBSET Flags /\ 0 \in Int
    BY <1>1, <2>2, HandlerTypes DEF Flags
  <2>4. p = Segment({"SYN", "ACK"}, Opened(tcp_conn[i], f), 0)
    BY DEF SynAck
  <2>5. Handled(tcp_conn[i], d, {p})
    BY <1>1, <2>2, <2>3, <2>4, SendHandled
  <2>6. Tick([tcp_conn EXCEPT ![i] = d], {p})
    BY <2>1
  <2> HIDE DEF p, d
  <2>7. QED
    BY <1>3, <2>2, <2>5, <2>6
<1>6. ASSUME NEW f \in Frames, DropUnknown(f)
      PROVE  \E i \in Slots : \E u, out : Touches(tcp_conn, u, i, out) /\ Tick(u, out)
  BY <1>2, <1>6 DEF DropUnknown
<1>7. ASSUME NEW f \in Frames, NEW i \in find_tcp(tcp_conn, f.flow),
             \/ SynRcvd(i, f) \/ LastAck(i, f) \/ OtherState(i, f)
             \/ EstablishedData(i, f) \/ EstablishedAck(i, f) \/ EstablishedFin(i, f)
      PROVE  \E k \in Slots : \E u, out : Touches(tcp_conn, u, k, out) /\ Tick(u, out)
  <2> DEFINE c == tcp_conn[i]
  <2>1. i \in Slots /\ c \in Tcbs /\ c.usued
    BY <1>1, <1>7 DEF find_tcp, First
  <2>2. CASE SynRcvd(i, f)
    <3>1. Handled(c, Confirmed(c, f), {})
      BY <2>1, <2>2, QuietHandled DEF SynRcvd, InState
    <3>2. Tick([tcp_conn EXCEPT ![i] = Confirmed(c, f)], {})
      BY <2>2 DEF SynRcvd
    <3>3. QED
      BY <1>3, <2>1, <3>1, <3>2
  <2>3. CASE LastAck(i, f)
    <3>1. Handled(c, Released(c, f), {})
      BY <2>1, QuietHandled
    <3>2. Tick([tcp_conn EXCEPT ![i] = Released(c, f)], {})
      BY <2>3 DEF LastAck
    <3>3. QED
      BY <1>3, <2>1, <3>1, <3>2
  <2>4. CASE OtherState(i, f)
    BY <1>2, <2>4 DEF OtherState
  <2>5. CASE EstablishedAck(i, f)
    <3>1. Handled(c, Acked(c, f), {})
      BY <2>1, <2>5, QuietHandled DEF EstablishedAck, InState
    <3>2. Tick([tcp_conn EXCEPT ![i] = Acked(c, f)], {})
      BY <2>5 DEF EstablishedAck
    <3>3. QED
      BY <1>3, <2>1, <3>1, <3>2
  <2>6. CASE EstablishedFin(i, f)
    <3> DEFINE p == FinAck(c, f)
               d == SendReliably(Closing(c, f), p)
    <3>1. Closing(c, f) \in Tcbs /\ {"FIN", "ACK"} \in SUBSET Flags /\ 0 \in Int
      BY <2>1, HandlerTypes DEF Flags
    <3>2. Closing(c, f).send_next = c.send_next
      <4>1. Acked(c, f) \in Tcbs /\ Acked(c, f).send_next = c.send_next
        BY <2>1, HandlerTypes DEF Acked, close_tcp_timer, Tcbs
      <4>2. QED
        BY <4>1 DEF Closing, Tcbs
    <3>3. c.state = "ESTABLISHED" /\ p = Segment({"FIN", "ACK"}, Closing(c, f), 0)
      BY <2>6 DEF EstablishedFin, InState, FinAck
    <3>4. Handled(c, d, {p})
      BY <2>1, <3>1, <3>2, <3>3, SendHandled
    <3>5. Tick([tcp_conn EXCEPT ![i] = d], {p})
      BY <2>6 DEF EstablishedFin
    <3> HIDE DEF p, d
    <3>6. QED
      BY <1>3, <2>1, <3>4, <3>5
  <2>7. CASE EstablishedData(i, f)
    <3> DEFINE p == Echo(c, f)
               d == SendReliably(Echoed(c, f), p)
               t == [tcp_conn EXCEPT ![i] = d]
    <3>1. /\ Echoed(c, f) \in Tcbs /\ Echoed(c, f).send_next = c.send_next
          /\ Echoed(c, f).usued = c.usued
          /\ {"ACK", "PSH"} \in SUBSET Flags /\ f.len \in Int
      BY <2>1, HandlerTypes, FrameType DEF Flags, Echoed, Tcbs
    <3>2. c.state = "ESTABLISHED" /\ p = Segment({"ACK", "PSH"}, Echoed(c, f), f.len)
      BY <2>7 DEF EstablishedData, InState, Echo
    <3>3. Handled(c, d, {p}) /\ d.usued /\ ~GivesUp(d)
      <4> DEFINE e == Echoed(c, f)
      <4>1. d = SendReliably(e, p) /\ p \in {p}
        OBVIOUS
      <4> HIDE DEF c, d, e, p
      <4>2. Handled(c, d, {p}) /\ d.usued = e.usued /\ ~GivesUp(d)
        BY <2>1, <3>1, <3>2, <4>1, SendHandled DEF e
      <4>3. QED
        BY <2>1, <3>1, <4>2 DEF e
    <3>4. PICK u \in overrun(t, i, f.len) : Tick(u, {p})
      BY <2>7 DEF EstablishedData
    <3>5. d \in Tcbs
      BY <3>3 DEF Handled
    <3>flow. p.flow = c.flow /\ p.len = f.len
      BY <2>1, <3>2 DEF Segment, Echoed, Tcbs
    <3> HIDE DEF p, d
    <3>6. t \in [Slots -> Tcbs] /\ t[i] = d /\ \A j \in Slots : j # i => t[j] = tcp_conn[j]
      BY <1>1, <2>1, <3>5
    <3> HIDE DEF t
    <3>7. u \in [Slots -> Tcbs] /\ \A j \in Slots : j \notin Reach(i, f.len) => u[j] = t[j]
      BY <2>1, <3>1, <3>6, overrunType
    <3>8. u[i] = d
      <4>1. i \notin Reach(i, f.len)
        BY <2>1 DEF Reach, Reaches, Slots
      <4>2. QED
        BY <2>1, <3>6, <3>7, <4>1
    <3>9. ASSUME NEW j \in Slots, j # i PROVE u[j] = tcp_conn[j] \/ Overran(tcp_conn, i, j, {p})
      <4>1. CASE j \notin Reach(i, f.len)
        BY <3>6, <3>7, <3>9, <4>1
      <4>2. CASE j \in Reach(i, f.len)
        <5>1. ~Fits(f.len)
          BY <2>1, <3>1, <4>2, FitsReachesNothing
        <5>2. ~FramesFit
          BY <5>1, FrameType DEF FramesFit
        <5>3. QED
          BY <2>1, <3>2, <3>flow, <4>2, <5>2 DEF Overran
      <4>3. QED
        BY <4>1, <4>2
    <3>10. Touches(tcp_conn, u, i, {p})
      BY <3>3, <3>7, <3>8, <3>9 DEF Touches
    <3>11. QED
      BY <2>1, <3>4, <3>10
  <2>8. QED
    BY <1>7, <2>2, <2>3, <2>4, <2>5, <2>6, <2>7
<1>8. QED
  BY <1>4, <1>5, <1>6, <1>7 DEF TickIteration, SegmentIteration

\* A step either leaves the table as it is or is such an iteration.
LEMMA StepTouches ==
    ASSUME TypeOK, [Next]_vars
    PROVE  \/ tcp_conn' = tcp_conn
           \/ \E i \in Slots : \E u, out : Touches(tcp_conn, u, i, out) /\ Tick(u, out)
<1>1. CASE TickIteration
  BY <1>1, IterationTouches
<1>2. CASE Runt \/ LoopBreaks \/ (\E f \in Frames : Crash(f)) \/ UNCHANGED vars
  BY <1>2 DEF Runt, LoopBreaks, Crash, TableFull, EchoCrash, vars
<1>3. QED
  BY <1>1, <1>2 DEF Next

-----------------------------------------------------------------------------
(***************************************************************************)
(* The timer.                                                              *)
(***************************************************************************)
\* The count of a timer within its interval does not wrap.
LEMMA TimerInRange ==
    ASSUME NEW c \in Tcbs, TimerOK(c), c.time_active
    PROVE  Wrap(c.rto_counts + 1) = c.rto_counts + 1
<1>1. c.rto_counts \in Nat /\ c.rto_ticks \in Ticks /\ c.rto_ticks \in Nat
  BY DEF Tcbs, Ticks
<1>2. c.rto_counts + 1 \in Ticks
  BY <1>1, TimerAssumption DEF TimerOK, Ticks
<1>3. QED
  BY <1>2, WrapType

\* A tick keeps a timer within its interval.
LEMMA tickTimer ==
    ASSUME NEW c \in Tcbs, TimerOK(c)
    PROVE  TimerOK(tick(c))
<1>1. /\ c.retry_count \in Nat /\ c.rto_counts \in Nat /\ c.rto_ticks \in Nat
      /\ c.rto_ticks \in Ticks
  BY DEF Tcbs, Ticks
<1>2. MAX_RETRIES \in Nat /\ INITIAL_RTO_TICKS \in Nat \ {0}
  BY TimerAssumption
<1>3. CASE GivesUp(c)
  <2>1. tick(c).time_active = FALSE /\ tick(c).retry_count = c.retry_count
    BY <1>3 DEF tick, Tcbs
  <2>2. QED
    BY <2>1 DEF TimerOK
<1>4. CASE ~GivesUp(c) /\ Resends(c)
  <2>1. /\ tick(c).retry_count = c.retry_count + 1 /\ tick(c).rto_counts = 0
        /\ tick(c).rto_ticks = Wrap(2 * c.rto_ticks)
    BY <1>4 DEF tick, Tcbs
  <2>2. c.time_active /\ c.retry_count < MAX_RETRIES
    BY <1>4 DEF Resends, Due, Armed
  <2>3. c.rto_ticks = INITIAL_RTO_TICKS * 2 ^ c.retry_count /\ c.rto_counts < c.rto_ticks
    BY <2>2 DEF TimerOK
  <2>4. 2 ^ (c.retry_count + 1) = 2 * 2 ^ c.retry_count /\ 2 ^ c.retry_count \in Nat
    BY <1>1, PowerDoubles, PowerIsSize
  <2>5. \A a, b \in Nat : 2 * (a * b) = a * (2 * b)
    OBVIOUS
  <2>6. 2 * c.rto_ticks = INITIAL_RTO_TICKS * 2 ^ (c.retry_count + 1)
    BY <1>2, <2>3, <2>4, <2>5
  <2>7. 0 < 2 * c.rto_ticks /\ c.retry_count + 1 <= MAX_RETRIES
    BY <1>1, <1>2, <2>2, <2>3
  <2>8. Wrap(2 * c.rto_ticks) = 2 * c.rto_ticks
    <3>1. c.retry_count + 1 \in 0 .. MAX_RETRIES
      BY <1>1, <1>2, <2>7
    <3>2. INITIAL_RTO_TICKS * 2 ^ (c.retry_count + 1) < TICK_MOD
      BY <3>1, TimerAssumption
    <3>3. 2 * c.rto_ticks < TICK_MOD
      BY <2>6, <3>2
    <3>4. 2 * c.rto_ticks \in Ticks
      BY <1>1, <3>3, TimerAssumption DEF Ticks
    <3>5. QED
      BY <3>4, WrapType
  <2>9. QED
    BY <2>1, <2>6, <2>7, <2>8 DEF TimerOK
<1>5. CASE ~GivesUp(c) /\ ~Resends(c) /\ Armed(c)
  <2>1. /\ tick(c).retry_count = c.retry_count /\ tick(c).rto_counts = c.rto_counts + 1
        /\ tick(c).rto_ticks = c.rto_ticks
    BY <1>5, TimerInRange DEF tick, Tcbs, Armed
  <2>2. c.rto_counts + 1 < c.rto_ticks
    BY <1>1, <1>2, <1>5, TimerInRange DEF GivesUp, Resends, Due, Armed
  <2>3. QED
    BY <1>5, <2>1, <2>2 DEF TimerOK, Armed
<1>6. CASE ~GivesUp(c) /\ ~Resends(c) /\ ~Armed(c)
  BY <1>6 DEF tick
<1>7. QED
  BY <1>3, <1>4, <1>5, <1>6

\* Stands by itself under steps when frames fit: the timers of all slots.
TimerInv == TypeOK /\ \A i \in Slots : TimerOK(tcp_conn[i])

LEMMA InitTimer == Init => TimerInv
<1> SUFFICES ASSUME Init PROVE TimerInv
  OBVIOUS
<1>1. \A i \in Slots : tcp_conn[i].time_active = FALSE /\ tcp_conn[i].retry_count = 0
  BY DEF Init, ZeroTcb
<1>2. QED
  BY <1>1, InitType, TimerAssumption DEF TimerInv, TimerOK

LEMMA TimerStep == ASSUME FramesFit, TimerInv, [Next]_vars PROVE TimerInv'
<1>1. TypeOK /\ TypeOK'
  BY TypeStep DEF TimerInv
<1>2. CASE tcp_conn' = tcp_conn
  BY <1>1, <1>2 DEF TimerInv
<1>3. ASSUME NEW i \in Slots, NEW u, NEW out, Touches(tcp_conn, u, i, out), Tick(u, out),
             NEW j \in Slots
      PROVE  TimerOK(tcp_conn'[j])
  <2>1. tcp_conn[j] \in Tcbs /\ TimerOK(tcp_conn[j]) /\ u[j] \in Tcbs
    BY <1>1, <1>3 DEF TimerInv, TypeOK, Touches
  <2>2. tcp_conn'[j] = tick(u[j])
    BY <1>3 DEF Tick, tcp_timer_tick
  <2>3. TimerOK(u[j])
    <3>1. CASE j = i
      BY <1>3, <2>1, <3>1 DEF Touches, Handled
    <3>2. CASE j # i /\ u[j] = tcp_conn[j]
      BY <2>1, <3>2
    <3>3. QED
      BY <1>3, <3>1, <3>2 DEF Touches, Overran
  <2>4. QED
    BY <2>1, <2>2, <2>3, tickTimer
<1>4. QED
  BY <1>1, <1>2, <1>3, StepTouches DEF TimerInv

LEMMA TimerHolds == ASSUME FramesFit PROVE Spec => []TimerInv
<1>1. TimerInv /\ [Next]_vars => TimerInv'
  BY TimerStep
<1>2. QED
  BY InitTimer, <1>1, PTL DEF Spec

\* As long as frames fit, tcp_timer_tick doubles the interval with every
\* retransmission and stops at MAX_RETRIES, whatever restarts the timer, and the
\* doubling never leaves the width of the field.
THEOREM BacksOff == ASSUME FramesFit PROVE Spec => []Backoff
<1>1. TimerInv => Backoff
  BY DEF TimerInv, Backoff, TimerOK, Armed
<1>2. QED
  BY <1>1, TimerHolds, PTL

-----------------------------------------------------------------------------
(***************************************************************************)
(* What one iteration may disturb.                                         *)
(***************************************************************************)
\* A slot the handler left alone is moved by nothing, and loses its connection
\* only after all of its retransmissions.
LEMMA TickDisturbsNothing ==
    ASSUME TypeOK, NEW j \in Slots, tcp_conn'[j] = tick(tcp_conn[j])
    PROVE  ~Moves(j) /\ ~Disturbed(j) /\ (tcp_conn[j].usued /\ ~tcp_conn'[j].usued => TimedOut(j))
<1> DEFINE c == tcp_conn[j]
<1>1. c \in Tcbs
  BY DEF TypeOK
<1>2. /\ tick(c).flow = c.flow /\ tick(c).send_next = c.send_next
      /\ tick(c).recv_next = c.recv_next /\ tick(c).unreact_pkg = c.unreact_pkg
      /\ GivesUp(c) => tick(c).usued = FALSE
      /\ ~GivesUp(c) => tick(c).usued = c.usued /\ tick(c).state = c.state
  BY <1>1, tickFields
<1>3. CASE GivesUp(c)
  <2>1. tick(c).state = "CLOSED"
    BY <1>1, <1>3 DEF tick, Tcbs
  <2>2. c.retry_count >= MAX_RETRIES
    BY <1>3 DEF GivesUp
  <2>3. TimedOut(j)
    BY <2>1, <2>2 DEF TimedOut
  <2>4. ~Moves(j)
    BY <1>2, <1>3 DEF Moves
  <2>5. QED
    BY <2>3, <2>4 DEF Disturbed
<1>4. CASE ~GivesUp(c)
  <2>1. ~Moves(j)
    BY <1>2, <1>4 DEF Moves
  <2>2. QED
    BY <1>2, <1>4, <2>1 DEF Disturbed
<1>5. QED
  BY <1>3, <1>4

\* Slots other than the one handled, when no frame runs over.
LEMMA OthersTick ==
    ASSUME NEW i \in Slots, NEW u, NEW out, Touches(tcp_conn, u, i, out), Tick(u, out),
           NEW j \in Slots, j # i, ~Overran(tcp_conn, i, j, out)
    PROVE  tcp_conn'[j] = tick(tcp_conn[j])
BY DEF Touches, Tick, tcp_timer_tick

\* No frame of one client, and no tick, disturbs the connection of another.
LEMMA IsolatedHolds == ASSUME FramesFit, TypeOK, [Next]_vars PROVE IsolatedStep
<1> SUFFICES ASSUME NEW i \in Slots, Moves(i), NEW j \in Slots \ {i}
             PROVE  ~Moves(j) /\ (tcp_conn[j].usued /\ ~tcp_conn'[j].usued => TimedOut(j))
  BY DEF IsolatedStep
<1>1. tcp_conn' # tcp_conn
  BY DEF Moves
<1>slot. PICK k \in Slots : \E u, out : Touches(tcp_conn, u, k, out) /\ Tick(u, out)
  BY <1>1, StepTouches
<1>3. PICK u, out : Touches(tcp_conn, u, k, out) /\ Tick(u, out)
  BY <1>slot
<1>4. \A l \in Slots : l # k => tcp_conn'[l] = tick(tcp_conn[l])
  BY <1>3, OthersTick DEF Overran
<1>5. i = k
  BY <1>4, TickDisturbsNothing
<1>6. QED
  BY <1>4, <1>5, TickDisturbsNothing

\* As long as frames fit, one iteration moves at most one connection; another
\* one goes away only by its own timer, after MAX_RETRIES retransmissions.
THEOREM ClientsIsolated == ASSUME FramesFit PROVE Spec => Isolation
<1>1. TypeOK /\ [Next]_vars => [IsolatedStep]_vars
  BY IsolatedHolds
<1>2. QED
  BY <1>1, TypeCorrect, PTL DEF Spec, Isolation

\* The step of DamageIsBehind.
BehindStep ==
    \A i, j \in Slots :
        i # j /\ Disturbed(i) /\ Disturbed(j) => \E e \in Slots : EchoReaches(e, {i, j} \ {e})

LEMMA BehindHolds == ASSUME TypeOK, [Next]_vars PROVE BehindStep
<1> SUFFICES ASSUME NEW i \in Slots, NEW j \in Slots, i # j, Disturbed(i), Disturbed(j)
             PROVE  \E e \in Slots : EchoReaches(e, {i, j} \ {e})
  BY DEF BehindStep
<1>1. tcp_conn' # tcp_conn
  BY DEF Disturbed, Moves
<1>slot. PICK k \in Slots : \E u, out : Touches(tcp_conn, u, k, out) /\ Tick(u, out)
  BY <1>1, StepTouches
<1>2. PICK u, out : Touches(tcp_conn, u, k, out) /\ Tick(u, out)
  BY <1>slot
<1>3. \A l \in Slots : l # k /\ Disturbed(l) => Overran(tcp_conn, k, l, out)
  BY <1>2, OthersTick, TickDisturbsNothing
<1>4. \A p, q \in out : p = q
  BY <1>2 DEF Touches
<1>5. PICK l \in {i, j} : l # k
  OBVIOUS
<1>6. tcp_conn[k].usued /\ tcp_conn[k].state = "ESTABLISHED"
  BY <1>3, <1>5 DEF Overran
<1>7. PICK p \in out : p.flow = tcp_conn[k].flow /\ l \in Reach(k, p.len)
  BY <1>3, <1>5 DEF Overran
<1>8. {i, j} \ {k} \subseteq Reach(k, p.len)
  BY <1>3, <1>4, <1>7 DEF Overran
<1>9. p \in sent'
  BY <1>2, <1>7 DEF Tick
<1>10. EchoReaches(k, {i, j} \ {k})
  BY <1>6, <1>7, <1>8, <1>9 DEF EchoReaches
<1>11. QED
  BY <1>10

\* The unchecked memcpy of start_tcp_timer, for frames of any length and blocks
\* overwritten with any bytes: when one iteration disturbs two slots, one echo
\* accounts for both, and no slot in front of the echoing one is disturbed.
THEOREM DamageStaysBehind == Spec => DamageIsBehind
<1>1. TypeOK /\ [Next]_vars => [BehindStep]_vars
  BY BehindHolds
<1>2. QED
  BY <1>1, TypeCorrect, PTL DEF Spec, DamageIsBehind, BehindStep

\* The step of SendNextFollowsSegments.
FollowsStep ==
    \A i \in Slots :
        /\ tcp_conn[i].usued /\ tcp_conn'[i].usued
        /\ tcp_conn[i].send_next # tcp_conn'[i].send_next
        => \E p \in sent' : p.seq = tcp_conn[i].send_next /\ Newest(p, tcp_conn'[i])

LEMMA FollowsHolds == ASSUME FramesFit, TypeOK, [Next]_vars PROVE FollowsStep
<1> SUFFICES ASSUME NEW j \in Slots, tcp_conn[j].usued, tcp_conn'[j].usued,
                    tcp_conn[j].send_next # tcp_conn'[j].send_next
             PROVE  \E p \in sent' : p.seq = tcp_conn[j].send_next /\ Newest(p, tcp_conn'[j])
  BY DEF FollowsStep
<1>slot. PICK i \in Slots : \E u, out : Touches(tcp_conn, u, i, out) /\ Tick(u, out)
  BY StepTouches
<1>1. PICK u, out : Touches(tcp_conn, u, i, out) /\ Tick(u, out)
  BY <1>slot
<1>2. /\ u[j] \in Tcbs /\ tcp_conn[j] \in Tcbs /\ tcp_conn'[j] = tick(u[j])
      /\ out \subseteq sent'
  BY <1>1 DEF Touches, TypeOK, Tick, tcp_timer_tick
<1>3. /\ tcp_conn'[j].flow = u[j].flow /\ tcp_conn'[j].send_next = u[j].send_next
      /\ tcp_conn'[j].recv_next = u[j].recv_next /\ u[j].usued
  <2>1. CASE GivesUp(u[j])
    BY <1>2, <2>1, tickFields
  <2>2. CASE ~GivesUp(u[j])
    BY <1>2, <2>2, tickFields
  <2>3. QED
    BY <2>1, <2>2
<1>4. j = i
  <2>1. CASE j # i /\ u[j] = tcp_conn[j]
    BY <1>3, <2>1
  <2>2. QED
    BY <1>1, <2>1 DEF Touches, Overran
<1>5. PICK p \in out : p.seq = tcp_conn[j].send_next /\ Newest(p, u[j])
  BY <1>1, <1>3, <1>4 DEF Touches, Handled
<1>6. Newest(p, tcp_conn'[j])
  BY <1>3, <1>5 DEF Newest
<1>7. QED
  BY <1>2, <1>5, <1>6

\* As long as frames fit, send_next never skips: it moves by exactly what a
\* segment of handle_tcp, written in the same iteration, occupies.
THEOREM NoSequenceSkipped == ASSUME FramesFit PROVE Spec => SendNextFollowsSegments
<1>1. TypeOK /\ [Next]_vars => [FollowsStep]_vars
  BY FollowsHolds
<1>2. QED
  BY <1>1, TypeCorrect, PTL DEF Spec, SendNextFollowsSegments, FollowsStep

\* The arithmetic of one tick: a ticks per interval at first, 2 ^ (m + 1) of them
\* in all, interval number r of length a * 2 ^ r, of which s ticks are over.
Left(a, m, r, s) == a * (2 ^ (m + 1) - 2 ^ r) - s

LEMMA LeftWithin ==
    ASSUME NEW a \in Nat \ {0}, NEW m \in Nat, NEW r \in Nat, r <= m,
           NEW s \in Nat, s < a * 2 ^ r
    PROVE  Left(a, m, r, s) \in Nat \ {0}
<1>1. PICK x \in Nat \ {0} : x = 2 ^ r
  BY PowerIsSize
<1>2. PICK y \in Nat : y = 2 ^ (m + 1)
  <2>1. m + 1 \in Nat
    OBVIOUS
  <2>2. QED
    BY <2>1, PowerIsSize
<1>3. 2 * x <= y
  <2>1. r + 1 \in Nat /\ m + 1 \in Nat /\ r + 1 <= m + 1
    OBVIOUS
  <2>2. 2 ^ (r + 1) <= 2 ^ (m + 1) /\ 2 ^ (r + 1) = 2 * 2 ^ r
    BY <2>1, PowerMonotone, PowerDoubles
  <2>3. QED
    BY <1>1, <1>2, <2>2
<1>4. PICK z \in Nat : y = 2 * x + z
  <2>1. y - 2 * x \in Nat /\ y = 2 * x + (y - 2 * x)
    BY <1>3
  <2>2. QED
    BY <2>1
<1>5. a * (y - x) = a * x + a * z
  BY <1>4
<1>6. a * z \in Nat /\ a * x \in Nat /\ s < a * x
  BY <1>1
<1>7. a * x + a * z - s \in Nat \ {0}
  BY <1>6
<1>8. QED
  BY <1>1, <1>2, <1>5, <1>7 DEF Left

\* The last tick of an interval and the first of the next, twice as long.
LEMMA LeftDoubles ==
    ASSUME NEW a \in Nat \ {0}, NEW m \in Nat, NEW r \in Nat,
           NEW s \in Nat, s + 1 = a * 2 ^ r
    PROVE  Left(a, m, r + 1, 0) = Left(a, m, r, s) - 1
<1>1. PICK x \in Nat : x = 2 ^ r
  BY PowerIsSize
<1>2. PICK y \in Nat : y = 2 ^ (m + 1)
  <2>1. m + 1 \in Nat
    OBVIOUS
  <2>2. QED
    BY <2>1, PowerIsSize
<1>3. 2 ^ (r + 1) = 2 * x
  BY <1>1, PowerDoubles
<1>4. a * (y - x) = a * (y - 2 * x) + a * x
  OBVIOUS
<1>5. PICK v \in Int : v = a * (y - 2 * x)
  OBVIOUS
<1>6. PICK w \in Int : w = a * x
  OBVIOUS
<1>7. s + 1 = w
  BY <1>1, <1>6
<1>8. Left(a, m, r + 1, 0) = v - 0
  BY <1>2, <1>3, <1>5 DEF Left
<1>9. Left(a, m, r, s) = v + w - s
  BY <1>1, <1>2, <1>4, <1>5, <1>6 DEF Left
<1>10. QED
  BY <1>7, <1>8, <1>9

\* A tick that leaves the connection in place brings its end nearer.
LEMMA tickCounts ==
    ASSUME NEW c \in Tcbs, TimerOK(c), Armed(c), tick(c).usued
    PROVE  Remaining(tick(c)) \in 1 .. Remaining(c) - 1
<1> DEFINE d == tick(c)
<1>1. /\ c.retry_count \in Nat /\ c.rto_counts \in Nat /\ c.rto_ticks \in Nat
      /\ MAX_RETRIES \in Nat /\ INITIAL_RTO_TICKS \in Nat \ {0}
  BY TimerAssumption DEF Tcbs, Ticks
<1>2. d \in Tcbs /\ TimerOK(d) /\ ~GivesUp(c)
  BY tickType, tickTimer, tickFields
<1>3. d.time_active /\ d.retry_count \in Nat /\ d.rto_counts \in Nat
  <2>1. d.time_active
    BY <1>2, tickFields DEF Armed
  <2> HIDE DEF d
  <2>2. d.retry_count \in Nat /\ d.rto_counts \in Nat
    BY <1>2 DEF Tcbs, Ticks
  <2>3. QED
    BY <2>1, <2>2
<1>4. /\ Remaining(c) = Left(INITIAL_RTO_TICKS, MAX_RETRIES, c.retry_count, c.rto_counts)
      /\ Remaining(d) = Left(INITIAL_RTO_TICKS, MAX_RETRIES, d.retry_count, d.rto_counts)
  BY DEF Remaining, Left
<1>5. Remaining(c) \in Nat \ {0}
  BY <1>1, <1>4, LeftWithin DEF TimerOK, Armed
<1>6. Remaining(d) \in Nat \ {0}
  BY <1>1, <1>2, <1>3, <1>4, LeftWithin DEF TimerOK
<1>7. Remaining(d) = Remaining(c) - 1
  <2>1. CASE Resends(c)
    <3>1. d.retry_count = c.retry_count + 1 /\ d.rto_counts = 0
      BY <1>2, <2>1 DEF tick, Tcbs
    <3>2. c.rto_counts + 1 = c.rto_ticks
      BY <1>1, <2>1, TimerInRange DEF Resends, Due, TimerOK, Armed
    <3>3. c.rto_ticks = INITIAL_RTO_TICKS * 2 ^ c.retry_count
      BY DEF TimerOK, Armed
    <3> HIDE DEF d
    <3>4. QED
      BY <1>1, <1>4, <3>1, <3>2, <3>3, LeftDoubles
  <2>2. CASE ~Resends(c)
    <3>1. d.retry_count = c.retry_count /\ d.rto_counts = c.rto_counts + 1
      BY <1>2, <2>2, TimerInRange DEF tick, Tcbs, Armed
    <3>2. PICK v \in Int : v = INITIAL_RTO_TICKS * (2 ^ (MAX_RETRIES + 1) - 2 ^ c.retry_count)
      <4>1. 2 ^ (MAX_RETRIES + 1) \in Int /\ 2 ^ c.retry_count \in Int
        BY <1>1, PowerIsSize
      <4>2. QED
        BY <1>1, <4>1
    <3>3. Remaining(c) = v - c.rto_counts /\ Remaining(d) = v - (c.rto_counts + 1)
      BY <3>1, <3>2 DEF Remaining
    <3> HIDE DEF d
    <3>4. QED
      BY <1>1, <3>3
  <2>3. QED
    BY <2>1, <2>2
<1> HIDE DEF d
<1>8. Remaining(d) \in 1 .. Remaining(c) - 1
  BY <1>5, <1>6, <1>7
<1>9. QED
  BY <1>8 DEF d

\* The step of Countdown.
CountdownStep ==
    \A i \in Slots :
        LET c == tcp_conn[i]  d == tcp_conn'[i]
        IN  HalfOpen(c) /\ HalfOpen(d) /\ c.state = d.state /\ tcp_conn' # tcp_conn
            => Remaining(d) \in 1 .. Remaining(c) - 1

LEMMA CountdownHolds == ASSUME FramesFit, TimerInv, HalfOpenGuarded, [Next]_vars PROVE CountdownStep
<1> SUFFICES ASSUME NEW j \in Slots, HalfOpen(tcp_conn[j]), HalfOpen(tcp_conn'[j]),
                    tcp_conn[j].state = tcp_conn'[j].state, tcp_conn' # tcp_conn
             PROVE  Remaining(tcp_conn'[j]) \in 1 .. Remaining(tcp_conn[j]) - 1
  BY DEF CountdownStep
<1>1. TypeOK
  BY DEF TimerInv
<1>slot. PICK i \in Slots : \E u, out : Touches(tcp_conn, u, i, out) /\ Tick(u, out)
  BY <1>1, StepTouches
<1>2. PICK u, out : Touches(tcp_conn, u, i, out) /\ Tick(u, out)
  BY <1>slot
<1>3. u[j] \in Tcbs /\ tcp_conn[j] \in Tcbs /\ TimerOK(tcp_conn[j]) /\ tcp_conn'[j] = tick(u[j])
  BY <1>1, <1>2 DEF Touches, TypeOK, TimerInv, Tick, tcp_timer_tick
<1>4. tcp_conn'[j].usued /\ ~GivesUp(u[j])
  BY <1>3, tickFields DEF HalfOpen
<1>5. HalfOpen(u[j]) /\ u[j].state = tcp_conn'[j].state
  BY <1>3, <1>4, tickFields DEF HalfOpen
<1>6. u[j] = tcp_conn[j]
  <2>1. CASE j = i
    BY <1>2, <1>5, <2>1 DEF Touches, Handled
  <2>2. CASE j # i
    BY <1>2, <2>2 DEF Touches, Overran
  <2>3. QED
    BY <2>1, <2>2
<1>7. Armed(tcp_conn[j])
  BY DEF HalfOpenGuarded, Guarded, HalfOpen, Armed
<1>8. QED
  BY <1>3, <1>4, <1>6, <1>7, tickCounts

\* As long as frames fit, no client holds a slot half open: whatever it sends,
\* every tcp_timer_tick brings a connection that stays in SYN_RCVD or LAST_ACK
\* nearer to being given up, and the number of ticks left is finite.
THEOREM HalfOpenEnds == ASSUME FramesFit PROVE Spec => Countdown
<1>1. TimerInv /\ IInv /\ [Next]_vars => [CountdownStep]_vars
  BY CountdownHolds, IInvImplies
<1>2. QED
  BY <1>1, TimerHolds, IInvHolds, PTL DEF Spec, Countdown, CountdownStep

=============================================================================
