------------------------- MODULE EpollServerProofs --------------------------
(***************************************************************************)
(* EpollServer for any number of clients and any sizes: no event is stale, *)
(* no wake-up is lost, and the echo is in order.                           *)
(***************************************************************************)
EXTENDS EpollServer, SequenceTheorems, TLAPS

(***************************************************************************)
(* The inductive invariant.  A list that holds a descriptor once no longer *)
(* holds it when it has been taken out: the close of a connection leaves   *)
(* no event behind, and the accept of one adds a socket that had none.     *)
(***************************************************************************)
Fds == Clients \cup {Listen}

TypeInv ==
    /\ conn \in [Clients -> {"none", "queued", "open", "closed"}] /\ backlog \in Seq(Clients)
    /\ said \in [Clients -> Nat] /\ fin \in [Clients -> BOOLEAN]
    /\ rst \in [Clients -> {"no", "gone", "reset"}]
    /\ rbuf \in [Clients -> Seq(Nat)] /\ sbuf \in [Clients -> Seq(Nat)]
    /\ heard \in [Clients -> Seq(Nat)]
    /\ ready \in Seq(Fds) /\ evs \in Seq(Fds)

Once(s) == \A i, j \in 1 .. Len(s) : s[i] = s[j] => i = j

\* Who waits for accept waits once.
BacklogInv == Once(backlog) /\ \A c \in Elements(backlog) : conn[c] = "queued"

Inv == TypeInv /\ BacklogInv /\ Once(ready) /\ Once(evs) /\ NoStaleEvent /\ NoLostWakeup

(***************************************************************************)
(* Lists and what they hold.                                               *)
(***************************************************************************)
LEMMA Appended ==
    ASSUME NEW S, NEW s \in Seq(S), NEW e \in S
    PROVE  /\ Append(s, e) \in Seq(S) /\ Elements(Append(s, e)) = Elements(s) \cup {e}
           /\ Once(s) /\ e \notin Elements(s) => Once(Append(s, e))
<1> DEFINE t == Append(s, e)
<1>1. t \in Seq(S) /\ Len(t) = Len(s) + 1 /\ Len(s) \in Nat /\ t[Len(s) + 1] = e
  OBVIOUS
<1>2. \A i \in 1 .. Len(s) : t[i] = s[i]
  OBVIOUS
<1> HIDE DEF t
<1>3. Elements(t) = Elements(s) \cup {e}
  <2>1. \A i \in 1 .. Len(t) : t[i] \in Elements(s) \cup {e}
    <3> TAKE i \in 1 .. Len(t)
    <3>1. i \in 1 .. Len(s) \/ i = Len(s) + 1
      BY <1>1
    <3>2. QED
      BY <3>1, <1>1, <1>2 DEF Elements
  <2>2. \A i \in 1 .. Len(s) : s[i] \in Elements(t)
    BY <1>1, <1>2 DEF Elements
  <2>3. e \in Elements(t)
    BY <1>1 DEF Elements
  <2>4. QED
    BY <2>1, <2>2, <2>3 DEF Elements
<1>4. Once(s) /\ e \notin Elements(s) => Once(t)
  BY <1>1, <1>2 DEF Once, Elements
<1>5. QED
  BY <1>1, <1>3, <1>4 DEF t

LEMMA TakenOff ==
    ASSUME NEW S, NEW s \in Seq(S), s # <<>>, Once(s)
    PROVE  /\ Head(s) \in S /\ Head(s) \in Elements(s) /\ Tail(s) \in Seq(S)
           /\ Elements(Tail(s)) = Elements(s) \ {Head(s)} /\ Once(Tail(s))
<1> DEFINE t == Tail(s)
<1>1. /\ t \in Seq(S) /\ Len(s) \in Nat /\ Len(s) > 0 /\ Len(t) = Len(s) - 1 /\ Head(s) = s[1] /\ Head(s) \in S
      /\ \A i \in 1 .. Len(t) : t[i] = s[i + 1]
  BY EmptySeq, HeadTailProperties
<1> HIDE DEF t
<1>2. \A i \in 1 .. Len(t) : t[i] \in Elements(s) \ {Head(s)}
  BY <1>1 DEF Elements, Once
<1>3. \A i \in 1 .. Len(s) : s[i] # Head(s) => s[i] \in Elements(t)
  <2> SUFFICES ASSUME NEW i \in 1 .. Len(s), s[i] # s[1] PROVE s[i] \in Elements(t)
    BY <1>1
  <2>1. i - 1 \in 1 .. Len(t) /\ t[i - 1] = s[i]
    BY <1>1
  <2>2. QED
    BY <2>1 DEF Elements
<1>4. Elements(t) = Elements(s) \ {Head(s)}
  BY <1>2, <1>3 DEF Elements
<1>5. Once(t)
  <2> SUFFICES ASSUME NEW i \in 1 .. Len(t), NEW j \in 1 .. Len(t), t[i] = t[j] PROVE i = j
    BY DEF Once
  <2>1. i + 1 \in 1 .. Len(s) /\ j + 1 \in 1 .. Len(s) /\ s[i + 1] = s[j + 1]
    BY <1>1
  <2>2. QED
    BY <2>1 DEF Once
<1>6. Head(s) \in Elements(s)
  BY <1>1 DEF Elements
<1>7. QED
  BY <1>1, <1>4, <1>5, <1>6 DEF t

\* A list cut in two.
LEMMA Cut ==
    ASSUME NEW S, NEW s \in Seq(S), NEW k \in 0 .. Len(s), Once(s)
    PROVE  /\ SubSeq(s, 1, k) \in Seq(S) /\ SubSeq(s, k + 1, Len(s)) \in Seq(S)
           /\ Elements(SubSeq(s, 1, k)) \cup Elements(SubSeq(s, k + 1, Len(s))) = Elements(s)
           /\ Once(SubSeq(s, 1, k)) /\ Once(SubSeq(s, k + 1, Len(s)))
<1> DEFINE a == SubSeq(s, 1, k)
           b == SubSeq(s, k + 1, Len(s))
<1>0. Len(s) \in Nat /\ k \in Nat /\ k <= Len(s)
  OBVIOUS
<1>1. a \in Seq(S) /\ Len(a) = k /\ \A i \in 1 .. k : a[i] = s[i]
  BY <1>0, SubSeqProperties
<1>2. b \in Seq(S) /\ Len(b) = Len(s) - k /\ \A i \in 1 .. Len(s) - k : b[i] = s[k + i]
  BY <1>0, SubSeqProperties
<1> HIDE DEF a, b
<1>3. \A i \in 1 .. Len(s) : s[i] \in Elements(a) \cup Elements(b)
  <2> TAKE i \in 1 .. Len(s)
  <2>1. CASE i <= k
    BY <2>1, <1>0, <1>1 DEF Elements
  <2>2. CASE i > k
    <3>1. i - k \in 1 .. Len(b) /\ b[i - k] = s[i]
      BY <2>2, <1>0, <1>2
    <3>2. QED
      BY <3>1 DEF Elements
  <2>3. QED
    BY <2>1, <2>2, <1>0
<1>4. \A i \in 1 .. Len(a) : a[i] \in Elements(s)
  BY <1>0, <1>1 DEF Elements
<1>5. \A i \in 1 .. Len(b) : b[i] \in Elements(s)
  BY <1>0, <1>2 DEF Elements
<1>6. Elements(a) \cup Elements(b) = Elements(s)
  BY <1>3, <1>4, <1>5 DEF Elements
<1>7. Once(a)
  BY <1>0, <1>1 DEF Once
<1>8. Once(b)
  <2> SUFFICES ASSUME NEW i \in 1 .. Len(b), NEW j \in 1 .. Len(b), b[i] = b[j] PROVE i = j
    BY DEF Once
  <2>1. k + i \in 1 .. Len(s) /\ k + j \in 1 .. Len(s) /\ s[k + i] = s[k + j]
    BY <1>0, <1>2
  <2>2. QED
    BY <2>1, <1>0 DEF Once
<1>9. QED
  BY <1>1, <1>2, <1>6, <1>7, <1>8 DEF a, b

\* EPOLL_CTL_DEL takes c, and only c, off the ready list.
LEMMA DeletedIsOff ==
    ASSUME ready \in Seq(Fds), Once(ready), NEW c \in Fds
    PROVE  /\ Deleted(c) \in Seq(Fds) /\ Once(Deleted(c))
           /\ Elements(Deleted(c)) = Elements(ready) \ {c}
<1>1. CASE c \notin Elements(ready)
  BY <1>1 DEF Deleted
<1>2. CASE c \in Elements(ready)
  <2> DEFINE n == CHOOSE k \in 1 .. Len(ready) : ready[k] = c
             L == Len(ready)
             a == SubSeq(ready, 1, n - 1)
             b == SubSeq(ready, n + 1, L)
             t == a \o b
  <2>1. n \in 1 .. L /\ ready[n] = c /\ L \in Nat
    BY <1>2 DEF Elements
  <2>2. Deleted(c) = t
    BY <1>2 DEF Deleted
  <2> HIDE DEF n
  <2>3. a \in Seq(Fds) /\ Len(a) = n - 1 /\ \A i \in 1 .. n - 1 : a[i] = ready[i]
    BY <2>1, SubSeqProperties
  <2>4. b \in Seq(Fds) /\ Len(b) = L - n /\ \A i \in 1 .. L - n : b[i] = ready[n + i]
    BY <2>1, SubSeqProperties
  <2> HIDE DEF a, b
  <2> HIDE DEF L
  <2>5. t \in Seq(Fds) /\ Len(t) = L - 1
    <3>1. t \in Seq(Fds) /\ Len(t) = Len(a) + Len(b)
      BY <2>3, <2>4, ConcatProperties
    <3>2. QED
      BY ONLY <3>1, <2>1, <2>3, <2>4
  <2>6. \A i \in 1 .. L - 1 : t[i] = IF i < n THEN ready[i] ELSE ready[i + 1]
    <3> TAKE i \in 1 .. L - 1
    <3>1. CASE i < n
      BY <3>1, <2>1, <2>3, <2>4
    <3>2. CASE i >= n /\ ~(i < n)
      <4>1. t[i] = b[i - (n - 1)] /\ i - (n - 1) \in 1 .. L - n
        BY <3>2, <2>1, <2>3, <2>4
      <4>2. QED
        BY <4>1, <3>2, <2>1, <2>4
    <3>3. i < n \/ (i >= n /\ ~(i < n))
      BY <2>1
    <3>4. QED
      BY ONLY <3>1, <3>2, <3>3
  <2> HIDE DEF t
  <2>7. Once(t)
    BY <2>1, <2>5, <2>6 DEF Once, L
  <2>8. \A i \in 1 .. Len(t) : t[i] \in Elements(ready) \ {c}
    BY <2>1, <2>5, <2>6 DEF Once, Elements, L
  <2>9. \A i \in 1 .. L : ready[i] # c => ready[i] \in Elements(t)
    <3> SUFFICES ASSUME NEW i \in 1 .. L, i # n PROVE ready[i] \in Elements(t)
      BY <2>1
    <3>1. CASE i < n
      BY <3>1, <2>1, <2>5, <2>6 DEF Elements
    <3>2. CASE i > n
      <4>1. i - 1 \in 1 .. Len(t) /\ t[i - 1] = ready[i]
        BY <3>2, <2>1, <2>5, <2>6
      <4>2. QED
        BY <4>1 DEF Elements
    <3>3. QED
      BY <3>1, <3>2, <2>1
  <2>10. Elements(t) = Elements(ready) \ {c}
    BY <2>8, <2>9 DEF Elements, L
  <2>11. QED
    BY <2>2, <2>5, <2>7, <2>10
<1>3. QED
  BY <1>1, <1>2

\* An edge leaves the descriptor on the ready list, once.
LEMMA EdgeAdds ==
    ASSUME ready \in Seq(Fds), Once(ready), NEW fd \in Fds
    PROVE  /\ Edge(fd) \in Seq(Fds) /\ Once(Edge(fd))
           /\ Elements(Edge(fd)) = Elements(ready) \cup {fd}
BY Appended DEF Edge

-----------------------------------------------------------------------------
(***************************************************************************)
(* The steps.                                                              *)
(***************************************************************************)
LEMMA InitInv == Init => Inv
<1> SUFFICES ASSUME Init PROVE Inv
  OBVIOUS
<1>1. Elements(<<>>) = {} /\ Once(<<>>)
  BY DEF Elements, Once
<1>2. TypeInv
  BY DEF Init, TypeInv
<1>3. QED
  BY <1>1, <1>2 DEF Init, Inv, BacklogInv, NoStaleEvent, NoLostWakeup, Scheduled

LEMMA BacklogClients == TypeInv => Elements(backlog) \subseteq Clients
<1> SUFFICES ASSUME backlog \in Seq(Clients) PROVE Elements(backlog) \subseteq Clients
  BY DEF TypeInv
<1>1. \A i \in 1 .. Len(backlog) : backlog[i] \in Clients
  OBVIOUS
<1>2. QED
  BY <1>1 DEF Elements

\* A connection joins the backlog, and sockfd the ready list.
LEMMA ConnectKeeps == ASSUME Inv, NEW c \in Clients, Connect(c) PROVE Inv'
<1> USE DEF Connect
<1>1. /\ ready' \in Seq(Fds) /\ Once(ready') /\ Elements(ready') = Elements(ready) \cup {Listen}
  BY EdgeAdds DEF Inv, TypeInv, Fds
<1>2. c \notin Elements(backlog)
  BY DEF Inv, BacklogInv
<1>3. backlog' \in Seq(Clients) /\ Once(backlog') /\ Elements(backlog') = Elements(backlog) \cup {c}
  BY <1>2, Appended DEF Inv, BacklogInv, TypeInv
<1>4. conn' \in [Clients -> {"none", "queued", "open", "closed"}]
      /\ conn'[c] = "queued" /\ \A d \in Clients \ {c} : conn'[d] = conn[d]
  BY DEF Inv, TypeInv
<1>5. Elements(evs') = Elements(evs)
  OBVIOUS
<1>6. TypeInv'
  BY <1>1, <1>3, <1>4 DEF Inv, TypeInv, peers
<1>7. Elements(backlog) \subseteq Clients
  BY BacklogClients DEF Inv
<1>8. BacklogInv'
  BY <1>2, <1>3, <1>4, <1>7 DEF Inv, BacklogInv
<1>9. NoStaleEvent'
  BY <1>1, <1>4, <1>5, EpollAssumption DEF Inv, NoStaleEvent, Scheduled
<1>10. NoLostWakeup'
  BY <1>1, <1>4, <1>5 DEF Inv, NoLostWakeup, Scheduled, Readable, peers
<1>11. QED
  BY <1>1, <1>6, <1>8, <1>9, <1>10 DEF Inv

\* Input arrives at c: c is on the ready list if it is in the epoll set.
LEMMA ArrivalKeeps ==
    ASSUME Inv, NEW c \in Clients, Wake(c), TypeInv', UNCHANGED <<conn, backlog, evs, stalled>>,
           \A d \in Clients \ {c} : rbuf'[d] = rbuf[d] /\ fin'[d] = fin[d]
    PROVE  Inv'
<1>1. /\ Once(ready')
      /\ Elements(ready') = IF conn[c] = "open" THEN Elements(ready) \cup {c} ELSE Elements(ready)
  BY EdgeAdds DEF Inv, TypeInv, Fds, Wake
<1>2. Elements(evs') = Elements(evs)
  OBVIOUS
<1>3. BacklogInv' /\ Once(evs')
  BY DEF Inv, BacklogInv
<1>4. NoStaleEvent'
  BY <1>1, <1>2 DEF Inv, NoStaleEvent, Scheduled
<1>5. NoLostWakeup'
  BY <1>1, <1>2 DEF Inv, NoLostWakeup, Scheduled, Readable
<1>6. QED
  BY <1>1, <1>3, <1>4, <1>5 DEF Inv

LEMMA ClientKeeps ==
    ASSUME Inv, NEW c \in Clients, Say(c) \/ Leave(c) \/ Reset(c) \/ Hear(c)
    PROVE  Inv'
<1>1. CASE Say(c)
  <2>1. TypeInv'
    <3>1. ready' \in Seq(Fds)
      BY <1>1, EdgeAdds DEF Say, Wake, Inv, TypeInv, Fds
    <3>2. said' \in [Clients -> Nat] /\ rbuf' \in [Clients -> Seq(Nat)]
      BY <1>1 DEF Say, Inv, TypeInv
    <3>3. QED
      BY <1>1, <3>1, <3>2 DEF Say, Inv, TypeInv
  <2>2. QED
    BY <1>1, <2>1, ArrivalKeeps DEF Say, Inv, TypeInv
<1>2. CASE Leave(c)
  <2>1. TypeInv'
    <3>1. ready' \in Seq(Fds)
      BY <1>2, EdgeAdds DEF Leave, Wake, Inv, TypeInv, Fds
    <3>2. fin' \in [Clients -> BOOLEAN] /\ rst' \in [Clients -> {"no", "gone", "reset"}]
      BY <1>2 DEF Leave, Inv, TypeInv
    <3>3. QED
      BY <1>2, <3>1, <3>2 DEF Leave, Inv, TypeInv
  <2>2. QED
    BY <1>2, <2>1, ArrivalKeeps DEF Leave, Inv, TypeInv
<1>3. CASE Reset(c)
  <2>1. TypeInv'
    <3>1. ready' \in Seq(Fds)
      BY <1>3, EdgeAdds DEF Reset, Wake, Inv, TypeInv, Fds
    <3>2. QED
      BY <1>3, <3>1 DEF Reset, Inv, TypeInv
  <2>2. QED
    BY <1>3, <2>1, ArrivalKeeps DEF Reset
<1>4. CASE Hear(c)
  <2>1. sbuf[c] \in Seq(Nat) /\ Head(sbuf[c]) \in Nat /\ Tail(sbuf[c]) \in Seq(Nat)
    BY <1>4, HeadTailProperties DEF Hear, Inv, TypeInv
  <2>2. sbuf' \in [Clients -> Seq(Nat)] /\ heard' \in [Clients -> Seq(Nat)]
    BY <1>4, <2>1, AppendProperties DEF Hear, Inv, TypeInv
  <2>3. TypeInv'
    BY <1>4, <2>2 DEF Hear, Inv, TypeInv
  <2>4. QED
    BY <1>4, <2>3 DEF Hear, Inv, BacklogInv, NoStaleEvent, NoLostWakeup, Scheduled, Readable
<1>5. QED
  BY <1>1, <1>2, <1>3, <1>4

\* The events of the batch leave the ready list together.
LEMMA EpollWaitKeeps == ASSUME Inv, EpollWait PROVE Inv'
<1> USE DEF EpollWait
<1>1. Batch \in 0 .. Len(ready)
  <2>1. Len(ready) \in Nat
    BY DEF Inv, TypeInv
  <2>2. QED
    BY <2>1, EpollAssumption DEF Batch, Smaller
<1>2. /\ evs' \in Seq(Fds) /\ ready' \in Seq(Fds) /\ Once(evs') /\ Once(ready')
      /\ Elements(evs') \cup Elements(ready') = Elements(ready)
  BY <1>1, Cut DEF Inv, TypeInv
<1>3. TypeInv' /\ BacklogInv'
  BY <1>2 DEF Inv, TypeInv, BacklogInv, peers
<1>4. Elements(evs) = {}
  BY DEF Elements
<1>5. NoStaleEvent'
  BY <1>2 DEF Inv, NoStaleEvent, Scheduled
<1>6. NoLostWakeup'
  BY <1>2, <1>4 DEF Inv, NoLostWakeup, Scheduled, Readable, peers
<1>7. QED
  BY <1>2, <1>3, <1>5, <1>6 DEF Inv

\* accept and add_ev: the socket joins the epoll set with what has arrived.
LEMMA AcceptKeeps == ASSUME Inv, Accept PROVE Inv'
<1> DEFINE c == Head(backlog)
<1>1. /\ c \in Clients /\ c \in Elements(backlog) /\ backlog' \in Seq(Clients)
      /\ Elements(backlog') = Elements(backlog) \ {c} /\ Once(backlog')
  BY TakenOff DEF Inv, TypeInv, BacklogInv, Accept
<1>2. conn[c] = "queued"
  BY <1>1 DEF Inv, BacklogInv
<1>3. /\ conn' \in [Clients -> {"none", "queued", "open", "closed"}]
      /\ conn'[c] = "open" /\ \A d \in Clients \ {c} : conn'[d] = conn[d]
  BY <1>1 DEF Inv, TypeInv, Accept
<1>4. /\ ready' \in Seq(Fds) /\ Once(ready')
      /\ Elements(ready') = IF Readable(c) THEN Elements(ready) \cup {c} ELSE Elements(ready)
  BY <1>1, EdgeAdds DEF Accept, Inv, TypeInv, Fds
<1>5. /\ evs' = evs /\ stalled' = stalled /\ Listen \in Elements(evs)
      /\ rbuf' = rbuf /\ sbuf' = sbuf /\ fin' = fin /\ said' = said /\ rst' = rst /\ heard' = heard
  BY TakenOff DEF Accept, AcceptOne, peers, InHand, Inv, TypeInv
<1> HIDE DEF c
<1>6. TypeInv'
  BY <1>1, <1>3, <1>4, <1>5 DEF Inv, TypeInv
<1>7. BacklogInv'
  <2>1. Elements(backlog) \subseteq Clients
    BY BacklogClients DEF Inv
  <2>2. QED
    BY <1>1, <1>3, <2>1 DEF Inv, BacklogInv
<1>8. NoStaleEvent'
  BY <1>3, <1>4, <1>5 DEF Inv, NoStaleEvent, Scheduled
<1>9. NoLostWakeup'
  BY <1>2, <1>3, <1>4, <1>5 DEF Inv, NoLostWakeup, Scheduled, Readable
<1>10. QED
  BY <1>4, <1>5, <1>6, <1>7, <1>8, <1>9 DEF Inv

\* The descriptor in hand goes: nothing is left of it, or it is noted as stalled.
LEMMA DoneKeeps ==
    ASSUME Inv, NEW fd \in Fds, InHand(fd), evs' = Tail(evs), TypeInv',
           UNCHANGED <<backlog, ready, conn, fin>>, stalled \subseteq stalled',
           \A d \in Clients \ {fd} : rbuf'[d] = rbuf[d],
           fd \in stalled' \/ (IF fd = Listen THEN backlog = <<>> ELSE ~Readable(fd)')
    PROVE  Inv'
<1>1. Once(evs') /\ Elements(evs') = Elements(evs) \ {fd}
  BY TakenOff DEF Inv, TypeInv, InHand
<1>2. BacklogInv' /\ Once(ready')
  BY DEF Inv, BacklogInv
<1>3. NoStaleEvent'
  BY <1>1 DEF Inv, NoStaleEvent, Scheduled
<1>4. NoLostWakeup'
  BY <1>1, EpollAssumption DEF Inv, NoLostWakeup, Scheduled, Readable
<1>5. QED
  BY <1>1, <1>2, <1>3, <1>4 DEF Inv

LEMMA ListenerKeeps == ASSUME Inv, AcceptAgain \/ AcceptFails \/ AddFails PROVE Inv'
<1>1. CASE AcceptAgain \/ AcceptFails
  <2> USE DEF AcceptAgain, AcceptFails, peers
  <2>1. InHand(Listen) /\ evs' = Tail(evs) /\ Listen \in Fds
    BY <1>1 DEF Fds
  <2>2. evs' \in Seq(Fds)
    BY <2>1, TakenOff DEF Inv, TypeInv, InHand
  <2>3. TypeInv'
    BY <1>1, <2>2 DEF Inv, TypeInv
  <2>4. QED
    BY <1>1, <2>1, <2>3, DoneKeeps
<1>2. CASE AddFails
  BY <1>2 DEF AddFails, peers, Inv, TypeInv, BacklogInv, NoStaleEvent, NoLostWakeup, Scheduled, Readable
<1>3. QED
  BY <1>1, <1>2

\* What a recv leaves.
LEMMA RestProperties ==
    ASSUME TypeInv, NEW c \in Clients
    PROVE  LET k == Smaller(LEN, Len(rbuf[c])) IN
           /\ k \in 0 .. Len(rbuf[c]) /\ (rbuf[c] # <<>> => k > 0)
           /\ Chunk(c) \in Seq(Nat) /\ Len(Chunk(c)) = k /\ \A i \in 1 .. k : Chunk(c)[i] = rbuf[c][i]
           /\ Rest(c) \in Seq(Nat) /\ Len(Rest(c)) = Len(rbuf[c]) - k
           /\ \A i \in 1 .. Len(rbuf[c]) - k : Rest(c)[i] = rbuf[c][k + i]
<1> DEFINE r == rbuf[c]
           k == Smaller(LEN, Len(r))
<1>1. r \in Seq(Nat) /\ Len(r) \in Nat /\ (r # <<>> => Len(r) > 0)
  BY EmptySeq DEF TypeInv
<1>2. k \in 0 .. Len(r) /\ (r # <<>> => k > 0)
  BY <1>1, EpollAssumption DEF Smaller
<1> HIDE DEF k, r
<1>3. Chunk(c) = SubSeq(r, 1, k) /\ Rest(c) = SubSeq(r, k + 1, Len(r))
  BY DEF Chunk, Rest, r, k
<1>4. Chunk(c) \in Seq(Nat) /\ Len(Chunk(c)) = k /\ \A i \in 1 .. k : Chunk(c)[i] = r[i]
  BY <1>1, <1>2, <1>3, SubSeqProperties
<1>5. Rest(c) \in Seq(Nat) /\ Len(Rest(c)) = Len(r) - k /\ \A i \in 1 .. Len(r) - k : Rest(c)[i] = r[k + i]
  BY <1>1, <1>2, <1>3, SubSeqProperties
<1>6. QED
  BY <1>2, <1>4, <1>5 DEF r, k

LEMMA EchoTypes ==
    ASSUME TypeInv, NEW c \in Clients, Echo(c)
    PROVE  TypeInv'
<1>1. Rest(c) \in Seq(Nat) /\ Chunk(c) \in Seq(Nat) /\ Len(Chunk(c)) \in Nat /\ Len(sbuf[c]) \in Nat
  BY RestProperties DEF TypeInv
<1> DEFINE m == Smaller(Space(c), Len(Chunk(c)))
<1>2. m \in 0 .. Len(Chunk(c))
  BY <1>1, EpollAssumption DEF Echo, Space, Smaller
<1> HIDE DEF m
<1>3. SubSeq(Chunk(c), 1, m) \in Seq(Nat)
  BY <1>1, <1>2, SubSeqProperties
<1>4. sbuf[c] \o SubSeq(Chunk(c), 1, m) \in Seq(Nat)
  BY <1>3, ConcatProperties DEF TypeInv
<1>5. sbuf' \in [Clients -> Seq(Nat)]
  BY <1>4 DEF TypeInv, Echo, m
<1>6. rbuf' \in [Clients -> Seq(Nat)]
  BY <1>1 DEF TypeInv, Echo
<1>7. QED
  BY <1>5, <1>6 DEF TypeInv, Echo, EchoRound, peers

LEMMA EchoKeeps == ASSUME Inv, NEW c \in Clients, Echo(c) PROVE Inv'
<1>1. TypeInv'
  BY EchoTypes DEF Inv
<1>2. /\ UNCHANGED <<conn, backlog, ready, evs, stalled, fin>> /\ c \in Elements(evs)
      /\ \A d \in Clients \ {c} : rbuf'[d] = rbuf[d]
  BY TakenOff DEF Echo, EchoRound, peers, InHand, Inv, TypeInv
<1>3. QED
  BY <1>1, <1>2 DEF Inv, BacklogInv, NoStaleEvent, NoLostWakeup, Scheduled, Readable

LEMMA BlockedKeeps ==
    ASSUME Inv, NEW c \in Clients, EchoBlocked(c) \/ RecvAgain(c) \/ BrokenPipe(c)
    PROVE  Inv'
<1>0. c \in Fds /\ c # Listen
  BY EpollAssumption DEF Fds
<1>1. CASE EchoBlocked(c)
  <2> USE <1>1 DEF EchoBlocked, peers
  <2>1. evs' \in Seq(Fds)
    BY TakenOff DEF Inv, TypeInv, InHand
  <2>2. rbuf' \in [Clients -> Seq(Nat)] /\ rbuf'[c] = Rest(c) /\ \A d \in Clients \ {c} : rbuf'[d] = rbuf[d]
    BY RestProperties DEF Inv, TypeInv
  <2>3. TypeInv'
    BY <2>1, <2>2 DEF Inv, TypeInv
  <2>4. c \in stalled' \/ ~Readable(c)'
    BY <2>2 DEF Readable
  <2>5. QED
    BY <1>0, <2>2, <2>3, <2>4, DoneKeeps
<1>2. CASE RecvAgain(c)
  <2> USE <1>2 DEF RecvAgain, peers
  <2>1. evs' \in Seq(Fds)
    BY TakenOff DEF Inv, TypeInv, InHand
  <2>2. TypeInv'
    BY <2>1 DEF Inv, TypeInv
  <2>3. ~Readable(c)'
    BY DEF Readable
  <2>4. QED
    BY <1>0, <2>2, <2>3, DoneKeeps
<1>3. CASE BrokenPipe(c)
  BY <1>3 DEF BrokenPipe, peers, Inv, TypeInv, BacklogInv, NoStaleEvent, NoLostWakeup, Scheduled, Readable
<1>4. QED
  BY <1>1, <1>2, <1>3

\* The close takes c off both lists.
LEMMA CloseKeeps == ASSUME Inv, NEW c \in Clients, CloseConn(c) \/ SendFails(c) PROVE Inv'
<1>0. /\ InHand(c) /\ Drop(c) /\ UNCHANGED <<backlog, peers, sbuf, stalled>>
      /\ rbuf' \in [Clients -> Seq(Nat)] /\ \A d \in Clients \ {c} : rbuf'[d] = rbuf[d]
  BY RestProperties DEF CloseConn, SendFails, Inv, TypeInv
<1> USE <1>0 DEF Drop
<1>1. /\ evs' \in Seq(Fds) /\ Once(evs') /\ Elements(evs') = Elements(evs) \ {c} /\ c \in Elements(evs)
  BY TakenOff DEF Inv, TypeInv, InHand
<1>2. ready' \in Seq(Fds) /\ Once(ready') /\ Elements(ready') = Elements(ready) \ {c}
  BY DeletedIsOff DEF Inv, TypeInv, Fds
<1>3. /\ conn' \in [Clients -> {"none", "queued", "open", "closed"}]
      /\ conn'[c] = "closed" /\ \A d \in Clients \ {c} : conn'[d] = conn[d]
  BY DEF Inv, TypeInv
<1>4. TypeInv'
  BY <1>1, <1>2, <1>3 DEF Inv, TypeInv, peers
<1>5. conn[c] = "open"
  BY <1>1 DEF Inv, NoStaleEvent, Scheduled
<1>6. BacklogInv'
  <2>1. Elements(backlog) \subseteq Clients
    BY BacklogClients DEF Inv
  <2>2. QED
    BY <1>3, <1>5, <2>1 DEF Inv, BacklogInv
<1>7. NoStaleEvent'
  BY <1>1, <1>2, <1>3 DEF Inv, NoStaleEvent, Scheduled
<1>8. NoLostWakeup'
  BY <1>1, <1>2, <1>3, EpollAssumption DEF Inv, NoLostWakeup, Scheduled, Readable, peers
<1>9. QED
  BY <1>1, <1>2, <1>4, <1>6, <1>7, <1>8 DEF Inv

LEMMA InvStep == Inv /\ [Next]_vars => Inv'
<1> SUFFICES ASSUME Inv, [Next]_vars PROVE Inv'
  OBVIOUS
<1>1. CASE UNCHANGED vars
  BY <1>1 DEF vars, peers, Inv, TypeInv, BacklogInv, NoStaleEvent, NoLostWakeup, Scheduled, Readable
<1>2. CASE EpollWait
  BY <1>2, EpollWaitKeeps
<1>3. CASE Accept
  BY <1>3, AcceptKeeps
<1>4. CASE AcceptAgain \/ AcceptFails \/ AddFails
  BY <1>4, ListenerKeeps
<1>5. CASE \E c \in Clients : communication(c)
  BY <1>5, EchoKeeps, BlockedKeeps, CloseKeeps DEF communication
<1>6. CASE \E c \in Clients : Connect(c) \/ Say(c) \/ Leave(c) \/ Reset(c) \/ Hear(c)
  BY <1>6, ConnectKeeps, ClientKeeps
<1>7. QED
  BY <1>1, <1>2, <1>3, <1>4, <1>5, <1>6 DEF Next, ServerStep

LEMMA InvHolds == Spec => []Inv
BY InitInv, InvStep, PTL DEF Spec

\* The server never handles, and the kernel never holds, an event for a socket
\* that has been closed or was not added yet: close follows EPOLL_CTL_DEL, and a
\* batch names a descriptor once.
THEOREM EventsAreFresh == Spec => []NoStaleEvent
<1>1. Inv => NoStaleEvent
  BY DEF Inv
<1>2. QED
  BY <1>1, InvHolds, PTL

\* Edge triggering loses no input in the accept and recv loops, whenever it
\* arrives: what is unread is scheduled, unless the loop was left by an error or
\* a blocked send.
THEOREM NoWakeupLost == Spec => []NoLostWakeup
<1>1. Inv => NoLostWakeup
  BY DEF Inv
<1>2. QED
  BY <1>1, InvHolds, PTL

-----------------------------------------------------------------------------
(***************************************************************************)
(* The echo.  What the client has, what is on its way back and what is     *)
(* still unread are in order; a chunk is cut short only if there were more *)
(* bytes than the kernel buffers, and a client that may leave has finished.*)
(***************************************************************************)
Increasing(s) == \A i, j \in 1 .. Len(s) : i < j => s[i] < s[j]

Bytes(c) == heard[c] \o sbuf[c] \o rbuf[c]

EchoAt(c) ==
    /\ Increasing(Bytes(c)) /\ \A i \in 1 .. Len(Bytes(c)) : Bytes(c)[i] <= said[c]
    /\ Len(sbuf[c]) <= SNDBUF
    /\ said[c] <= SNDBUF /\ rst[c] = "no" => Len(Bytes(c)) = said[c]
    /\ rst[c] # "no" => fin[c]

EchoInv == TypeInv /\ \A c \in Clients : EchoAt(c)

\* s is a, of length A, followed by b; or h, b and r one after the other.
Joined(s, a, b, A, B) == Len(s) = A + B /\ \A i \in 1 .. A + B : s[i] = IF i <= A THEN a[i] ELSE b[i - A]
Laid(s, h, b, r, H, N, R) ==
    /\ Len(s) = N + R
    /\ \A i \in 1 .. N + R : s[i] = IF i <= H THEN h[i] ELSE IF i <= N THEN b[i - H] ELSE r[i - N]

\* b2 is b and the first m of r; r2 is r from k + 1 on.
Moved(b, r, b2, r2, B, R, m, k) ==
    /\ \A i \in 1 .. B : b2[i] = b[i]
    /\ \A i \in 1 .. m : b2[B + i] = r[i]
    /\ \A i \in 1 .. R - k : r2[i] = r[k + i]

LEMMA ConcatJoins ==
    ASSUME NEW a \in Seq(Nat), NEW b \in Seq(Nat) PROVE Joined(a \o b, a, b, Len(a), Len(b)) /\ a \o b \in Seq(Nat)
BY ConcatProperties DEF Joined

LEMMA JoinedParts ==
    ASSUME NEW A \in Nat, NEW B \in Nat, NEW a, NEW b, NEW s, Joined(s, a, b, A, B)
    PROVE  Len(s) = A + B /\ (\A i \in 1 .. A : s[i] = a[i]) /\ (\A i \in 1 .. B : s[A + i] = b[i])
<1>1. ASSUME NEW i \in 1 .. B PROVE s[A + i] = b[i]
  <2>1. A + i \in 1 .. A + B /\ ~(A + i <= A) /\ (A + i) - A = i
    OBVIOUS
  <2>2. QED
    BY <2>1 DEF Joined
<1>2. QED
  BY <1>1 DEF Joined

LEMMA JoinTwice ==
    ASSUME NEW H \in Nat, NEW B \in Nat, NEW R \in Nat, NEW h, NEW b, NEW r, NEW u, NEW s,
           Joined(u, h, b, H, B), Joined(s, u, r, H + B, R)
    PROVE  Laid(s, h, b, r, H, H + B, R)
BY DEF Joined, Laid

LEMMA BytesAre ==
    ASSUME NEW h \in Seq(Nat), NEW b \in Seq(Nat), NEW r \in Seq(Nat)
    PROVE  Laid(h \o b \o r, h, b, r, Len(h), Len(h) + Len(b), Len(r))
<1>1. Joined(h \o b, h, b, Len(h), Len(b)) /\ h \o b \in Seq(Nat) /\ Len(h \o b) = Len(h) + Len(b)
  BY ConcatJoins DEF Joined
<1>2. Joined(h \o b \o r, h \o b, r, Len(h) + Len(b), Len(r))
  BY ONLY <1>1, ConcatJoins, r \in Seq(Nat)
<1>3. Len(h) \in Nat /\ Len(b) \in Nat /\ Len(r) \in Nat
  OBVIOUS
<1>4. QED
  BY ONLY <1>1, <1>2, <1>3, JoinTwice

\* Where a byte was, when the bytes after place N + m and up to N + k are dropped.
Was(i, N, m, k) == IF i <= N + m THEN i ELSE i - m + k

LEMMA WasGrows ==
    ASSUME NEW N \in Nat, NEW m \in Nat, NEW k \in Nat, m <= k, NEW i \in Nat, NEW j \in Nat, i < j
    PROVE  Was(i, N, m, k) < Was(j, N, m, k)
BY DEF Was

\* t is s without the places from N + m + 1 to N + k.
Dropped(s, t, N, m, k) ==
    /\ Len(t) \in Nat /\ Len(s) = Len(t) + (k - m)
    /\ \A i \in 1 .. Len(t) : Was(i, N, m, k) \in 1 .. Len(s) /\ t[i] = s[Was(i, N, m, k)]

LEMMA DropKeepsOrder ==
    ASSUME NEW N \in Nat, NEW m \in Nat, NEW k \in Nat, m <= k, NEW s, NEW t, Dropped(s, t, N, m, k),
           NEW n, Increasing(s), \A i \in 1 .. Len(s) : s[i] <= n
    PROVE  Increasing(t) /\ \A i \in 1 .. Len(t) : t[i] <= n
<1>1. \A i \in 1 .. Len(t) : Was(i, N, m, k) \in 1 .. Len(s) /\ t[i] = s[Was(i, N, m, k)]
  BY DEF Dropped
<1>2. ASSUME NEW i \in 1 .. Len(t), NEW j \in 1 .. Len(t), i < j PROVE t[i] < t[j]
  <2>1. i \in Nat /\ j \in Nat
    BY DEF Dropped
  <2>2. Was(i, N, m, k) < Was(j, N, m, k)
    BY <2>1, <1>2, WasGrows
  <2>3. QED
    BY <2>2, <1>1 DEF Increasing
<1>3. QED
  BY <1>1, <1>2 DEF Increasing

\* s is h, b and r; t is h, b2 and r2, where of the first k of r the first m went to b2.
Sent(s, t, h, b, r, b2, r2, H, B, R, m, k) ==
    /\ H \in Nat /\ B \in Nat /\ R \in Nat /\ k \in 0 .. R /\ m \in 0 .. k
    /\ Laid(s, h, b, r, H, H + B, R) /\ Laid(t, h, b2, r2, H, H + (B + m), R - k)
    /\ Moved(b, r, b2, r2, B, R, m, k)

LEMMA SentDrops ==
    ASSUME NEW s, NEW t, NEW h, NEW b, NEW r, NEW b2, NEW r2, NEW H, NEW B, NEW R, NEW m, NEW k,
           Sent(s, t, h, b, r, b2, r2, H, B, R, m, k)
    PROVE  Dropped(s, t, H + B, m, k)
<1> DEFINE N == H + B
<1>1. /\ H \in Nat /\ B \in Nat /\ R \in Nat /\ k \in 0 .. R /\ m \in 0 .. k /\ N \in Nat /\ N = H + B
      /\ H + (B + m) = N + m
  BY DEF Sent
<1> HIDE DEF N
<1>2. /\ \A j \in 1 .. N + R : s[j] = IF j <= H THEN h[j] ELSE IF j <= N THEN b[j - H] ELSE r[j - N]
      /\ \A j \in 1 .. N + m + (R - k) :
             t[j] = IF j <= H THEN h[j] ELSE IF j <= N + m THEN b2[j - H] ELSE r2[j - (N + m)]
      /\ \A j \in 1 .. B : b2[j] = b[j]
      /\ \A j \in 1 .. m : b2[B + j] = r[j]
      /\ \A j \in 1 .. R - k : r2[j] = r[k + j]
  BY <1>1 DEF Sent, Laid, Moved
<1>3. Len(s) = N + R /\ Len(t) = N + m + (R - k)
  BY <1>1 DEF Sent, Laid
<1>4. ASSUME NEW i \in 1 .. N + m + (R - k)
      PROVE  Was(i, N, m, k) \in 1 .. N + R /\ t[i] = s[Was(i, N, m, k)]
  <2> USE ONLY <1>1, i \in 1 .. N + m + (R - k)
  <2>1. CASE i <= H
    BY <1>2, <2>1 DEF Was
  <2>2. CASE H < i /\ i <= N
    <3>1. t[i] = b2[i - H] /\ i - H \in 1 .. B /\ s[i] = b[i - H] /\ Was(i, N, m, k) = i
      BY <1>2, <2>2 DEF Was
    <3>2. QED
      BY <1>2, <3>1, <2>2
  <2>3. CASE N < i /\ i <= N + m
    <3>1. i - N \in 1 .. m /\ s[i] = r[i - N] /\ Was(i, N, m, k) = i /\ i \in 1 .. N + R
      BY <1>2, <2>3 DEF Was
    <3>2. t[i] = b2[B + (i - N)]
      <4>1. t[i] = b2[i - H] /\ i - H = B + (i - N)
        BY <1>2, <2>3
      <4>2. QED
        BY ONLY <4>1
    <3>3. QED
      BY <1>2, <3>1, <3>2
  <2>4. CASE i > N + m
    <3>1. t[i] = r2[i - (N + m)] /\ i - (N + m) \in 1 .. R - k
      BY <1>2, <2>4
    <3>2. r2[i - (N + m)] = r[k + (i - (N + m))]
      BY <1>2, <3>1
    <3>3. Was(i, N, m, k) = i - m + k /\ i - m + k \in 1 .. N + R /\ k + (i - (N + m)) = i - m + k - N
      BY <2>4 DEF Was
    <3>4. s[i - m + k] = r[i - m + k - N]
      BY <1>2, <2>4, <3>3
    <3>5. QED
      BY ONLY <3>1, <3>2, <3>3, <3>4
  <2>5. QED
    BY <2>1, <2>2, <2>3, <2>4
<1>5. N + m + (R - k) \in Nat /\ N + R = N + m + (R - k) + (k - m)
  BY ONLY <1>1
<1>6. QED
  BY ONLY <1>1, <1>3, <1>4, <1>5 DEF Dropped

\* Of the next k bytes the first m are sent and the others are dropped.
LEMMA EchoDrops ==
    ASSUME TypeInv, TypeInv', NEW c \in Clients, NEW k \in 0 .. Len(rbuf[c]), NEW m \in 0 .. k,
           heard'[c] = heard[c], Len(sbuf'[c]) = Len(sbuf[c]) + m, Len(rbuf'[c]) = Len(rbuf[c]) - k,
           Moved(sbuf[c], rbuf[c], sbuf'[c], rbuf'[c], Len(sbuf[c]), Len(rbuf[c]), m, k)
    PROVE  Dropped(Bytes(c), Bytes(c)', Len(heard[c]) + Len(sbuf[c]), m, k)
<1>1. /\ heard[c] \in Seq(Nat) /\ sbuf[c] \in Seq(Nat) /\ rbuf[c] \in Seq(Nat)
      /\ heard'[c] \in Seq(Nat) /\ sbuf'[c] \in Seq(Nat) /\ rbuf'[c] \in Seq(Nat)
  BY DEF TypeInv
<1>2. Len(heard[c]) \in Nat /\ Len(sbuf[c]) \in Nat /\ Len(rbuf[c]) \in Nat
  BY <1>1
<1>3. Laid(Bytes(c), heard[c], sbuf[c], rbuf[c], Len(heard[c]), Len(heard[c]) + Len(sbuf[c]), Len(rbuf[c]))
  BY ONLY <1>1, BytesAre DEF Bytes
<1>4. Laid(Bytes(c)', heard'[c], sbuf'[c], rbuf'[c], Len(heard'[c]), Len(heard'[c]) + Len(sbuf'[c]), Len(rbuf'[c]))
  BY ONLY <1>1, BytesAre DEF Bytes
<1>5. Laid(Bytes(c)', heard[c], sbuf'[c], rbuf'[c], Len(heard[c]), Len(heard[c]) + (Len(sbuf[c]) + m), Len(rbuf[c]) - k)
  BY ONLY <1>4, heard'[c] = heard[c], Len(sbuf'[c]) = Len(sbuf[c]) + m, Len(rbuf'[c]) = Len(rbuf[c]) - k
<1>6. Sent(Bytes(c), Bytes(c)', heard[c], sbuf[c], rbuf[c], sbuf'[c], rbuf'[c],
           Len(heard[c]), Len(sbuf[c]), Len(rbuf[c]), m, k)
  BY ONLY <1>2, <1>3, <1>5, k \in 0 .. Len(rbuf[c]), m \in 0 .. k,
     Moved(sbuf[c], rbuf[c], sbuf'[c], rbuf'[c], Len(sbuf[c]), Len(rbuf[c]), m, k) DEF Sent
<1>7. QED
  BY ONLY <1>6, SentDrops

LEMMA HeardMoves ==
    ASSUME NEW h \in Seq(Nat), NEW b \in Seq(Nat), b # <<>>
    PROVE  Append(h, Head(b)) \o Tail(b) = h \o b
<1>1. Append(h, Head(b)) = h \o <<Head(b)>>
  BY AppendIsConcat, HeadTailProperties
<1>2. b = <<Head(b)>> \o Tail(b)
  BY HeadTailProperties
<1>3. <<Head(b)>> \in Seq(Nat) /\ Tail(b) \in Seq(Nat)
  BY HeadTailProperties
<1>4. QED
  BY <1>1, <1>2, <1>3, ConcatAssociative

LEMMA SaidAppends ==
    ASSUME NEW u \in Seq(Nat), NEW r \in Seq(Nat), NEW e \in Nat
    PROVE  u \o Append(r, e) = Append(u \o r, e)
<1>1. Append(r, e) = r \o <<e>> /\ <<e>> \in Seq(Nat) /\ u \o r \in Seq(Nat)
  BY AppendIsConcat, ConcatProperties
<1>2. Append(u \o r, e) = (u \o r) \o <<e>>
  BY AppendIsConcat, <1>1
<1>3. QED
  BY <1>1, <1>2, ConcatAssociative

LEMMA BytesType ==
    ASSUME TypeInv, NEW c \in Clients
    PROVE  /\ heard[c] \o sbuf[c] \in Seq(Nat) /\ Bytes(c) \in Seq(Nat)
           /\ Len(Bytes(c)) = Len(heard[c]) + Len(sbuf[c]) + Len(rbuf[c])
           /\ Len(heard[c]) \in Nat /\ Len(sbuf[c]) \in Nat /\ Len(rbuf[c]) \in Nat
<1>1. heard[c] \in Seq(Nat) /\ sbuf[c] \in Seq(Nat) /\ rbuf[c] \in Seq(Nat)
  BY DEF TypeInv
<1>2. heard[c] \o sbuf[c] \in Seq(Nat) /\ Len(heard[c] \o sbuf[c]) = Len(heard[c]) + Len(sbuf[c])
  BY ONLY <1>1, ConcatProperties
<1>3. Bytes(c) \in Seq(Nat) /\ Len(Bytes(c)) = Len(heard[c] \o sbuf[c]) + Len(rbuf[c])
  BY ONLY <1>1, <1>2, ConcatProperties DEF Bytes
<1>4. Len(heard[c]) \in Nat /\ Len(sbuf[c]) \in Nat /\ Len(rbuf[c]) \in Nat
  BY <1>1
<1>5. QED
  BY <1>2, <1>3, <1>4

LEMMA InitEcho == Init => EchoInv
<1> SUFFICES ASSUME Init PROVE EchoInv
  OBVIOUS
<1>1. TypeInv
  BY DEF Init, TypeInv
<1>2. \A c \in Clients : EchoAt(c)
  <2> TAKE c \in Clients
  <2>1. heard[c] = <<>> /\ sbuf[c] = <<>> /\ rbuf[c] = <<>> /\ said[c] = 0 /\ rst[c] = "no"
    BY DEF Init
  <2>2. Len(Bytes(c)) = 0 /\ Len(sbuf[c]) = 0
    <3>1. Len(heard[c]) = 0 /\ Len(sbuf[c]) = 0 /\ Len(rbuf[c]) = 0
      BY <2>1
    <3>2. Len(Bytes(c)) = Len(heard[c]) + Len(sbuf[c]) + Len(rbuf[c])
      BY <1>1, BytesType
    <3>3. QED
      BY ONLY <3>1, <3>2
  <2>3. QED
    BY <2>1, <2>2, EpollAssumption DEF EchoAt, Increasing
<1>3. QED
  BY <1>1, <1>2 DEF EchoInv

SameEcho(c) ==
    heard'[c] = heard[c] /\ sbuf'[c] = sbuf[c] /\ rbuf'[c] = rbuf[c] /\ said'[c] = said[c]

LEMMA SameKeeps ==
    ASSUME NEW c \in Clients, EchoAt(c), SameEcho(c), rst'[c] = rst[c] \/ ~fin[c] \/ rst'[c] # "no",
           rst'[c] # "no" => fin'[c]
    PROVE  EchoAt(c)'
<1>1. Bytes(c)' = Bytes(c)
  BY DEF Bytes, SameEcho
<1>2. QED
  BY <1>1 DEF EchoAt, SameEcho

\* The next byte of a client is greater than all before.
LEMMA SayEcho == ASSUME EchoInv, NEW c \in Clients, Say(c) PROVE EchoAt(c)'
<1>1. /\ heard'[c] = heard[c] /\ sbuf'[c] = sbuf[c] /\ rbuf'[c] = Append(rbuf[c], said[c] + 1)
      /\ said'[c] = said[c] + 1 /\ said[c] \in Nat /\ rst' = rst /\ fin' = fin
  BY DEF Say, EchoInv, TypeInv
<1>2. heard[c] \o sbuf[c] \in Seq(Nat) /\ Bytes(c) \in Seq(Nat) /\ rbuf[c] \in Seq(Nat) /\ Len(Bytes(c)) \in Nat
  BY BytesType DEF EchoInv, TypeInv
<1>3. Bytes(c)' = Append(Bytes(c), said[c] + 1)
  <2>1. said[c] + 1 \in Nat
    BY ONLY <1>1
  <2>2. (heard[c] \o sbuf[c]) \o Append(rbuf[c], said[c] + 1) = Append((heard[c] \o sbuf[c]) \o rbuf[c], said[c] + 1)
    BY ONLY <2>1, <1>2, SaidAppends
  <2>3. Bytes(c)' = (heard[c] \o sbuf[c]) \o Append(rbuf[c], said[c] + 1)
    BY ONLY <1>1 DEF Bytes
  <2>4. QED
    BY ONLY <2>2, <2>3 DEF Bytes
<1>4. PICK s \in Seq(Nat), n \in Nat, L \in Nat : s = Bytes(c) /\ n = said[c] /\ L = Len(s)
  BY <1>1, <1>2
<1>5. PICK t : t = Append(s, n + 1)
  OBVIOUS
<1>6. Len(t) = L + 1 /\ t[L + 1] = n + 1 /\ \A i \in 1 .. L : t[i] = s[i]
  BY <1>4, <1>5
<1>7. Increasing(s) /\ \A i \in 1 .. L : s[i] \in Nat /\ s[i] <= n
  BY <1>4 DEF EchoInv, EchoAt
<1>8. ASSUME NEW i \in 1 .. L + 1 PROVE t[i] <= n + 1 /\ \A j \in 1 .. L + 1 : j < i => t[j] < t[i]
  <2>1. CASE i = L + 1
    BY <2>1, <1>6, <1>7
  <2>2. CASE i \in 1 .. L
    BY <2>2, <1>4, <1>6, <1>7 DEF Increasing
  <2>3. QED
    BY <2>1, <2>2
<1>9. Increasing(t) /\ \A i \in 1 .. Len(t) : t[i] <= n + 1
  BY <1>6, <1>8 DEF Increasing
<1>10. t = Bytes(c)'
  BY <1>3, <1>4, <1>5
<1>11. Len(t) = Len(Bytes(c)) + 1 /\ n + 1 = said'[c]
  BY <1>1, <1>4, <1>6
<1>12. Increasing(Bytes(c)') /\ \A i \in 1 .. Len(Bytes(c)') : Bytes(c)'[i] <= said'[c]
  BY ONLY <1>9, <1>10, <1>11
<1>13. said'[c] <= SNDBUF /\ rst'[c] = "no" => Len(Bytes(c)') = said'[c]
  BY <1>1, <1>10, <1>11, EpollAssumption DEF EchoInv, EchoAt
<1>14. Len(sbuf'[c]) <= SNDBUF /\ (rst'[c] # "no" => fin'[c])
  BY <1>1 DEF EchoInv, EchoAt
<1>15. QED
  BY <1>12, <1>13, <1>14 DEF EchoAt

LEMMA HearEcho == ASSUME EchoInv, NEW c \in Clients, Hear(c) PROVE EchoAt(c)'
<1>1. /\ heard'[c] = Append(heard[c], Head(sbuf[c])) /\ sbuf'[c] = Tail(sbuf[c]) /\ sbuf[c] # <<>>
      /\ rbuf' = rbuf /\ said' = said /\ rst' = rst /\ fin' = fin
      /\ heard[c] \in Seq(Nat) /\ sbuf[c] \in Seq(Nat)
  BY DEF Hear, EchoInv, TypeInv
<1>2. Bytes(c)' = Bytes(c)
  BY ONLY <1>1, HeardMoves DEF Bytes
<1>3. Len(sbuf'[c]) <= Len(sbuf[c]) /\ Len(sbuf'[c]) \in Nat /\ Len(sbuf[c]) \in Nat
  BY <1>1, HeadTailProperties
<1>4. QED
  BY <1>1, <1>2, <1>3, EpollAssumption DEF EchoInv, EchoAt

LEMMA SendBounds ==
    ASSUME NEW k \in Nat, NEW m \in Nat, m <= k, NEW R \in Nat, k <= R PROVE k \in 0 .. R /\ m \in 0 .. k
OBVIOUS

LEMMA RoomFor ==
    ASSUME NEW H \in Nat, NEW B \in Nat, NEW R \in Nat, NEW k \in Nat, NEW m \in Nat, NEW S \in Nat,
           k <= R, H + B + R <= S, m <= k, m < k => B + k > S
    PROVE  m = k
OBVIOUS

LEMMA NothingLost ==
    ASSUME NEW L, NEW L2 \in Nat, NEW k \in Nat, NEW m \in Nat, m = k, L = L2 + (k - m) PROVE L2 = L
OBVIOUS

\* A short or blocked send drops bytes only when the kernel's buffer is full.
LEMMA DropEcho ==
    ASSUME EchoInv, TypeInv', NEW c \in Clients, NEW k \in Nat, NEW m \in Nat, NEW B \in Nat, NEW R \in Nat,
           B = Len(sbuf[c]), R = Len(rbuf[c]), m <= k, k <= R,
           heard'[c] = heard[c], Len(sbuf'[c]) = B + m, Len(rbuf'[c]) = R - k,
           Moved(sbuf[c], rbuf[c], sbuf'[c], rbuf'[c], B, R, m, k),
           said' = said, rst' = rst, fin' = fin, B + m <= SNDBUF, rst[c] = "no" /\ m < k => B + k > SNDBUF
    PROVE  EchoAt(c)'
<1>1. k \in 0 .. R /\ m \in 0 .. k
  BY ONLY SendBounds, k \in Nat, m \in Nat, R \in Nat, m <= k, k <= R
<1>2. Dropped(Bytes(c), Bytes(c)', Len(heard[c]) + Len(sbuf[c]), m, k)
  <2>1. k \in 0 .. Len(rbuf[c]) /\ Len(sbuf'[c]) = Len(sbuf[c]) + m /\ Len(rbuf'[c]) = Len(rbuf[c]) - k
        /\ Moved(sbuf[c], rbuf[c], sbuf'[c], rbuf'[c], Len(sbuf[c]), Len(rbuf[c]), m, k)
    BY <1>1
  <2>2. TypeInv
    BY DEF EchoInv
  <2>3. QED
    BY ONLY <1>1, <2>1, <2>2, TypeInv', c \in Clients, heard'[c] = heard[c], EchoDrops
<1>3. PICK H \in Nat : H = Len(heard[c]) /\ Len(Bytes(c)) = H + B + R
  <2>1. TypeInv
    BY DEF EchoInv
  <2>2. Len(heard[c]) \in Nat /\ Len(Bytes(c)) = Len(heard[c]) + Len(sbuf[c]) + Len(rbuf[c])
    BY ONLY <2>1, c \in Clients, BytesType
  <2>3. QED
    BY ONLY <2>2, B = Len(sbuf[c]), R = Len(rbuf[c])
<1>4. Increasing(Bytes(c)) /\ \A i \in 1 .. Len(Bytes(c)) : Bytes(c)[i] <= said[c]
  BY DEF EchoInv, EchoAt
<1>5. Increasing(Bytes(c)') /\ \A i \in 1 .. Len(Bytes(c)') : Bytes(c)'[i] <= said[c]
  <2>1. Len(heard[c]) + Len(sbuf[c]) \in Nat
    <3>1. H + B \in Nat
      OBVIOUS
    <3>2. QED
      BY ONLY <3>1, <1>3, B = Len(sbuf[c])
  <2>2. QED
    BY ONLY <1>2, <2>1, <1>4, DropKeepsOrder, k \in Nat, m \in Nat, m <= k
<1>6. Len(Bytes(c)') \in Nat /\ Len(Bytes(c)) = Len(Bytes(c)') + (k - m)
  BY ONLY <1>2 DEF Dropped
<1>7. (said[c] <= SNDBUF /\ rst[c] = "no" => Len(Bytes(c)) = said[c]) /\ SNDBUF \in Nat
  BY EpollAssumption DEF EchoInv, EchoAt
<1>8. ASSUME said[c] <= SNDBUF, rst[c] = "no" PROVE Len(Bytes(c)') = said[c]
  <2>1. H + B + R <= SNDBUF
    BY ONLY <1>3, <1>7, <1>8
  <2>2. m < k => B + k > SNDBUF
    BY <1>8
  <2>3. m = k
    BY ONLY <2>1, <2>2, <1>7, RoomFor, H \in Nat, B \in Nat, R \in Nat, k \in Nat, m \in Nat, m <= k, k <= R
  <2>4. Len(Bytes(c)') = Len(Bytes(c))
    BY ONLY <1>6, <2>3, NothingLost, k \in Nat, m \in Nat
  <2>5. QED
    BY ONLY <2>4, <1>7, <1>8
<1>9. Len(sbuf'[c]) <= SNDBUF
  BY ONLY Len(sbuf'[c]) = B + m, B + m <= SNDBUF
<1>10. rst[c] # "no" => fin[c]
  BY DEF EchoInv, EchoAt
<1>11. QED
  BY ONLY <1>5, <1>8, <1>9, <1>10, said' = said, rst' = rst, fin' = fin DEF EchoAt

\* The sizes of what recv takes and of what there is room for.
LEMMA ChunkSizes ==
    ASSUME TypeInv, NEW c \in Clients
    PROVE  \E B \in Nat, R \in Nat, k \in Nat :
             /\ B = Len(sbuf[c]) /\ R = Len(rbuf[c]) /\ k <= R /\ k = Smaller(LEN, R) /\ (rbuf[c] # <<>> => k > 0)
<1>1. Len(sbuf[c]) \in Nat /\ Len(rbuf[c]) \in Nat
  BY DEF TypeInv
<1>2. PICK R \in Nat : R = Len(rbuf[c])
  BY <1>1
<1>3. PICK k : k = Smaller(LEN, R)
  OBVIOUS
<1>4. k \in Nat /\ k <= R /\ (R > 0 => k > 0)
  BY ONLY <1>3, R \in Nat, EpollAssumption DEF Smaller
<1>5. rbuf[c] # <<>> => R > 0
  BY <1>2, EmptySeq DEF TypeInv
<1>6. QED
  BY ONLY <1>1, <1>2, <1>3, <1>4, <1>5, R \in Nat

LEMMA RoomSize ==
    ASSUME NEW B \in Nat, NEW k \in Nat, NEW S \in Nat, S - B > 0, NEW m, m = Smaller(S - B, k)
    PROVE  m \in Nat /\ m <= k /\ B + m <= S /\ (m < k => B + k > S)
BY DEF Smaller

LEMMA EchoEcho ==
    ASSUME EchoInv, TypeInv', NEW c \in Clients, Echo(c) PROVE EchoAt(c)'
<1>0. TypeInv
  BY DEF EchoInv
<1>1. PICK B \in Nat, R \in Nat, k \in Nat :
        B = Len(sbuf[c]) /\ R = Len(rbuf[c]) /\ k <= R /\ k = Smaller(LEN, R)
  BY <1>0, ChunkSizes
<1>2. /\ Chunk(c) \in Seq(Nat) /\ Len(Chunk(c)) = k /\ \A i \in 1 .. k : Chunk(c)[i] = rbuf[c][i]
      /\ Len(Rest(c)) = R - k /\ \A i \in 1 .. R - k : Rest(c)[i] = rbuf[c][k + i]
  BY ONLY <1>0, <1>1, c \in Clients, RestProperties
<1>3. /\ rbuf'[c] = Rest(c) /\ heard'[c] = heard[c] /\ said' = said /\ rst' = rst /\ fin' = fin
      /\ SNDBUF - Len(sbuf[c]) > 0 /\ sbuf[c] \in Seq(Nat)
      /\ sbuf'[c] = IF rst[c] = "gone" THEN sbuf[c]
                    ELSE sbuf[c] \o SubSeq(Chunk(c), 1, Smaller(SNDBUF - Len(sbuf[c]), Len(Chunk(c))))
  BY <1>0 DEF Echo, TypeInv, peers, Space
<1>5. SNDBUF \in Nat /\ B <= SNDBUF
  BY <1>1, EpollAssumption DEF EchoInv, EchoAt
<1>6. CASE rst[c] = "gone"
  <2>1. Moved(sbuf[c], rbuf[c], sbuf'[c], rbuf'[c], B, R, 0, k)
    BY ONLY <1>2, <1>3, <1>6 DEF Moved
  <2>2. Len(sbuf'[c]) = B + 0 /\ Len(rbuf'[c]) = R - k /\ 0 <= k /\ 0 \in Nat /\ B + 0 <= SNDBUF
    BY ONLY <1>1, <1>2, <1>3, <1>5, <1>6, B \in Nat, k \in Nat
  <2>3. QED
    BY ONLY <1>1, <1>3, <1>6, <2>1, <2>2, DropEcho, EchoInv, TypeInv', c \in Clients, k \in Nat, B \in Nat, R \in Nat
<1>7. CASE rst[c] # "gone"
  <2>1. PICK m : m = Smaller(SNDBUF - B, k)
    OBVIOUS
  <2>2. m \in Nat /\ m <= k /\ B + m <= SNDBUF /\ (m < k => B + k > SNDBUF)
    BY ONLY <1>1, <1>3, <1>5, <2>1, RoomSize, B \in Nat, k \in Nat
  <2>3. PICK q : q = SubSeq(Chunk(c), 1, m)
    OBVIOUS
  <2>4. q \in Seq(Nat) /\ Len(q) = m /\ \A i \in 1 .. m : q[i] = rbuf[c][i]
    <3>1. \A i \in 1 .. m : Chunk(c)[i] \in Nat /\ Chunk(c)[i] = rbuf[c][i]
      BY ONLY <1>2, <2>2, k \in Nat
    <3>2. QED
      BY ONLY <2>2, <2>3, <3>1, SubSeqProperties
  <2>5. sbuf'[c] = sbuf[c] \o q
    BY ONLY <1>1, <1>2, <1>3, <1>7, <2>1, <2>3
  <2>6. Joined(sbuf'[c], sbuf[c], q, B, m)
    BY ONLY <1>1, <1>3, <2>4, <2>5, ConcatJoins
  <2>7. /\ Len(sbuf'[c]) = B + m /\ \A i \in 1 .. B : sbuf'[c][i] = sbuf[c][i]
        /\ \A i \in 1 .. m : sbuf'[c][B + i] = q[i]
    BY ONLY <2>2, <2>6, JoinedParts, B \in Nat
  <2>8. Moved(sbuf[c], rbuf[c], sbuf'[c], rbuf'[c], B, R, m, k)
    BY ONLY <1>2, <1>3, <2>4, <2>7 DEF Moved
  <2>9. Len(rbuf'[c]) = R - k
    BY ONLY <1>2, <1>3
  <2>10. QED
    BY ONLY <1>1, <1>3, <2>2, <2>7, <2>8, <2>9, DropEcho, EchoInv, TypeInv', c \in Clients,
       k \in Nat, B \in Nat, R \in Nat
<1>8. QED
  BY <1>6, <1>7

LEMMA BlockedEcho ==
    ASSUME EchoInv, TypeInv', NEW c \in Clients, EchoBlocked(c) PROVE EchoAt(c)'
<1>0. TypeInv
  BY DEF EchoInv
<1>1. PICK B \in Nat, R \in Nat, k \in Nat :
        B = Len(sbuf[c]) /\ R = Len(rbuf[c]) /\ k <= R /\ k = Smaller(LEN, R) /\ k > 0
  BY <1>0, ChunkSizes DEF EchoBlocked
<1>2. Len(Rest(c)) = R - k /\ \A i \in 1 .. R - k : Rest(c)[i] = rbuf[c][k + i]
  BY ONLY <1>0, <1>1, c \in Clients, RestProperties
<1>3. /\ rbuf'[c] = Rest(c) /\ sbuf' = sbuf /\ heard' = heard /\ said' = said /\ rst' = rst /\ fin' = fin
      /\ SNDBUF - B = 0 /\ SNDBUF \in Nat
  BY <1>0, <1>1, EpollAssumption DEF EchoBlocked, TypeInv, peers, Space
<1>4. Moved(sbuf[c], rbuf[c], sbuf'[c], rbuf'[c], B, R, 0, k)
  BY ONLY <1>2, <1>3 DEF Moved
<1>5. 0 \in Nat /\ 0 <= k /\ B + 0 <= SNDBUF /\ B + k > SNDBUF /\ Len(sbuf'[c]) = B + 0 /\ Len(rbuf'[c]) = R - k
  BY ONLY <1>1, <1>2, <1>3, B \in Nat, k \in Nat
<1>6. QED
  BY ONLY <1>1, <1>3, <1>4, <1>5, DropEcho, EchoInv, TypeInv', c \in Clients, k \in Nat, B \in Nat, R \in Nat

\* A chunk of a client that has reset its connection is lost with it.
LEMMA FailedEcho ==
    ASSUME EchoInv, TypeInv', NEW c \in Clients, SendFails(c) PROVE EchoAt(c)'
<1>0. TypeInv
  BY DEF EchoInv
<1>1. PICK B \in Nat, R \in Nat, k \in Nat :
        B = Len(sbuf[c]) /\ R = Len(rbuf[c]) /\ k <= R /\ k = Smaller(LEN, R)
  BY <1>0, ChunkSizes
<1>2. Len(Rest(c)) = R - k /\ \A i \in 1 .. R - k : Rest(c)[i] = rbuf[c][k + i]
  BY ONLY <1>0, <1>1, c \in Clients, RestProperties
<1>3. /\ rbuf'[c] = Rest(c) /\ sbuf' = sbuf /\ heard' = heard /\ said' = said /\ rst' = rst /\ fin' = fin
      /\ rst[c] = "reset" /\ B <= SNDBUF
  BY <1>0, <1>1 DEF SendFails, TypeInv, peers, EchoInv, EchoAt
<1>4. Moved(sbuf[c], rbuf[c], sbuf'[c], rbuf'[c], B, R, 0, k)
  BY ONLY <1>2, <1>3 DEF Moved
<1>5. 0 \in Nat /\ 0 <= k /\ B + 0 <= SNDBUF /\ Len(sbuf'[c]) = B + 0 /\ Len(rbuf'[c]) = R - k
  BY ONLY <1>1, <1>2, <1>3, B \in Nat, k \in Nat
<1>6. QED
  BY ONLY <1>1, <1>3, <1>4, <1>5, DropEcho, EchoInv, TypeInv', c \in Clients, k \in Nat, B \in Nat, R \in Nat

\* Steps that leave the bytes of c alone.
LEMMA OthersEcho ==
    ASSUME EchoInv, [Next]_vars, NEW c \in Clients, ~Say(c), ~Hear(c), ~Echo(c), ~EchoBlocked(c), ~SendFails(c)
    PROVE  EchoAt(c)'
<1> USE DEF SameEcho, peers
<1>0. EchoAt(c)
  BY DEF EchoInv
<1>1. CASE Leave(c)
  <2>1. SameEcho(c) /\ fin'[c] /\ ~fin[c]
    BY <1>1 DEF Leave, EchoInv, TypeInv
  <2>2. QED
    BY <1>0, <2>1, SameKeeps
<1>2. CASE Reset(c)
  <2>1. SameEcho(c) /\ fin'[c] = fin[c] /\ rst[c] = "gone" /\ rst'[c] = "reset"
    BY <1>2 DEF Reset, EchoInv, TypeInv
  <2>2. QED
    BY <1>0, <2>1, SameKeeps DEF EchoAt
<1>3. CASE ~Leave(c) /\ ~Reset(c)
  <2>1. SameEcho(c) /\ fin'[c] = fin[c] /\ rst'[c] = rst[c]
    <3>1. CASE \E d \in Clients : Connect(d) \/ Say(d) \/ Leave(d) \/ Reset(d) \/ Hear(d)
      BY <3>1, <1>3 DEF Connect, Say, Leave, Reset, Hear, EchoInv, TypeInv
    <3>2. CASE \E d \in Clients : communication(d)
      BY <3>2 DEF communication, Echo, EchoBlocked, BrokenPipe, RecvAgain, CloseConn, SendFails, EchoInv, TypeInv
    <3>3. CASE EpollWait \/ Accept \/ AcceptAgain \/ AcceptFails \/ AddFails \/ UNCHANGED vars
      BY <3>3 DEF EpollWait, Accept, AcceptAgain, AcceptFails, AddFails, vars
    <3>4. QED
      BY <3>1, <3>2, <3>3 DEF Next, ServerStep
  <2>2. QED
    BY <1>0, <2>1, SameKeeps DEF EchoAt
<1>4. QED
  BY <1>1, <1>2, <1>3

LEMMA EchoStep == EchoInv /\ TypeInv' /\ [Next]_vars => EchoInv'
<1> SUFFICES ASSUME EchoInv, TypeInv', [Next]_vars, NEW c \in Clients PROVE EchoAt(c)'
  BY DEF EchoInv
<1>1. QED
  BY SayEcho, HearEcho, EchoEcho, BlockedEcho, FailedEcho, OthersEcho

\* What the invariant says of the bytes of a client is what the property says.
LEMMA EchoInvImplies == EchoInv => EchoInOrder
<1> SUFFICES ASSUME EchoInv, NEW c \in Clients
             PROVE  LET s == heard[c] \o sbuf[c] \o rbuf[c]
                    IN  /\ \A i \in 1 .. Len(s) : s[i] <= said[c] /\ \A j \in 1 .. i - 1 : s[j] < s[i]
                        /\ said[c] <= SNDBUF /\ rst[c] = "no" => Len(s) = said[c]
  BY DEF EchoInOrder
<1>0. PICK s : s = Bytes(c)
  OBVIOUS
<1>1. PICK L \in Nat : s = Bytes(c) /\ L = Len(s)
  BY <1>0, BytesType DEF EchoInv
<1>2. Increasing(s) /\ (\A i \in 1 .. L : s[i] <= said[c]) /\ (said[c] <= SNDBUF /\ rst[c] = "no" => L = said[c])
  BY <1>1 DEF EchoInv, EchoAt
<1>3. \A i \in 1 .. L : \A j \in 1 .. i - 1 : s[j] < s[i]
  BY <1>1, <1>2 DEF Increasing
<1>4. QED
  BY ONLY <1>1, <1>2, <1>3 DEF Bytes

\* A client is sent back bytes it sent, in order and none twice, and all of them
\* if it stays and sends no more than the kernel buffers: short and blocked sends
\* drop bytes only when the buffer is full.
THEOREM EchoesInOrder == Spec => []EchoInOrder
<1>1. Inv => TypeInv
  BY DEF Inv
<1>2. QED
  BY <1>1, InvHolds, InitEcho, EchoStep, EchoInvImplies, PTL DEF Spec

=============================================================================
