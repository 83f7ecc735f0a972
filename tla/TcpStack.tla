------------------------------ MODULE TcpStack ------------------------------
(***************************************************************************)
(* The user-space TCP of 04_protocolstack_underlying_c/second_version:     *)
(* the connection table, the segment handler and the retransmission timer  *)
(* of src/tcp.c, driven by the poll loop of src/main.c.                    *)
(*                                                                         *)
(* The program is one thread.  One iteration of the loop polls the TAP     *)
(* device for 10 ms, handles at most one frame and then runs               *)
(* tcp_timer_tick; every action below is one whole iteration, the trailing *)
(* tick included.  The network is open: any segment may arrive at any      *)
(* time, so lost, duplicated, delayed and reordered segments, and clients  *)
(* that restart, are all among the behaviours.                             *)
(*                                                                         *)
(* Abstraction.  A 4-tuple is a member of Flows; sequence numbers are      *)
(* counted modulo SEQ_MOD (2^32 in the code); a payload is its length; of  *)
(* the flag byte only SYN, ACK, FIN and PSH are kept (no other bit is      *)
(* tested); addresses and checksums are left out.                          *)
(***************************************************************************)
EXTENDS Integers, FiniteSets

CONSTANTS
    Flows,              \* the 4-tuples clients use (saddr, daddr, sport, dport)
    NoFlow,             \* any 4-tuple that no client uses, the zero one included
    MAX_CONN,           \* slots of the connection table
    MAX_RETRIES,        \* retransmissions before a connection is given up
    INITIAL_RTO_TICKS,  \* ticks before the first retransmission
    SEQ_MOD,            \* size of the sequence space (uint32_t)
    ISS,                \* initial send sequence number, the literal 5658
    Lens,               \* payload lengths computed for incoming segments
    FlagSets,           \* flag combinations of incoming segments
    HDR_LEN,            \* bytes of Ethernet, IP and TCP header of a frame
    PKG_SIZE,           \* sizeof unreact_pkg
    TCB_SIZE,           \* sizeof struct tcp
    BUF_SIZE,           \* sizeof buffer, where main reads a frame
    TICK_MOD,           \* range of rto_ticks and rto_counts (uint32_t)
    Garbage             \* the control blocks that bytes copied over one may spell

ASSUME TableAssumption == MAX_CONN \in Nat \ {0} /\ NoFlow \notin Flows
ASSUME TimerAssumption ==
    /\ MAX_RETRIES \in Nat \ {0}
    /\ INITIAL_RTO_TICKS \in Nat \ {0}
    /\ TICK_MOD \in Nat \ {0}
    /\ \A k \in 0 .. MAX_RETRIES : INITIAL_RTO_TICKS * 2 ^ k < TICK_MOD
ASSUME SeqAssumption == SEQ_MOD \in Nat \ {0} /\ ISS \in 0 .. SEQ_MOD - 1
ASSUME FrameAssumption ==
    /\ Lens \subseteq Int
    /\ FlagSets \subseteq SUBSET {"SYN", "ACK", "FIN"}
    /\ HDR_LEN \in Nat /\ PKG_SIZE \in Nat /\ HDR_LEN <= PKG_SIZE
    /\ TCB_SIZE \in Nat \ {0} /\ BUF_SIZE \in Nat /\ PKG_SIZE <= BUF_SIZE

VARIABLES
    tcp_conn,   \* the table of control blocks
    sent,       \* the TCP segments written to the TAP device in the last iteration
    proc        \* "running", "exited" (left the loop) or "crashed"

vars == <<tcp_conn, sent, proc>>

Slots == 1 .. MAX_CONN
Seqs == 0 .. SEQ_MOD - 1
AnyFlow == Flows \cup {NoFlow}
Flags == {"SYN", "ACK", "FIN", "PSH"}
\* OTHER stands for every value of the field the program never assigns.
States == {"CLOSED", "LISTEN", "SYN_RCVD", "ESTABLISHED", "LAST_ACK", "OTHER"}
Ticks == 0 .. TICK_MOD - 1

(***************************************************************************)
(* Segments.  A reply is addressed to its flow; intact is FALSE for the    *)
(* saved copy of a frame that does not fit the buffer it is saved in.      *)
(***************************************************************************)
Packets == [flow : AnyFlow, flags : SUBSET Flags, seq : Seqs, ack : Seqs,
            len : Int, intact : BOOLEAN]

NoPacket == [flow |-> NoFlow, flags |-> {}, seq |-> 0, ack |-> 0,
             len |-> 0, intact |-> TRUE]

\* A frame of n payload bytes fits unreact_pkg.
Fits(n) == HDR_LEN + n <= PKG_SIZE

\* What a client, or the network in its name, may put on the wire.  len is what
\* the header's total length says; nothing compares it with the bytes read.
Frames == [flow : Flows, flags : FlagSets, seq : Seqs, ack : Seqs, len : Lens]

(***************************************************************************)
(* The control block.                                                      *)
(***************************************************************************)
Tcbs == [usued : BOOLEAN, flow : AnyFlow, state : States,
         send_next : Seqs, recv_next : Seqs,
         time_active : BOOLEAN, rto_ticks : Ticks, rto_counts : Ticks,
         retry_count : Nat, unreact_pkg : Packets]

ZeroTcb == [usued |-> FALSE, flow |-> NoFlow, state |-> "CLOSED",
            send_next |-> 0, recv_next |-> 0,
            time_active |-> FALSE, rto_ticks |-> 0, rto_counts |-> 0,
            retry_count |-> 0, unreact_pkg |-> NoPacket]

ASSUME GarbageAssumption == Garbage \subseteq Tcbs /\ Garbage # {}

Init == /\ tcp_conn = [i \in Slots |-> ZeroTcb]
        /\ sent = {}
        /\ proc = "running"

-----------------------------------------------------------------------------
(***************************************************************************)
(* The table.  A lookup is the set of the slot it returns, {} for NULL.    *)
(***************************************************************************)
First(S) == {i \in S : \A j \in S : i <= j}

find_tcp(t, flow) == First({i \in Slots : t[i].usued /\ t[i].flow = flow})

free_slot(t) == First({i \in Slots : ~t[i].usued})

alloc_tcp(c, flow) == [c EXCEPT !.usued = TRUE, !.flow = flow, !.state = "SYN_RCVD"]

(***************************************************************************)
(* The retransmission timer of one control block.                          *)
(***************************************************************************)
\* Mutant: the saved segment is not replaced while the timer runs.
start_tcp_timer_KeepsPacket(c, p) ==
    [c EXCEPT !.unreact_pkg = IF c.time_active THEN @ ELSE [p EXCEPT !.intact = Fits(p.len)],
              !.time_active = TRUE, !.rto_counts = 0,
              !.rto_ticks = INITIAL_RTO_TICKS, !.retry_count = 0]

start_tcp_timer(c, p) ==
    [c EXCEPT !.unreact_pkg = [p EXCEPT !.intact = Fits(p.len)],
              !.time_active = TRUE, !.rto_counts = 0,
              !.rto_ticks = INITIAL_RTO_TICKS, !.retry_count = 0]

\* rto_ticks keeps its value.
close_tcp_timer(c) ==
    [c EXCEPT !.time_active = FALSE, !.rto_counts = 0, !.retry_count = 0]

\* A copy that stops after the first k fields of c, in the order of struct tcp.
Fields == 10
Cut(c, g, k) ==
    [usued       |-> IF k >= 1 THEN g.usued ELSE c.usued,
     flow        |-> IF k >= 2 THEN g.flow ELSE c.flow,
     time_active |-> IF k >= 3 THEN g.time_active ELSE c.time_active,
     rto_ticks   |-> IF k >= 4 THEN g.rto_ticks ELSE c.rto_ticks,
     rto_counts  |-> IF k >= 5 THEN g.rto_counts ELSE c.rto_counts,
     retry_count |-> IF k >= 6 THEN g.retry_count ELSE c.retry_count,
     state       |-> IF k >= 7 THEN g.state ELSE c.state,
     send_next   |-> IF k >= 8 THEN g.send_next ELSE c.send_next,
     recv_next   |-> IF k >= 9 THEN g.recv_next ELSE c.recv_next,
     unreact_pkg |-> IF k >= Fields THEN g.unreact_pkg ELSE c.unreact_pkg]

\* Mutant: a buffer one byte too small.
Reaches_OneByteShort(i, j, n) == i < j /\ PKG_SIZE - 1 + (j - i - 1) * TCB_SIZE < HDR_LEN + n

\* Where the copy of an n-byte payload into slot i's unreact_pkg ends relative
\* to slot j behind it: past its first byte, past its last one.
Reaches(i, j, n) == i < j /\ PKG_SIZE + (j - i - 1) * TCB_SIZE < HDR_LEN + n
Covers(i, j, n) == PKG_SIZE + (j - i) * TCB_SIZE <= HDR_LEN + n

Reach(i, n) == {j \in Slots : Reaches(i, j, n)}

\* The tables the unchecked memcpy of start_tcp_timer for slot i may leave: of
\* the slots behind i it overwrites as many as it reaches, the last in part.
overrun(t, i, n) ==
    {[j \in Slots |-> IF j \in Reach(i, n)
                      THEN Cut(t[j], g[j], IF Covers(i, j, n) THEN Fields ELSE k)
                      ELSE t[j]] : g \in [Reach(i, n) -> Garbage], k \in 0 .. Fields}

\* The copy reads beyond the frame buffer or writes beyond the table.
OutOfBounds(i, n) == HDR_LEN + n > BUF_SIZE \/ Reaches(i, MAX_CONN + 1, n)

\* rto_counts and rto_ticks are unsigned and wrap.
Wrap(n) == n % TICK_MOD

Armed(c) == c.time_active /\ c.usued
Due(c) == Armed(c) /\ Wrap(c.rto_counts + 1) >= c.rto_ticks
GivesUp(c) == Due(c) /\ c.retry_count >= MAX_RETRIES
Resends(c) == Due(c) /\ c.retry_count < MAX_RETRIES

\* Mutant: a connection given up keeps its slot.
tick_Leaks(c) ==
    IF GivesUp(c) THEN [c EXCEPT !.time_active = FALSE, !.state = "CLOSED"]
    ELSE IF Resends(c) THEN [c EXCEPT !.retry_count = @ + 1, !.rto_counts = 0,
                                      !.rto_ticks = Wrap(2 * @)]
    ELSE IF Armed(c) THEN [c EXCEPT !.rto_counts = Wrap(@ + 1)]
    ELSE c

\* Mutant: the interval is not doubled.
tick_NoDoubling(c) ==
    IF GivesUp(c) THEN [c EXCEPT !.rto_counts = Wrap(@ + 1), !.usued = FALSE,
                                 !.time_active = FALSE, !.state = "CLOSED"]
    ELSE IF Resends(c) THEN [c EXCEPT !.retry_count = @ + 1, !.rto_counts = 0]
    ELSE IF Armed(c) THEN [c EXCEPT !.rto_counts = Wrap(@ + 1)]
    ELSE c

\* Mutant: the last interval never ends.
tick_NeverGivesUp(c) ==
    IF GivesUp(c) THEN c
    ELSE IF Resends(c) THEN [c EXCEPT !.retry_count = @ + 1, !.rto_counts = 0,
                                      !.rto_ticks = Wrap(2 * @)]
    ELSE IF Armed(c) THEN [c EXCEPT !.rto_counts = Wrap(@ + 1)]
    ELSE c

\* Mutant: a connection given up keeps its state.
tick_KeepsState(c) ==
    IF GivesUp(c) THEN [c EXCEPT !.rto_counts = Wrap(@ + 1), !.usued = FALSE,
                                 !.time_active = FALSE]
    ELSE IF Resends(c) THEN [c EXCEPT !.retry_count = @ + 1, !.rto_counts = 0,
                                      !.rto_ticks = Wrap(2 * @)]
    ELSE IF Armed(c) THEN [c EXCEPT !.rto_counts = Wrap(@ + 1)]
    ELSE c

tick(c) ==
    IF GivesUp(c) THEN [c EXCEPT !.rto_counts = Wrap(@ + 1), !.usued = FALSE,
                                 !.time_active = FALSE, !.state = "CLOSED"]
    ELSE IF Resends(c) THEN [c EXCEPT !.retry_count = @ + 1, !.rto_counts = 0,
                                      !.rto_ticks = Wrap(2 * @)]
    ELSE IF Armed(c) THEN [c EXCEPT !.rto_counts = Wrap(@ + 1)]
    ELSE c

tcp_timer_tick(t) == [i \in Slots |-> tick(t[i])]

\* Mutant: the segment is written before the retry limit is tested.
resent_LimitTestedLate(t) == {t[i].unreact_pkg : i \in {j \in Slots : Due(t[j])}}

resent(t) == {t[i].unreact_pkg : i \in {j \in Slots : Resends(t[j])}}

-----------------------------------------------------------------------------
(***************************************************************************)
(* Segments the stack builds, and what each does to the control block.     *)
(***************************************************************************)
\* Mutant: the sum is not cut to the width of the field.
Add_NoWrap(s, n) == s + n

Add(s, n) == (s + n) % SEQ_MOD

Segment(flags, c, len) ==
    [flow |-> c.flow, flags |-> flags, seq |-> c.send_next, ack |-> c.recv_next,
     len |-> len, intact |-> TRUE]

\* Sequence numbers a segment of ours occupies.
SeqLen(p) == IF p.flags \cap {"SYN", "FIN"} = {} THEN p.len ELSE 1

\* Send, advance send_next and arm the timer with the segment.
SendReliably(c, p) == start_tcp_timer([c EXCEPT !.send_next = Add(@, SeqLen(p))], p)

Opened(c, f) == [alloc_tcp(c, f.flow) EXCEPT !.recv_next = Add(f.seq, 1), !.send_next = ISS]
SynAck(c, f) == Segment({"SYN", "ACK"}, Opened(c, f), 0)

Echoed(c, f) == [c EXCEPT !.recv_next = Add(f.seq, f.len)]
\* Mutant: send_next is advanced before the segment is built.
Echo_AfterAdvance(c, f) ==
    Segment({"ACK", "PSH"}, [Echoed(c, f) EXCEPT !.send_next = Add(@, f.len)], f.len)

Echo(c, f) == Segment({"ACK", "PSH"}, Echoed(c, f), f.len)

HasData(f) == "ACK" \in f.flags /\ f.len > 0
PureAck(c, f) == "ACK" \in f.flags /\ f.len = 0 /\ f.ack = c.send_next

Acked(c, f) == IF PureAck(c, f) THEN close_tcp_timer(c) ELSE c

Closing(c, f) == [Acked(c, f) EXCEPT !.recv_next = Add(f.seq, 1), !.state = "LAST_ACK"]
FinAck(c, f) == Segment({"FIN", "ACK"}, Closing(c, f), 0)

AcksAll(c, f) == "ACK" \in f.flags /\ f.ack = c.send_next

Confirmed(c, f) == IF AcksAll(c, f)
                   THEN [close_tcp_timer(c) EXCEPT !.state = "ESTABLISHED"] ELSE c

Released(c, f) == [close_tcp_timer(c) EXCEPT
                     !.usued = FALSE,
                     !.state = IF AcksAll(c, f) THEN "LISTEN" ELSE c.state]

-----------------------------------------------------------------------------
(***************************************************************************)
(* The loop iteration: t is the table the frame left behind, out what its  *)
(* handler wrote.                                                          *)
(***************************************************************************)
Tick(t, out) == /\ tcp_conn' = tcp_timer_tick(t)
                /\ sent' = out \cup resent(t)
                /\ UNCHANGED proc

Running == proc = "running"

\* The connection found, slot i, is in state s.
InState(i, s) == tcp_conn[i].state = s

Unknown(f) == find_tcp(tcp_conn, f.flow) = {}

\* First handshake segment: a slot is taken and SYN|ACK goes out.
HandleSyn(f) ==
    /\ Running /\ Unknown(f) /\ "SYN" \in f.flags
    /\ \E i \in free_slot(tcp_conn) :
         LET c == tcp_conn[i]
         IN  Tick([tcp_conn EXCEPT ![i] = SendReliably(Opened(c, f), SynAck(c, f))],
                  {SynAck(c, f)})

\* alloc_tcp returned NULL and the handler writes through it.
TableFull(f) ==
    /\ Running /\ Unknown(f) /\ "SYN" \in f.flags
    /\ free_slot(tcp_conn) = {}
    /\ proc' = "crashed" /\ sent' = {}
    /\ UNCHANGED tcp_conn

DropUnknown(f) ==
    /\ Running /\ Unknown(f) /\ "SYN" \notin f.flags
    /\ Tick(tcp_conn, {})

\* Third handshake segment; data or a FIN it carries is not looked at.
SynRcvd(i, f) ==
    /\ Running /\ InState(i, "SYN_RCVD")
    /\ Tick([tcp_conn EXCEPT ![i] = Confirmed(@, f)], {})

\* Data is echoed.  The flag byte is overwritten on the way, so a FIN that
\* came with the data is gone when the handler tests for it.
EstablishedData(i, f) ==
    /\ Running /\ InState(i, "ESTABLISHED") /\ HasData(f)
    /\ LET c == tcp_conn[i]
       IN  \E t \in overrun([tcp_conn EXCEPT ![i] = SendReliably(Echoed(c, f), Echo(c, f))],
                            i, f.len) :
              Tick(t, {Echo(c, f)})

\* The echo, its checksum or its saved copy leaves the memory of the program.
EchoCrash(i, f) ==
    /\ Running /\ InState(i, "ESTABLISHED") /\ HasData(f) /\ OutOfBounds(i, f.len)
    /\ proc' = "crashed"
    /\ sent' \in {{}, {Echo(tcp_conn[i], f)}}
    /\ UNCHANGED tcp_conn

EstablishedAck(i, f) ==
    /\ Running /\ InState(i, "ESTABLISHED") /\ ~HasData(f) /\ "FIN" \notin f.flags
    /\ Tick([tcp_conn EXCEPT ![i] = Acked(@, f)], {})

EstablishedFin(i, f) ==
    /\ Running /\ InState(i, "ESTABLISHED") /\ ~HasData(f) /\ "FIN" \in f.flags
    /\ LET c == tcp_conn[i]
       IN  Tick([tcp_conn EXCEPT ![i] = SendReliably(Closing(c, f), FinAck(c, f))],
                {FinAck(c, f)})

\* Any segment frees the slot; only the matching ACK also resets the state.
LastAck(i, f) ==
    /\ Running /\ InState(i, "LAST_ACK")
    /\ Tick([tcp_conn EXCEPT ![i] = Released(@, f)], {})

\* The default branch of the switch: only reached after an overrun.
OtherState(i, f) ==
    /\ Running /\ \E s \in {"CLOSED", "LISTEN", "OTHER"} : InState(i, s)
    /\ Tick(tcp_conn, {})

\* poll timed out, or the frame was ARP, ICMP, UDP, IPv6 or unknown: no
\* control block is touched before the tick.
NoSegment == Running /\ Tick(tcp_conn, {})

\* A frame shorter than an Ethernet header: `continue` skips the tick.
Runt == Running /\ sent' = {} /\ UNCHANGED <<tcp_conn, proc>>

\* poll or read failed: the loop ends.
LoopBreaks == Running /\ proc' = "exited" /\ sent' = {} /\ UNCHANGED tcp_conn

SegmentIteration(f) ==
    \/ HandleSyn(f) \/ DropUnknown(f)
    \/ \E i \in find_tcp(tcp_conn, f.flow) :
                        \/ SynRcvd(i, f) \/ LastAck(i, f) \/ OtherState(i, f)
                        \/ EstablishedData(i, f) \/ EstablishedAck(i, f)
                        \/ EstablishedFin(i, f)

\* The iterations that reach tcp_timer_tick.
TickIteration == NoSegment \/ \E f \in Frames : SegmentIteration(f)

Crash(f) == TableFull(f) \/ \E i \in find_tcp(tcp_conn, f.flow) : EchoCrash(i, f)

Next == TickIteration \/ Runt \/ LoopBreaks \/ \E f \in Frames : Crash(f)

Spec == Init /\ [][Next]_vars

-----------------------------------------------------------------------------
(***************************************************************************)
(* Properties.                                                             *)
(***************************************************************************)
\* Every variable has its type: the table, the segments written by one
\* iteration and the process status.
TypeOK == /\ tcp_conn \in [Slots -> Tcbs]
          /\ sent \in SUBSET Packets
          /\ proc \in {"running", "exited", "crashed"}

\* What the rest rests on: no frame is longer than the buffer it is saved in.
FramesFit == \A n \in Lens : Fits(n)

\* A 4-tuple has at most one control block, whatever is duplicated, lost or
\* reordered: find_tcp returns the first match, so a second block for the
\* same tuple would be unreachable and would retransmit on its own.
OneSlotPerFlow ==
    \A i, j \in Slots :
        tcp_conn[i].usued /\ tcp_conn[j].usued /\ tcp_conn[i].flow = tcp_conn[j].flow => i = j

\* A used control block belongs to a client and is in one of the three states
\* the switch of handle_tcp has a case for, so the slot can still make progress.
Live(c) == c.usued => /\ c.flow \in Flows
                      /\ c.state \in {"SYN_RCVD", "ESTABLISHED", "LAST_ACK"}

UsedSlotsLive == \A i \in Slots : Live(tcp_conn[i])

\* The flags of the last segment that state c.state left unacknowledged.
PendingFlags(s) == CASE s = "SYN_RCVD" -> {"SYN", "ACK"}
                     [] s = "LAST_ACK" -> {"FIN", "ACK"}
                     [] OTHER -> {"ACK", "PSH"}

\* p is the newest segment of c's own connection: right 4-tuple, ends at
\* send_next, acknowledges recv_next.
Newest(p, c) == /\ p.flow = c.flow
                /\ Add(p.seq, SeqLen(p)) = c.send_next
                /\ p.ack = c.recv_next
                /\ p.intact

Pending(c) == Armed(c) => /\ Newest(c.unreact_pkg, c)
                          /\ c.unreact_pkg.flags = PendingFlags(c.state)

\* What an armed timer would retransmit is the newest segment of that very
\* connection, of the kind its state calls for: never a leftover of an earlier
\* owner of the slot, of an earlier state or of an earlier acknowledgement.
RetransmitIsCurrent == \A i \in Slots : Pending(tcp_conn[i])

Guarded(c) == c.usued /\ c.state \in {"SYN_RCVD", "LAST_ACK"} => c.time_active

\* A connection that waits for the last segment of a handshake, opening or
\* closing, always has its timer armed: with no timer a silent peer would
\* hold the slot forever.
HalfOpenGuarded == \A i \in Slots : Guarded(tcp_conn[i])

\* The timer of an active connection is within its current interval, the
\* interval is the initial one doubled once per retransmission made, and no
\* more than MAX_RETRIES were made; this must survive restarts of the timer in
\* any state and slots reused by other connections.
Backoff ==
    \A i \in Slots :
        LET c == tcp_conn[i]
        IN  Armed(c) => /\ c.retry_count <= MAX_RETRIES
                        /\ c.rto_ticks = INITIAL_RTO_TICKS * 2 ^ c.retry_count
                        /\ c.rto_counts < c.rto_ticks

\* The table is sound: one slot per client, used slots in a state that can move
\* on, armed timers about the present state of their own connection, and a timer
\* on every connection that waits for a handshake's last segment.
TableSound == OneSlotPerFlow /\ UsedSlotsLive /\ RetransmitIsCurrent /\ HalfOpenGuarded

\* Whatever an iteration writes, as a reply or from the timer, is the newest
\* segment of a connection that still exists when the iteration is over.
SentIsCurrent == \A p \in sent : \E i \in Slots : tcp_conn[i].usued /\ Newest(p, tcp_conn[i])

\* The NULL that alloc_tcp returns is only ever dereferenced when more clients
\* than MAX_CONN are at work: slots never leak, so up to MAX_CONN clients can
\* open, lose and reopen connections without end.
CrashNeedsMoreClients == proc = "crashed" => Cardinality(Flows) > MAX_CONN

\* With more clients than slots the SYN that finds the table full is fatal, and
\* the table is then full of live connections, none of them the newcomer's.
CrashOnlyWhenFull ==
    proc = "crashed" => /\ \A i \in Slots : tcp_conn[i].usued /\ Live(tcp_conn[i])
                        /\ \E f \in Flows : \A i \in Slots : tcp_conn[i].flow # f

\* The protocol state of slot i changes while its connection lives on.
Moves(i) == /\ tcp_conn[i].usued /\ tcp_conn'[i].usued
            /\ \E x \in {"flow", "state", "send_next", "recv_next", "unreact_pkg"} :
                  tcp_conn[i][x] # tcp_conn'[i][x]

\* A slot is given up by the timer, after all of its retransmissions.
TimedOut(i) == tcp_conn[i].retry_count >= MAX_RETRIES /\ tcp_conn'[i].state = "CLOSED"

\* One iteration moves at most one connection and takes no other one away,
\* except those whose retransmissions are used up: no frame of one client, and
\* no tick, disturbs the sequence numbers, the state or the saved segment of
\* another client.
IsolatedStep ==
    \A i \in Slots :
        Moves(i) => \A j \in Slots \ {i} :
                        /\ ~Moves(j)
                        /\ tcp_conn[j].usued /\ ~tcp_conn'[j].usued => TimedOut(j)

Isolation == [][IsolatedStep]_vars

\* Slot i is disturbed by something other than its own timer.
Disturbed(i) == \/ Moves(i)
                \/ tcp_conn[i].usued # tcp_conn'[i].usued /\ ~TimedOut(i)

\* Slot e answers with an echo whose saved copy reaches every slot of S.
EchoReaches(e, S) ==
    /\ tcp_conn[e].usued /\ tcp_conn[e].state = "ESTABLISHED"
    /\ \E p \in sent' : p.flow = tcp_conn[e].flow /\ S \subseteq Reach(e, p.len)

\* Nothing but the saved copy of an oversized echo disturbs a second slot, and it
\* never reaches a slot in front of the connection that echoes: when one
\* iteration disturbs two slots, both are that connection's or lie behind it, as
\* far as the length written with the echo says.  This holds in a table damaged
\* before, duplicate 4-tuples and bogus states and timers included.
DamageIsBehind ==
    [][\A i, j \in Slots :
         i # j /\ Disturbed(i) /\ Disturbed(j) => \E e \in Slots : EchoReaches(e, {i, j} \ {e})]_vars

\* Sequence numbers are never skipped: send_next of a live connection moves
\* exactly by what one segment written in that very iteration occupies.
SendNextFollowsSegments ==
    [][\A i \in Slots :
         /\ tcp_conn[i].usued /\ tcp_conn'[i].usued
         /\ tcp_conn[i].send_next # tcp_conn'[i].send_next
         => \E p \in sent' : p.seq = tcp_conn[i].send_next /\ Newest(p, tcp_conn'[i])]_vars

HalfOpen(c) == c.usued /\ c.state \in {"SYN_RCVD", "LAST_ACK"}

\* The ticks until the timer gives a connection up, all retransmissions included.
Remaining(c) == INITIAL_RTO_TICKS * (2 ^ (MAX_RETRIES + 1) - 2 ^ c.retry_count) - c.rto_counts

\* No client can hold a slot half open: whatever arrives, repeated SYNs and stray
\* segments included, every iteration that reaches the tick brings a connection
\* that stays half open nearer to being given up, and there is an end to it.
Countdown ==
    [][\A i \in Slots :
         LET c == tcp_conn[i]  d == tcp_conn'[i]
         IN  HalfOpen(c) /\ HalfOpen(d) /\ c.state = d.state /\ tcp_conn' # tcp_conn
             => Remaining(d) \in 1 .. Remaining(c) - 1]_vars

=============================================================================
