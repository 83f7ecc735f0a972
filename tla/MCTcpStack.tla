----------------------------- MODULE MCTcpStack -----------------------------
(***************************************************************************)
(* Instances of TcpStack for TLC: a table of a few slots, a small sequence *)
(* space that wraps, payloads of -1 (an inconsistent length field), 0 and  *)
(* a few bytes.                                                            *)
(***************************************************************************)
EXTENDS TcpStack, TLC

CONSTANTS f1, f2, f3

TwoFlows == {f1, f2}
ThreeFlows == {f1, f2, f3}

\* Of Lens: -1 stands for an inconsistent length field; every frame fits.
OddLens == {-1, 0, 1}
\* The copy of a payload of 3 reaches the next slot, that of 4 also the one after.
LongLens == {0, 4}

\* What stray bytes spell: a free block in a bogus state, and an open connection
\* of a client with no retry left and a timer about to wrap.
OddTcb(flow) == [ZeroTcb EXCEPT !.usued = TRUE, !.flow = flow, !.state = "ESTABLISHED",
                                !.time_active = TRUE, !.rto_ticks = INITIAL_RTO_TICKS,
                                !.rto_counts = TICK_MOD - 1, !.retry_count = MAX_RETRIES]
StrayTcbs == {[ZeroTcb EXCEPT !.state = "OTHER"]} \cup {OddTcb(f) : f \in Flows}
NoStray == {ZeroTcb}

\* Enough to open, to echo and to close.
FewFlags == {{"SYN"}, {"FIN", "ACK"}}
\* Every combination.
AnyFlags == SUBSET {"SYN", "ACK", "FIN"}

FlowSymmetry == Permutations(Flows)

=============================================================================
