------------------------------ MODULE MCSched -------------------------------
(***************************************************************************)
(* An instance of Sched: two Ps, three threads and sysmon.                 *)
(***************************************************************************)
EXTENDS Sched, TLC

CONSTANTS m1, m2, m3, p1, p2

ThreeMs == {m1, m2, m3}
TwoPs == {p1, p2}

Symmetric == Permutations(Ms) \cup Permutations(Ps)

=============================================================================
