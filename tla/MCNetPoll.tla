----------------------------- MODULE MCNetPoll ------------------------------
(***************************************************************************)
(* Instances of NetPoll: one or two threads that set deadlines, poll, run  *)
(* timers and close, and one goroutine that waits.                         *)
(***************************************************************************)
EXTENDS NetPoll, TLC

CONSTANTS t1, t2

One == {t1}
Two == {t1, t2}
Symmetric == Permutations(Threads)

Reader == {"r"}
Writer == {"w"}

\* SetReadDeadline and SetDeadline; all three.
ReadOrBoth == {{"r"}, {"r", "w"}}
ForAny == {{"r"}, {"w"}, {"r", "w"}}

\* In the past, none, and in the future.
Soon == {1}
AnyDelay == {-1, 0, 1}

=============================================================================
