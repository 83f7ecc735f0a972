------------------------------ MODULE FileCopy ------------------------------
(***************************************************************************)
(* What a set of downloads promises: each copy is at all times the         *)
(* beginning of the file its reader asked for, it only grows, and it is    *)
(* declared whole only when it is.  A reader may give up at any time.      *)
(* A copy may also be spoiled by the medium it is written to: nothing is   *)
(* said of such a copy but that it is only appended to.                    *)
(***************************************************************************)
EXTENDS Naturals, Sequences

CONSTANTS Readers,
          Source      \* reader -> the file it asked for, a sequence of bytes

VARIABLES copy,       \* reader -> the bytes written so far
          verdict     \* reader -> "going", "whole", "given up" or "spoiled"

CopyInit == /\ copy = [r \in Readers |-> <<>>]
            /\ verdict = [r \in Readers |-> "going"]

Verdicts(whole) == {"going", "given up"} \cup {v \in {"whole"} : whole}

Extend(r) ==
    /\ verdict[r] = "going"
    /\ \E n \in Len(copy[r]) .. Len(Source[r]) :
          /\ copy' = [copy EXCEPT ![r] = SubSeq(Source[r], 1, n)]
          /\ \E v \in Verdicts(n = Len(Source[r])) : verdict' = [verdict EXCEPT ![r] = v]

Spoil(r) ==
    /\ verdict[r] \in {"going", "spoiled"}
    /\ verdict' = [verdict EXCEPT ![r] = "spoiled"]
    /\ Len(copy'[r]) >= Len(copy[r]) /\ SubSeq(copy'[r], 1, Len(copy[r])) = copy[r]
    /\ \A q \in Readers \ {r} : copy'[q] = copy[q]

CopyNext == \E r \in Readers : Extend(r) \/ Spoil(r)

CopySpec == CopyInit /\ [][CopyNext]_<<copy, verdict>>

=============================================================================
