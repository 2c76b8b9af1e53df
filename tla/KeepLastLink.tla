----------------------------- MODULE KeepLastLink -----------------------------
(***************************************************************************)
(* What a reliable link with a history of one promises its two programs: the *)
(* reader is given some of what has been written, each once, in the order in  *)
(* which it was written.  PingPongMesh builds on this; ReliableLink, the      *)
(* protocol of CycloneDDS 0.10.5, is shown to refine it.                      *)
(***************************************************************************)
EXTENDS Integers, Sequences

VARIABLES
    written,    \* the number of the last sample written
    given       \* the samples the reader has been given

Init == written = 0 /\ given = <<>>

Write == written' = written + 1 /\ UNCHANGED given

\* Some later samples arrive, those between are never seen.
Give ==
    \E n \in 1..written :
        \E q \in [1..n -> {s \in 1..written : \A i \in 1..Len(given) : given[i] < s}] :
            /\ \A i, j \in 1..n : i < j => q[i] < q[j]
            /\ given' = given \o q
            /\ UNCHANGED written

Next == Write \/ Give

Spec == Init /\ [][Next]_<<written, given>>
================================================================================
