------------------------------- MODULE TakeLoop -------------------------------
(***************************************************************************)
(* What a program's loop around its waitset promises: whatever arrives at   *)
(* one of its readers is taken, by that program and eventually, and nothing *)
(* empties a reader but a take.  WaitSet shows that the waitset machinery   *)
(* keeps this promise; PingPongMesh assumes it of every program.            *)
(***************************************************************************)
CONSTANTS Readers

VARIABLE has   \* has[r]: reader r holds something to take

Init == has = [r \in Readers |-> FALSE]

Arrive(r) == has' = [has EXCEPT ![r] = TRUE]

Take(r) == has[r] /\ has' = [has EXCEPT ![r] = FALSE]

Next == \E r \in Readers : Arrive(r) \/ Take(r)

Spec == Init /\ [][Next]_has /\ \A r \in Readers : WF_has(Take(r))
================================================================================
