------------------------------ MODULE SortedSets ------------------------------
(* Sets of numbers in ascending order: SetToSortSeq of SequencesExt, without  *)
(* an operator for an argument.                                               *)
EXTENDS Integers, FiniteSets

\* The i-th number is the one with i-1 others before it.
Sorted(S) ==
    [i \in 1..Cardinality(S) |->
        CHOOSE n \in S : Cardinality({m \in S : m < n}) = i - 1]
================================================================================
