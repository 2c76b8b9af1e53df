------------------------------ MODULE SampleCache ------------------------------
(***************************************************************************)
(* What a DDS reader promises the programs of this repository.  A reader of *)
(* a keyless KEEP_LAST topic holds at most Depth samples, drops the oldest  *)
(* one to make room for a new one, remembers which writers feed it, and     *)
(* tells the application that the last of them has gone: by an "invalid"    *)
(* sample if nothing else is left to take, silently otherwise.              *)
(*                                                                          *)
(* ReaderCache.tla is the implementation, dds_rhc_default.c of CycloneDDS   *)
(* 0.10.5, and is shown to refine this module.                              *)
(***************************************************************************)
EXTENDS Naturals, Sequences

CONSTANTS
    Writers,    \* writers of the topic, as the reader identifies them (wr_iid)
    Values,     \* payloads
    Depth,      \* history depth of the reader; 1 in the programs
    MaxSamples  \* how many samples one dds_take may return; 16 in the programs

VARIABLES
    writers,    \* the writers registered for the topic's single instance
    queue,      \* the samples that wait to be taken, oldest first
    notice      \* an invalid sample waits to be taken

vars == <<writers, queue, notice>>

Init ==
    /\ writers = {}
    /\ queue = <<>>
    /\ notice = FALSE

\* KEEP_LAST: a full queue gives up its oldest sample.
Push(q, v) == IF Len(q) = Depth THEN Append(Tail(q), v) ELSE Append(q, v)

\* What is left of q once n samples have been taken from its head.
Drop(q, n) == IF n < Len(q) THEN SubSeq(q, n + 1, Len(q)) ELSE <<>>

Put(w, v) ==
    /\ writers' = writers \cup {w}
    /\ queue' = Push(queue, v)
    /\ notice' = FALSE

WriterLost(w) ==
    /\ w \in writers
    /\ writers' = writers \ {w}
    /\ notice' = (writers' = {} /\ queue = <<>>)
    /\ queue' = queue

Take ==
    /\ queue # <<>> \/ notice
    /\ queue' = Drop(queue, MaxSamples)
    /\ notice' = FALSE
    /\ UNCHANGED writers

Next ==
    \/ \E w \in Writers, v \in Values : Put(w, v)
    \/ \E w \in Writers : WriterLost(w)
    \/ Take

Spec == Init /\ [][Next]_vars
================================================================================
