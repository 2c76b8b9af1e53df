------------------------------ MODULE ReliableLink ------------------------------
(***************************************************************************)
(* The reliability protocol between a writer and a reader of two programs:    *)
(* DATA, HEARTBEAT, ACKNACK and GAP over a network that loses, repeats and    *)
(* reorders packets.  Writer and reader find each other independently, both   *)
(* keep a history of one, and the topic has no key.  The writer may have      *)
(* another reader (ping has pong and hoge), whose traffic is only seen        *)
(* through what the writer does.                                             *)
(*                                                                           *)
(* A reader's end keeps two reorder buffers: the proxy writer's, for readers  *)
(* that are in sync with it, and one of the reader's own, which begins at     *)
(* what the writer still has.  A reader in sync is given what leaves the       *)
(* former, one out of sync what leaves the latter.                           *)
(***************************************************************************)
EXTENDS Integers, FiniteSets, Sequences, FiniteSetsExt, SortedSets

CONSTANTS
    MaxSeq,    \* bound: samples written
    MaxNet     \* bound: packets under way at a time

ASSUME LinkAssumption == MaxSeq \in Nat \ {0} /\ MaxNet \in Nat \ {0}

Seqs      == 1..MaxSeq
Unmatched == -1      \* of rn_seq and other: no such connection
Never     == MaxSeq + 2  \* MAX_SEQ_NUMBER

VARIABLES
    net,         \* packets sent, each to arrive any number of times
    \* The writer.
    seq,         \* wr->seq
    seq_xmit,    \* the last one transmitted; less than seq while dds_write is at it
    whc,         \* the writer history cache
    rn_seq,      \* what the reader has acknowledged
    replied,     \* whose rn->has_replied_to_hb is set: "reader", "other"
    other,       \* what the other reader has acknowledged
    first,       \* seq when the writer matched the reader
    \* The reader's end: its proxy writer and the match with the reader.
    connected,   \* the proxy writer exists and the reader is matched to it
    seen,        \* pwr->have_seen_heartbeat
    last_seq,    \* pwr->last_seq, the highest number heard of
    primary,     \* pwr->reorder
    own,         \* wn->u.not_in_sync.reorder
    in_sync,     \* wn->in_sync
    end_of_tl,   \* wn->u.not_in_sync.end_of_tl_seq
    asked,       \* a heartbeat that wants an answer has not been answered
    log          \* what the reader's cache has been given, in order

writerVars == <<seq, seq_xmit, whc, rn_seq, replied, other, first>>
readerVars == <<connected, seen, last_seq, primary, own, in_sync, end_of_tl, asked, log>>
vars       == <<net, writerVars, readerVars>>

Data(s)              == [kind |-> "DATA", seq |-> s]
Heartbeat(a, b, fin) == [kind |-> "HEARTBEAT", firstSN |-> a, lastSN |-> b, final |-> fin]
AckNack(base, end, bits) == [kind |-> "ACKNACK", base |-> base, end |-> end, bits |-> bits]
Preemptive           == [kind |-> "PREEMPTIVE"]
Gap(a, b)            == [kind |-> "GAP", start |-> a, end |-> b]

Fresh == [next |-> 1, held |-> {}, gone |-> {}]

Init ==
    /\ net = {}
    /\ seq = 0 /\ seq_xmit = 0 /\ whc = {}
    /\ rn_seq = Unmatched /\ replied = {} /\ other = Unmatched /\ first = 0
    /\ connected = FALSE /\ seen = FALSE /\ last_seq = 0
    /\ primary = Fresh /\ own = Fresh
    /\ in_sync = "OUT_OF_SYNC" /\ end_of_tl = Never
    /\ asked = FALSE /\ log = <<>>

\* Packets are sent.  Any of them may be lost; the others are under way, until
\* more than the bound are and one is lost.
Send(msgs) ==
    /\ net' \in SUBSET (net \cup msgs)
    /\ IF net \subseteq net' THEN Cardinality(net') <= MaxNet
                            ELSE Cardinality(net') = MaxNet

--------------------------------------------------------------------------------
(* Reorder buffers.                                                          *)

\* The buffer moves past all that follows without a break; "out" is what it
\* has of that.
Advance(r) ==
    LET known == r.held \cup r.gone
        next  == Min({n \in r.next..Never : n \notin known})
    IN  [r |-> [next |-> next,
                held |-> {n \in r.held : n >= next}, gone |-> {n \in r.gone : n >= next}],
         out |-> {n \in r.held : n < next}]

\* Slip: what completes the sequence is kept like the rest.
HoldOnly(r, s) ==
    IF s < r.next \/ s \in r.held \cup r.gone THEN [r |-> r, out |-> {}]
    ELSE [r |-> [r EXCEPT !.held = @ \cup {s}], out |-> {}]

\* nn_reorder_rsample: a number that has been passed or is known is dropped.
ReorderSample(r, s) ==
    IF s < r.next \/ s \in r.held \cup r.gone THEN [r |-> r, out |-> {}]
    ELSE Advance([r EXCEPT !.held = @ \cup {s}])

\* nn_reorder_gap: [a, b) is not available, except for what has been received.
ReorderGap(r, a, b) ==
    Advance([r EXCEPT !.gone = @ \cup {n \in a..b-1 : n >= r.next /\ n \notin r.held}])

--------------------------------------------------------------------------------
(* The writer.                                                               *)

HasReaders == rn_seq # Unmatched \/ other # Unmatched

\* Slip: one reader's acknowledgment will do.
UnackedByAll(kept, a, b) ==
    {s \in kept : \A ack \in {a, b} : ack # Unmatched => s > ack}

\* ddsi_remove_acked_messages: what every reader has acknowledged goes.
Unacked(kept, a, b) ==
    {s \in kept : \E ack \in {a, b} : ack # Unmatched /\ s > ack}

\* writer_add_connection: earlier samples count as acknowledged.
WriterMatches ==
    /\ rn_seq = Unmatched
    /\ rn_seq' = seq /\ first' = seq
    /\ UNCHANGED <<net, seq, seq_xmit, whc, replied, other, readerVars>>

\* The same of the other reader.
OtherMatches ==
    /\ other = Unmatched
    /\ other' = seq
    /\ UNCHANGED <<net, seq, seq_xmit, whc, rn_seq, replied, first, readerVars>>

\* The other reader acknowledges, for the first time or more than before; what
\* it asks for besides is between the two.
OtherAcks ==
    /\ other # Unmatched
    /\ \E n \in other..seq_xmit :
         /\ other' = n
         /\ whc' = Unacked(whc, rn_seq, n)
    /\ replied' = replied \cup {"other"}
    /\ UNCHANGED <<net, seq, seq_xmit, rn_seq, first, readerVars>>

\* whc_default_insert into a history of one.
Insert(s) == {s}

\* write_sample_eot, under the writer's lock; without readers there is neither
\* a cache to fill nor an address to send to.
Write ==
    /\ seq_xmit = seq /\ seq < MaxSeq
    /\ seq' = seq + 1
    /\ IF HasReaders THEN whc' = Insert(seq + 1) /\ UNCHANGED seq_xmit
                     ELSE seq_xmit' = seq + 1 /\ UNCHANGED whc
    /\ UNCHANGED <<net, rn_seq, replied, other, first, readerVars>>

\* Slip: nothing transmitted of what is cached, therefore nothing cached.
AdvertiseNothing(xmit, fin) ==
    IF whc = {} \/ xmit < Min(whc) THEN Heartbeat(seq + 1, seq, fin)
    ELSE Heartbeat(Min(whc), xmit, fin)

\* add_Heartbeat: what the cache has and has been transmitted.
HeartbeatAt(xmit, fin) ==
    IF whc = {} THEN Heartbeat(seq + 1, seq, fin)
    ELSE Heartbeat(Min(whc), IF xmit >= Min(whc) THEN xmit ELSE Min(whc) - 1, fin)

HeartbeatNow(fin) == HeartbeatAt(seq_xmit, fin)

\* transmit_sample_unlocks_wr: the packet goes out, perhaps with a heartbeat
\* that already counts it; none is as good as one that is lost.
Transmit ==
    /\ seq_xmit < seq
    /\ seq_xmit' = seq
    /\ \E fin \in BOOLEAN : Send({Data(seq), HeartbeatAt(seq, fin)})
    /\ UNCHANGED <<seq, whc, rn_seq, replied, other, first, readerVars>>

\* ddsi_writer_must_have_hb_scheduled: a reader has not replied to one yet, or
\* something has not been acknowledged; without readers there is neither.
MustHaveHb ==
    \/ rn_seq # Unmatched /\ "reader" \notin replied
    \/ other # Unmatched /\ "other" \notin replied
    \/ Unacked(whc, rn_seq, other) # {}

\* handle_xevk_heartbeat.
PeriodicHeartbeat(fin) ==
    /\ MustHaveHb
    /\ Send({HeartbeatNow(fin)})
    /\ UNCHANGED <<writerVars, readerVars>>

\* grow_gap_to_next_seq.
GrowGap(end) ==
    LET later == {s \in whc : s >= end}
    IN  IF later = {} THEN seq_xmit + 1
        ELSE IF Min(later) > seq_xmit THEN seq_xmit ELSE Min(later)

\* The maximal intervals of a set of numbers, as gaps.
GapsOf(S, end) ==
    {LET b == Min({n \in a..Never : n \notin S})
     IN  Gap(a, IF a = Min(S) /\ b = end THEN GrowGap(b) ELSE b) : a \in {n \in S : n - 1 \notin S}}

\* The NACK part of handle_AckNack: transmitted samples the cache still has are
\* repeated, for the others a gap; acknowledged ones are never sent again.
Resend(m, ack) ==
    LET request == {s \in m.bits : s <= seq_xmit}
        again   == {s \in request \cap whc : m.base <= ack => s > ack}
    IN  {Data(s) : s \in again}
          \cup (IF request \ again = {} THEN {} ELSE GapsOf(request \ again, m.end))

\* Slip: an acknowledgment of nothing new is no reply.
AcksMore(m) == m.bits = {} /\ m.base - 1 > rn_seq

\* is_pure_nonhist_ack.
PureAck(m) == m.bits = {} /\ m.base - 1 >= rn_seq

\* handle_AckNack: the ACK part, then the NACK part and a heartbeat with it.
HandleAckNack(m) ==
    /\ rn_seq # Unmatched
    /\ LET ack == IF m.base - 1 <= rn_seq THEN rn_seq
                  ELSE IF m.base - 1 <= seq THEN m.base - 1 ELSE seq
           answer == Resend(m, ack)
       IN  /\ rn_seq' = ack
           /\ whc' = Unacked(whc, ack, other)
           /\ replied' = IF PureAck(m) THEN replied \cup {"reader"} ELSE replied
           /\ IF answer = {} THEN UNCHANGED net ELSE Send(answer \cup {HeartbeatNow(FALSE)})
    /\ UNCHANGED <<seq, seq_xmit, other, first, readerVars>>

\* handle_AckNack of a pre-emptive one: a heartbeat in return.  If the writer
\* has not written anything yet it passes for the reply to one.
HandlePreemptive ==
    /\ rn_seq # Unmatched
    /\ replied' = IF PureAck(AckNack(1, 1, {})) THEN replied \cup {"reader"} ELSE replied
    /\ Send({HeartbeatNow(FALSE)})
    /\ UNCHANGED <<seq, seq_xmit, whc, rn_seq, other, first, readerVars>>

--------------------------------------------------------------------------------
(* The reader's end.                                                         *)

\* The proxy writer is created and proxy_writer_add_connection.
ReaderMatches ==
    /\ ~connected
    /\ connected' = TRUE
    /\ UNCHANGED <<net, writerVars, seen, last_seq, primary, own, in_sync, end_of_tl, asked, log>>

\* make_preemptive_acknack, until the first heartbeat.
SendPreemptive ==
    /\ connected /\ ~seen
    /\ Send({Preemptive})
    /\ UNCHANGED <<writerVars, readerVars>>

\* deliver_user_data: samples in the order of their numbers.
Deliver(out) == log' = log \o Sorted(out)

\* Slip: to every reader.
ToEveryReader(p) == p.out

\* deliver_locally_allinsync: what leaves the primary buffer, if this reader is in sync.
ToSync(p) == IF in_sync = "SYNC" THEN p.out ELSE {}

\* Slip: the last of the old samples does not count.
SyncOnlyAfter(sync, o, p, tl, last) ==
    IF sync = "TLCATCHUP" \/ (sync = "OUT_OF_SYNC" /\ o = p)
      THEN IF last > tl THEN "SYNC" ELSE "TLCATCHUP"
      ELSE sync

\* maybe_set_reader_in_sync, given that the next two numbers of own and primary,
\* the end of the old samples and the last number delivered are these.
SyncAfter(sync, o, p, tl, last) ==
    IF sync = "TLCATCHUP" \/ (sync = "OUT_OF_SYNC" /\ o = p)
      THEN IF last >= tl THEN "SYNC" ELSE "TLCATCHUP"
      ELSE sync

\* What a message makes of the two buffers, given the end of the old samples
\* and the last number delivered.  The reader's own is not looked at any more
\* once it is in sync.
FromBuffers(p, o, tl, last) ==
    LET sync == SyncAfter(in_sync, o.r.next, p.r.next, tl, last)
    IN  /\ primary' = p.r
        /\ in_sync' = sync
        /\ own' = IF sync = "SYNC" THEN Fresh ELSE o.r
        /\ end_of_tl' = IF sync = "SYNC" THEN Never ELSE tl

Unmoved == [r |-> own, out |-> {}]

\* handle_Heartbeat.  Numbers before firstSN will not come any more; by the
\* first heartbeat the proxy writer starts after lastSN.
HandleHeartbeat(m) ==
    LET p    == ReorderGap(primary, 1, IF seen THEN m.firstSN ELSE m.lastSN + 1)
        o    == IF in_sync = "OUT_OF_SYNC" THEN ReorderGap(own, 1, m.firstSN) ELSE Unmoved
        tl   == IF end_of_tl = Never THEN m.lastSN ELSE end_of_tl
        last == (IF in_sync = "OUT_OF_SYNC" THEN o.r.next ELSE p.r.next) - 1
    IN  /\ connected
        /\ seen' = TRUE
        /\ last_seq' = Max({last_seq, m.lastSN})
        /\ FromBuffers(p, o, tl, last)
        /\ Deliver(ToSync(p) \cup o.out)
        /\ asked' = (asked \/ ~m.final)
        /\ UNCHANGED <<net, writerVars, connected>>

\* handle_regular: nothing is accepted until a heartbeat has been seen.
HandleData(s) ==
    LET p == ReorderSample(primary, s)
        o == IF in_sync = "SYNC" THEN Unmoved ELSE ReorderSample(own, s)
    IN  /\ connected /\ seen
        /\ last_seq' = Max({last_seq, s})
        /\ IF o.out = {} THEN /\ primary' = p.r /\ own' = o.r
                              /\ UNCHANGED <<in_sync, end_of_tl>>
                         ELSE FromBuffers(p, o, end_of_tl, s)
        /\ Deliver(ToSync(p) \cup o.out)
        /\ UNCHANGED <<net, writerVars, connected, seen, asked>>

\* handle_Gap and handle_one_gap; an empty interval is only heard of.
HandleGap(a, b) ==
    LET p == ReorderGap(primary, a, b)
        o == IF in_sync = "OUT_OF_SYNC" THEN ReorderGap(own, a, b) ELSE Unmoved
    IN  /\ connected /\ seen
        /\ last_seq' = Max({last_seq, b - 1})
        /\ IF a < b
             THEN FromBuffers(p, o, end_of_tl, b - 1) /\ Deliver(ToSync(p) \cup o.out)
             ELSE UNCHANGED <<primary, own, in_sync, end_of_tl, log>>
        /\ UNCHANGED <<net, writerVars, connected, seen, asked>>

\* add_AckNack_getsource.
AckSource == IF in_sync = "OUT_OF_SYNC" THEN own ELSE primary

\* Slip: up to, but not including, the last one heard of.
MissingBefore ==
    {n \in AckSource.next..last_seq-1 : n \notin AckSource.held \cup AckSource.gone}

\* nn_reorder_nackmap: what is to be asked for.
Missing ==
    {n \in AckSource.next..last_seq : n \notin AckSource.held \cup AckSource.gone}

\* make_and_resched_acknack.  What is missing is asked for until it comes.
SendNack ==
    /\ connected /\ seen
    /\ Missing # {}
    /\ Send({AckNack(AckSource.next, last_seq + 1, Missing)})
    /\ asked' = FALSE
    /\ UNCHANGED <<writerVars, connected, seen, last_seq, primary, own, in_sync, end_of_tl, log>>

\* A pure acknowledgment, and a request held back, only answer a heartbeat.
SendAck ==
    /\ asked
    /\ Send({AckNack(AckSource.next, AckSource.next, {})})
    /\ asked' = FALSE
    /\ UNCHANGED <<writerVars, connected, seen, last_seq, primary, own, in_sync, end_of_tl, log>>

--------------------------------------------------------------------------------

\* A packet arrives; it may arrive again.
Receive(m) ==
    \/ m.kind = "HEARTBEAT" /\ HandleHeartbeat(m)
    \/ m.kind = "DATA" /\ HandleData(m.seq)
    \/ m.kind = "GAP" /\ HandleGap(m.start, m.end)
    \/ m.kind = "ACKNACK" /\ HandleAckNack(m)
    \/ m.kind = "PREEMPTIVE" /\ HandlePreemptive

Next ==
    \/ WriterMatches \/ OtherMatches \/ OtherAcks
    \/ Write \/ Transmit
    \/ \E fin \in BOOLEAN : PeriodicHeartbeat(fin)
    \/ ReaderMatches \/ SendPreemptive \/ SendNack \/ SendAck
    \/ \E m \in net : Receive(m)

Sent(A, m)  == A /\ m \in net'
Received(m) == m \in net /\ Receive(m)

\* What the reader's timer makes it send (handle_xevk_acknack), what the writer
\* says to that, and what helps the reader on.
Answer ==
    CASE ~seen           -> Preemptive
      [] Missing # {}    -> AckNack(AckSource.next, last_seq + 1, Missing)
      [] OTHER           -> AckNack(AckSource.next, AckSource.next, {})
Reply(m)   == IF m = Preemptive THEN {HeartbeatNow(FALSE)} ELSE Resend(m, rn_seq')
Helpful(m) == m = Data(seq) \/ (m.kind = "GAP" /\ AckSource.next \in m.start..m.end-1)

\* A packet sent again and again arrives now and then, and the timers of both
\* ends fire.  What happens only so often needs no fairness of its own.
Fairness ==
    /\ WF_vars(WriterMatches \/ ReaderMatches \/ Transmit \/ OtherAcks)
    /\ WF_vars(Sent(PeriodicHeartbeat(FALSE), HeartbeatNow(FALSE)))
    /\ SF_vars(Received(HeartbeatNow(FALSE)))
    /\ SF_vars(Sent(SendPreemptive \/ SendNack \/ SendAck, Answer))
    /\ SF_vars(Received(Answer) /\ Reply(Answer) \subseteq net')
    /\ SF_vars(\E m \in net : Helpful(m) /\ Receive(m))

Spec     == Init /\ [][Next]_vars
FairSpec == Spec /\ Fairness

--------------------------------------------------------------------------------
(* Properties.                                                               *)

Given == {log[i] : i \in 1..Len(log)}

\* Types, with the shape of a reorder buffer: what it holds and what it knows to
\* be gone lies behind a number it still waits for (q_radmin.c:1590-1640).
BufferOK(r) ==
    /\ r.next \in 1..Never
    /\ r.held \subseteq Seqs /\ r.gone \subseteq Seqs
    /\ r.held \cap r.gone = {}
    /\ \A n \in r.held \cup r.gone : n > r.next

TypeOK ==
    /\ seq_xmit \in 0..MaxSeq /\ seq \in seq_xmit..seq_xmit+1 /\ whc \subseteq 1..seq
    /\ {rn_seq, other} \subseteq {Unmatched} \cup 0..seq
    /\ first \in 0..seq /\ {connected, seen, asked} \subseteq BOOLEAN
    /\ replied \subseteq {"reader", "other"}
    /\ BufferOK(primary) /\ BufferOK(own)
    /\ last_seq \in 0..MaxSeq
    /\ in_sync \in {"SYNC", "TLCATCHUP", "OUT_OF_SYNC"}
    /\ end_of_tl \in 0..Never

\* A sample the reader is due and has not been given.
Due(s) == rn_seq # Unmatched /\ s > first /\ s \notin Given

\* The last sample written stays in the writer's cache until this reader has
\* been given it, whoever else acknowledges it (remove_acked_messages).
KeptUntilGiven == Due(seq) => seq \in whc

\* Nothing under way disowns it either: "we must never advertise the minimum
\* available sequence number incorrectly" (q_transmit.c, add_Heartbeat).
NothingDisowned ==
    \A m \in net : Due(seq) =>
        /\ m.kind = "HEARTBEAT" => m.firstSN <= seq
        /\ m.kind = "GAP" => seq \notin m.start..m.end-1

\* A reader is never left between the two buffers, where gaps reach only the
\* one it is not given from (handle_one_gap): with a history of one it goes
\* from its own buffer to the shared one in a single step.
NeverBetween == in_sync # "TLCATCHUP"

\* What reaches the reader's cache is a part of what was written, in that order,
\* nothing twice, although it comes from two buffers in turn and packets are
\* repeated and overtake each other.
Link == INSTANCE KeepLastLink WITH written <- seq, given <- log
InOrder == Link!Spec

\* The last sample written after the match arrives, however many packets are
\* lost.  A newer one may take its place, but there is a last one of those, and
\* it is never due for good (the resends of handle_AckNack, q_receive.c).
NewestArrives == []<>~Due(seq)

\* The two ends come to terms: the reader has heard a heartbeat, without which it
\* accepts nothing, even if the writer has taken a pre-emptive acknowledgment for
\* the reply to one; and when all is acknowledged the writer falls silent.
Settles == <>[](seen /\ rn_seq # Unmatched /\ ~MustHaveHb)
================================================================================
