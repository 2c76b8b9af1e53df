--------------------------- MODULE ReliableLinkProofs ---------------------------
(***************************************************************************)
(* The reliability protocol delivers in order and never gives up the newest   *)
(* sample, for any number of samples and packets under way.                  *)
(*                                                                           *)
(* The argument: as long as the reader is due the last sample, neither of its *)
(* buffers has passed it or takes it for lost (StillAwaited), hence no        *)
(* acknowledgment under way or processed covers it (Honest, Unacknowledged),  *)
(* hence the writer keeps it (Cached), hence no heartbeat and no gap denies it *)
(* (Honest), hence no buffer gives it up.                                    *)
(***************************************************************************)
EXTENDS ReliableLink, SortedSetsProofs

\* Numbers the buffer has passed, holds, or knows to be gone.
Knows(r, n) == n < r.next \/ n \in r.held \/ n \in r.gone

\* A reorder buffer that has heard of numbers up to "top".
Buffer(r, top) ==
    /\ r \in [next : Nat, held : SUBSET Nat, gone : SUBSET Nat]
    /\ r.next \in 1..top+1
    /\ r.held \subseteq 1..top /\ r.gone \subseteq 1..top
    /\ r.held \cap r.gone = {}
    /\ \A n \in r.held \cup r.gone : n > r.next

\* The ranges of the writer's numbers and of the flags.
Numbers ==
    /\ seq \in 0..MaxSeq /\ seq_xmit \in 0..MaxSeq /\ seq \in seq_xmit..seq_xmit+1
    /\ rn_seq \in {Unmatched} \cup 0..seq /\ other \in {Unmatched} \cup 0..seq
    /\ first \in 0..seq
    /\ connected \in BOOLEAN /\ seen \in BOOLEAN /\ asked \in BOOLEAN
    /\ replied \in SUBSET {"reader", "other"}

\* A history of one; a reader that lacks the last sample has it kept.
Cached ==
    /\ whc \subseteq 1..seq /\ whc \subseteq {seq}
    /\ whc # {} => HasReaders
    /\ rn_seq # Unmatched /\ rn_seq < seq => seq \in whc

\* The writer takes nothing for acknowledged that is due.
Unacknowledged == Due(seq) => rn_seq < seq

\* The reader's end has heard of no more than has been written.
Buffers ==
    /\ Buffer(primary, seq) /\ Buffer(own, seq)
    /\ last_seq \in 0..seq /\ end_of_tl \in 0..Never

\* Out of sync, the reader's own buffer is behind the primary one in all it
\* knows, and beyond the old samples; so, when it has caught up, it is in sync.
Phases ==
    /\ in_sync \in {"SYNC", "OUT_OF_SYNC"}
    /\ ~seen => in_sync = "OUT_OF_SYNC" /\ primary = Fresh /\ own = Fresh /\ end_of_tl = Never
    /\ seen /\ in_sync = "OUT_OF_SYNC" =>
         /\ end_of_tl \in 0..seq /\ end_of_tl <= own.next
         /\ own.next < primary.next
         /\ \A n \in Nat : Knows(own, n) => Knows(primary, n)

\* What has been given lies behind the buffer the reader is given from.
Delivered ==
    /\ log \in Seq(Nat)
    /\ \A n \in Given : n \in 1..seq /\ n < AckSource.next

\* Neither buffer has given up what is due.
StillAwaited == Due(seq) =>
    /\ AckSource.next <= seq
    /\ seq \notin own.gone /\ seq \notin primary.gone

\* The packets there can be.
Packet(m) ==
    \/ m.kind = "DATA" /\ m.seq \in 1..seq
    \/ /\ m.kind = "HEARTBEAT" /\ m.lastSN \in 0..seq
       /\ m.firstSN \in {m.lastSN, m.lastSN + 1} /\ m.firstSN > 0 /\ m.final \in BOOLEAN
    \/ m.kind = "ACKNACK" /\ m.base \in 1..seq+1 /\ m.end \in 1..seq+1 /\ m.bits \subseteq 1..seq
    \/ m.kind = "PREEMPTIVE"
    \/ m.kind = "GAP" /\ m.start \in 1..seq /\ m.end \in 1..seq+1

\* No packet denies or acknowledges what is due.
Honest(m) == Due(seq) =>
    /\ m.kind = "HEARTBEAT" => m.firstSN <= seq
    /\ m.kind = "GAP" => seq \notin m.start..m.end-1
    /\ m.kind = "ACKNACK" => m.base <= seq

UnderWay == \A m \in net : Packet(m) /\ Honest(m)

IInv == /\ Numbers /\ Cached /\ Unacknowledged
        /\ Buffers /\ Phases /\ Delivered /\ StillAwaited /\ UnderWay

--------------------------------------------------------------------------------
(* Reorder buffers.                                                          *)

Records == [next : Nat, held : SUBSET Nat, gone : SUBSET Nat]

\* What becomes of buffer r when the sample numbers D come and those of G will
\* not come any more: A.r is the buffer then, A.out what leaves it.
Moved(r, A, D, G, top) ==
    /\ Buffer(A.r, top) /\ r.next <= A.r.next
    /\ \A n \in A.out : n \in 1..top /\ r.next <= n /\ n < A.r.next
    /\ \A n \in r.next..A.r.next-1 : n \in A.out \cup r.gone \cup G
    /\ A.r.gone \subseteq r.gone \cup G
    /\ \A n \in Nat : Knows(A.r, n) <=> Knows(r, n) \/ n \in D \cup G
    /\ A.r.next # r.next => r.next \in D \cup G

\* A buffer that may have what it waits for moves to the next number it does not
\* know (reorder_try_append_and_discard).
LEMMA AdvanceMoves ==
    ASSUME NEW top \in 0..MaxSeq, NEW r \in Records, r.next \in 1..top+1,
           r.held \subseteq 1..top, r.gone \subseteq 1..top, r.held \cap r.gone = {},
           \A n \in r.held \cup r.gone : n >= r.next
    PROVE  LET A == Advance(r)
           IN  /\ Buffer(A.r, top) /\ r.next <= A.r.next
               /\ A.out = {n \in r.held : n < A.r.next}
               /\ \A n \in r.next..A.r.next-1 : n \in r.held \cup r.gone
               /\ A.r.gone \subseteq r.gone
               /\ \A n \in Nat : Knows(A.r, n) <=> Knows(r, n)
               /\ A.r.next # r.next => r.next \in r.held \cup r.gone
<1> DEFINE known == r.held \cup r.gone
           S     == {n \in r.next..Never : n \notin known}
           m     == Min(S)
           q     == [next |-> m, held |-> {n \in r.held : n >= m}, gone |-> {n \in r.gone : n >= m}]
           out   == {n \in r.held : n < m}
<1>1. MaxSeq \in Nat /\ top \in Nat /\ top + 1 <= Never /\ Never \in Nat /\ r.next \in Nat
    BY LinkAssumption DEF Never
<1>2. top + 1 \in S /\ S \in SUBSET Nat
    BY <1>1
<1>3. m \in S /\ \A n \in S : m <= n
    BY <1>2, MinFacts
<1>4. m \in Nat /\ r.next <= m /\ m <= top + 1 /\ m \notin known
  <2> HIDE DEF m
  <2>1. m \in r.next..Never /\ m \notin known
      BY <1>3
  <2>2. m <= top + 1
      BY <1>2, <1>3
  <2> QED  BY <1>1, <2>1, <2>2
<1>5. \A n \in r.next..m-1 : n \in known
  <2> SUFFICES ASSUME NEW n \in r.next..m-1, n \notin known PROVE FALSE
      OBVIOUS
  <2> HIDE DEF m, known
  <2>1. n \in r.next..Never /\ n < m /\ n \in Nat
      BY <1>1, <1>4
  <2>2. n \in S
      BY <2>1
  <2> HIDE DEF S
  <2>3. m <= n
      BY <1>3, <2>2
  <2> QED  BY <1>4, <2>1, <2>3
<1>6. Advance(r) = [r |-> q, out |-> out]
    BY DEF Advance
<1>7. Advance(r).r = q /\ Advance(r).out = out
    BY <1>6
<1>8. q.next = m /\ q.held = {n \in r.held : n >= m} /\ q.gone = {n \in r.gone : n >= m}
    OBVIOUS
<1>9. r.held \subseteq Nat /\ r.gone \subseteq Nat /\ \A n \in known : n \in Nat /\ n >= r.next
    BY DEF Records
<1>10. q \in Records
    BY <1>4, <1>9 DEF Records
<1> HIDE DEF m, q, S
<1>11. Buffer(q, top)
  <2>1. q.next \in 1..top+1
      BY <1>1, <1>4, <1>8
  <2>2. \A n \in q.held \cup q.gone : n > q.next
    <3> SUFFICES ASSUME NEW n \in q.held \cup q.gone PROVE n > q.next
        OBVIOUS
    <3>1. n \in known /\ n >= m /\ n \in Nat /\ n # m
        BY <1>4, <1>8, <1>9
    <3> QED  BY <1>4, <1>8, <3>1
  <2> QED  BY <1>8, <1>10, <2>1, <2>2 DEF Buffer, Records
<1>12. ASSUME NEW n \in Nat PROVE Knows(q, n) <=> Knows(r, n)
    BY <1>1, <1>4, <1>5, <1>8, <1>9 DEF Knows
<1>13. m # r.next => r.next \in known
    BY <1>1, <1>4, <1>5
<1> QED  BY <1>4, <1>5, <1>7, <1>8, <1>11, <1>12, <1>13

\* nn_reorder_rsample.
LEMMA SampleMoves ==
    ASSUME NEW top \in 0..MaxSeq, NEW r, Buffer(r, top), NEW s \in 1..top
    PROVE  LET A == ReorderSample(r, s)
           IN  /\ Moved(r, A, {s}, {}, top)
               /\ A.out = {} => A.r.next = r.next
               /\ A.out # {} => s = r.next
<1> DEFINE A == ReorderSample(r, s)
<1>1. /\ r \in Records /\ r.next \in Nat /\ s \in Nat /\ top \in Nat
      /\ r.next \in 1..top+1 /\ r.held \subseteq 1..top /\ r.gone \subseteq 1..top
      /\ r.held \cap r.gone = {} /\ \A n \in r.held \cup r.gone : n > r.next
    BY LinkAssumption DEF Buffer, Records
<1>2. CASE s < r.next \/ s \in r.held \cup r.gone
  <2>1. A = [r |-> r, out |-> {}]
      BY <1>2 DEF ReorderSample
  <2>2. A.r = r /\ A.out = {}
      BY <2>1
  <2>3. Knows(r, s)
      BY <1>2 DEF Knows
  <2>4. r.next..r.next-1 = {}
      BY <1>1
  <2> QED  BY <1>1, <2>2, <2>3, <2>4 DEF Moved
<1>3. CASE ~(s < r.next \/ s \in r.held \cup r.gone)
  <2> DEFINE q == [r EXCEPT !.held = @ \cup {s}]
  <2>1. A = Advance(q)
      BY <1>3 DEF ReorderSample
  <2>2. /\ q \in Records /\ q.next = r.next /\ q.held = r.held \cup {s} /\ q.gone = r.gone
    <3>1. \A x \in Records : \A t \in Nat :
            LET y == [x EXCEPT !.held = @ \cup {t}]
            IN  /\ y \in Records /\ y.next = x.next /\ y.held = x.held \cup {t}
                /\ y.gone = x.gone
        BY DEF Records
    <3> QED  BY <1>1, <3>1
  <2> HIDE DEF q
  <2>3. /\ q.next \in 1..top+1 /\ q.held \subseteq 1..top /\ q.gone \subseteq 1..top
        /\ q.held \cap q.gone = {}
        /\ \A n \in q.held \cup q.gone : n >= q.next
      BY <1>1, <1>3, <2>2
  <2>4. /\ Buffer(A.r, top) /\ q.next <= A.r.next
        /\ A.out = {n \in q.held : n < A.r.next}
        /\ \A n \in q.next..A.r.next-1 : n \in q.held \cup q.gone
        /\ A.r.gone \subseteq q.gone
        /\ \A n \in Nat : Knows(A.r, n) <=> Knows(q, n)
        /\ A.r.next # q.next => q.next \in q.held \cup q.gone
      BY <2>1, <2>2, <2>3, AdvanceMoves
  <2> HIDE DEF A
  <2>5. A.r.next \in Nat
      BY <2>4 DEF Buffer
  <2>6. A.r.next # r.next => r.next = s
      BY <1>1, <2>2, <2>4
  <2>7. \A n \in A.out : n \in 1..top /\ r.next <= n /\ n < A.r.next
      BY <2>2, <2>3, <2>4
  <2>8. \A n \in r.next..A.r.next-1 : n \in A.out \cup r.gone
      BY <1>1, <2>2, <2>4, <2>5
  <2>9. \A n \in Nat : Knows(A.r, n) <=> Knows(r, n) \/ n \in {s}
      BY <2>2, <2>4 DEF Knows
  <2>10. Moved(r, A, {s}, {}, top)
      BY <2>2, <2>4, <2>6, <2>7, <2>8, <2>9 DEF Moved
  <2>11. A.out # {} => A.r.next # r.next
      BY <1>1, <2>5, <2>7
  <2>12. A.r.next # r.next => A.out # {}
    <3>1. ASSUME A.r.next # r.next PROVE s \in A.out
        BY <1>1, <2>2, <2>4, <2>5, <2>6, <3>1
    <3> QED  BY <3>1
  <2> QED  BY <2>6, <2>10, <2>11, <2>12 DEF A
<1> QED  BY <1>2, <1>3

\* nn_reorder_gap.
LEMMA GapMoves ==
    ASSUME NEW top \in 0..MaxSeq, NEW r, Buffer(r, top),
           NEW a \in Nat \ {0}, NEW b \in 1..top+1
    PROVE  LET A == ReorderGap(r, a, b)
           IN  /\ Moved(r, A, {}, a..b-1, top)
               /\ a = 1 => b <= A.r.next
<1> DEFINE A == ReorderGap(r, a, b)
           new == {n \in a..b-1 : n >= r.next /\ n \notin r.held}
           q == [r EXCEPT !.gone = @ \cup new]
<1>1. /\ r \in Records /\ r.next \in Nat /\ a \in Nat /\ b \in Nat /\ top \in Nat
      /\ r.next \in 1..top+1 /\ r.held \subseteq 1..top /\ r.gone \subseteq 1..top
      /\ r.held \cap r.gone = {} /\ \A n \in r.held \cup r.gone : n > r.next
    BY LinkAssumption DEF Buffer, Records
<1>2. A = Advance(q)
    BY DEF ReorderGap
<1>3. new \subseteq 1..top /\ new \in SUBSET Nat
    BY <1>1
<1>4. \A n \in new : n >= r.next /\ n \notin r.held /\ n \in a..b-1
    OBVIOUS
<1>5. \A n \in a..b-1 : n \in new \/ n < r.next \/ n \in r.held
    BY <1>1
<1> HIDE DEF new
<1>6. q \in Records /\ q.next = r.next /\ q.held = r.held /\ q.gone = r.gone \cup new
  <2>1. \A x \in Records : \A T \in SUBSET Nat :
          LET y == [x EXCEPT !.gone = @ \cup T]
          IN  /\ y \in Records /\ y.next = x.next /\ y.held = x.held
              /\ y.gone = x.gone \cup T
      BY DEF Records
  <2> QED  BY <1>1, <1>3, <2>1
<1> HIDE DEF q
<1>7. /\ q.next \in 1..top+1 /\ q.held \subseteq 1..top /\ q.gone \subseteq 1..top
      /\ q.held \cap q.gone = {}
      /\ \A n \in q.held \cup q.gone : n >= q.next
  <2>1. q.held \subseteq 1..top /\ q.gone \subseteq 1..top /\ q.held \cap q.gone = {}
      BY <1>1, <1>3, <1>4, <1>6
  <2>2. \A n \in q.held \cup q.gone : n >= q.next
    <3> SUFFICES ASSUME NEW n \in q.held \cup q.gone PROVE n >= q.next
        OBVIOUS
    <3>1. CASE n \in r.held \cup r.gone
      <4>1. n \in 1..top /\ n > r.next
          BY <1>1, <3>1
      <4> QED  BY <1>1, <1>6, <4>1
    <3>2. CASE n \in new
        BY <1>4, <1>6, <3>2
    <3> QED  BY <1>6, <3>1, <3>2
  <2> QED  BY <1>1, <1>6, <2>1, <2>2
<1>8. /\ Buffer(A.r, top) /\ q.next <= A.r.next
      /\ A.out = {n \in q.held : n < A.r.next}
      /\ \A n \in q.next..A.r.next-1 : n \in q.held \cup q.gone
      /\ A.r.gone \subseteq q.gone
      /\ \A n \in Nat : Knows(A.r, n) <=> Knows(q, n)
      /\ A.r.next # q.next => q.next \in q.held \cup q.gone
    BY <1>2, <1>6, <1>7, AdvanceMoves
<1> HIDE DEF A
<1>9. A.r.next \in Nat
    BY <1>8 DEF Buffer
<1>10. A.r.next # r.next => r.next \in a..b-1
    BY <1>1, <1>4, <1>6, <1>8
<1>11. \A n \in A.out : n \in 1..top /\ r.next <= n /\ n < A.r.next
    BY <1>6, <1>7, <1>8
<1>12. \A n \in r.next..A.r.next-1 : n \in A.out \cup r.gone \cup (a..b-1)
    BY <1>1, <1>4, <1>6, <1>8, <1>9
<1>13. \A n \in Nat : Knows(A.r, n) <=> Knows(r, n) \/ n \in a..b-1
    BY <1>4, <1>5, <1>6, <1>8 DEF Knows
<1>14. A.r.gone \subseteq r.gone \cup (a..b-1)
    BY <1>4, <1>6, <1>8
<1>15. Moved(r, A, {}, a..b-1, top)
    BY <1>6, <1>8, <1>10, <1>11, <1>12, <1>13, <1>14 DEF Moved
<1>16. ASSUME a = 1 PROVE b <= A.r.next
  <2>1. ~Knows(A.r, A.r.next)
      BY <1>8, <1>9 DEF Buffer, Knows
  <2>2. A.r.next \notin 1..b-1
      BY <1>9, <1>13, <1>16, <2>1
  <2>3. A.r.next \in 1..top+1
      BY <1>8 DEF Buffer
  <2> QED  BY <1>1, <1>9, <2>2, <2>3
<1> QED  BY <1>15, <1>16 DEF A

\* A buffer grows with the numbers there are.
LEMMA BufferGrows ==
    ASSUME NEW top \in Nat, NEW r, Buffer(r, top)
    PROVE  Buffer(r, top + 1)
<1>1. \A n \in 1..top : n \in 1..top+1
    OBVIOUS
<1>2. r.next \in 1..top+1 => r.next \in 1..(top+1)+1
    OBVIOUS
<1> QED  BY <1>1, <1>2 DEF Buffer

--------------------------------------------------------------------------------
(* What is due, and what is sent.                                            *)

LEMMA SameGiven ==
    ASSUME log' = log
    PROVE  Given' = Given
BY DEF Given

LEMMA NumberFacts ==
    ASSUME Numbers
    PROVE  /\ seq \in Nat /\ seq_xmit \in Nat /\ seq \in 0..MaxSeq /\ MaxSeq \in Nat
           /\ seq_xmit <= seq /\ seq <= seq_xmit + 1 /\ seq + 1 <= Never /\ seq < Never
           /\ Unmatched = -1 /\ Never \in Nat
BY LinkAssumption DEF Numbers, Never, Unmatched

\* A history of one.
LEMMA CachedOne ==
    ASSUME Numbers, Cached, whc # {}
    PROVE  whc = {seq} /\ seq \in Nat \ {0}
<1>1. PICK s \in whc : TRUE
    OBVIOUS
<1>2. s = seq /\ s \in 1..seq /\ whc \subseteq {seq}
    BY <1>1 DEF Cached
<1>3. \A n \in Nat : n \in 1..n => n # 0
    OBVIOUS
<1>4. seq \in Nat
    BY NumberFacts
<1> QED  BY <1>2, <1>3, <1>4

\* The writer keeps what is due.
LEMMA DueIsCached ==
    ASSUME Numbers, Cached, Unacknowledged, Due(seq)
    PROVE  whc = {seq} /\ seq \in Nat \ {0}
<1>1. seq \in whc
    BY DEF Cached, Unacknowledged, Due
<1> QED  BY <1>1, CachedOne

LEMMA MinOfOne ==
    ASSUME NEW n \in Nat
    PROVE  Min({n}) = n
BY MinFacts

LEMMA MessageKinds ==
    /\ \A a, b, f : /\ Heartbeat(a, b, f).kind = "HEARTBEAT"
                    /\ Heartbeat(a, b, f).firstSN = a /\ Heartbeat(a, b, f).lastSN = b
                    /\ Heartbeat(a, b, f).final = f
    /\ \A a, b : Gap(a, b).kind = "GAP" /\ Gap(a, b).start = a /\ Gap(a, b).end = b
    /\ \A a, b, S : /\ AckNack(a, b, S).kind = "ACKNACK"
                    /\ AckNack(a, b, S).base = a /\ AckNack(a, b, S).end = b
                    /\ AckNack(a, b, S).bits = S
    /\ \A s : Data(s).kind = "DATA" /\ Data(s).seq = s
    /\ Preemptive.kind = "PREEMPTIVE"
BY DEF Heartbeat, Gap, AckNack, Data, Preemptive

\* add_Heartbeat never denies a sample that is due.
LEMMA HeartbeatHonest ==
    ASSUME Numbers, Cached, Unacknowledged, NEW xmit \in {seq_xmit, seq}, NEW fin \in BOOLEAN
    PROVE  Packet(HeartbeatAt(xmit, fin)) /\ Honest(HeartbeatAt(xmit, fin))
<1> DEFINE m == HeartbeatAt(xmit, fin)
<1>1. CASE whc = {}
  <2>1. m = Heartbeat(seq + 1, seq, fin)
      BY <1>1 DEF HeartbeatAt
  <2>2. Packet(m)
      BY <2>1, NumberFacts, MessageKinds DEF Packet
  <2>3. ~Due(seq)
      BY <1>1, DueIsCached
  <2> QED  BY <2>2, <2>3 DEF Honest
<1>2. CASE whc # {}
  <2>1. whc = {seq} /\ seq \in Nat \ {0}
      BY <1>2, CachedOne
  <2>2. Min(whc) = seq
      BY <2>1, MinOfOne
  <2>3. m = Heartbeat(seq, IF xmit >= seq THEN xmit ELSE seq - 1, fin)
      BY <1>2, <2>2 DEF HeartbeatAt
  <2>4. PICK last \in {seq - 1, seq} : m = Heartbeat(seq, last, fin)
      BY <2>1, <2>3, NumberFacts
  <2>5. m.kind = "HEARTBEAT" /\ m.firstSN = seq /\ m.lastSN = last /\ m.final = fin
      BY <2>4, MessageKinds
  <2>6. last \in 0..seq /\ seq \in {last, last + 1} /\ seq > 0
      BY <2>1
  <2>7. Packet(m)
      BY <2>5, <2>6 DEF Packet
  <2>8. Honest(m)
      BY <2>1, <2>5 DEF Honest
  <2> QED  BY <2>7, <2>8
<1> QED  BY <1>1, <1>2

\* handle_AckNack's answer: what is due is sent again, if asked for, and is in no
\* gap, however far the last gap grows.
LEMMA ResendHonest ==
    ASSUME Numbers, Cached, Unacknowledged, NEW m, Packet(m), m.kind = "ACKNACK",
           NEW ack, Due(seq) => ack < seq
    PROVE  \A x \in Resend(m, ack) : Packet(x) /\ Honest(x)
<1> DEFINE request == {s \in m.bits : s <= seq_xmit}
           again   == {s \in request \cap whc : m.base <= ack => s > ack}
           S       == request \ again
<1>1. m.bits \subseteq 1..seq /\ m.end \in 1..seq+1
    BY DEF Packet
<1>2. again \subseteq whc /\ S \subseteq 1..seq /\ \A s \in S : s <= seq_xmit
    BY <1>1
<1>3. Due(seq) => seq \notin S
  <2> SUFFICES ASSUME Due(seq), seq \in request PROVE seq \in again
      OBVIOUS
  <2>1. seq \in whc /\ seq > ack
      BY DueIsCached, NumberFacts
  <2> QED  BY <2>1
<1>4. Resend(m, ack) = {Data(s) : s \in again} \cup (IF S = {} THEN {} ELSE GapsOf(S, m.end))
    BY DEF Resend
<1> HIDE DEF request, again, S
<1>5. ASSUME NEW s \in again PROVE Packet(Data(s)) /\ Honest(Data(s))
  <2>1. s \in 1..seq
      BY <1>2 DEF Cached
  <2> QED  BY <2>1, MessageKinds DEF Packet, Honest
<1>6. ASSUME NEW x \in GapsOf(S, m.end) PROVE Packet(x) /\ Honest(x)
  <2>1. PICK a \in {n \in S : n - 1 \notin S} :
          x = LET b == Min({n \in a..Never : n \notin S})
              IN  Gap(a, IF a = Min(S) /\ b = m.end THEN GrowGap(b) ELSE b)
      BY <1>6 DEF GapsOf
  <2> DEFINE T == {n \in a..Never : n \notin S}
             b == Min(T)
  <2>2. a \in S /\ a \in 1..seq /\ a \in Nat
      BY <1>2, <2>1
  <2>3. seq_xmit + 1 \in T /\ T \in SUBSET Nat
    <3>1. seq_xmit + 1 \notin S
        BY <1>2, NumberFacts
    <3>2. seq_xmit + 1 \in a..Never
      <4>1. a <= seq_xmit
          BY <1>2, <2>2
      <4> QED  BY <2>2, <4>1, NumberFacts
    <3> QED  BY <2>2, <3>1, <3>2, NumberFacts
  <2>4. b \in T /\ b <= seq_xmit + 1 /\ \A n \in T : b <= n
      BY <2>3, MinFacts
  <2>5. b \in Nat /\ a <= b /\ b <= Never /\ b \notin S
      BY <2>2, <2>3, <2>4, NumberFacts
  <2> HIDE DEF b, T
  <2>6. \A n \in a..b-1 : n \in S
    <3> SUFFICES ASSUME NEW n \in a..b-1, n \notin S PROVE FALSE
        OBVIOUS
    <3>1. n \in T
      <4>1. n \in Nat /\ n \in a..Never
          BY <2>2, <2>5, NumberFacts
      <4> QED  BY <4>1 DEF T
    <3> QED  BY <2>2, <2>4, <2>5, <3>1
  <2>7. PICK e \in {b, GrowGap(b)} : x = Gap(a, e)
      BY <2>1 DEF b, T
  <2>8. Due(seq) => seq >= b
    <3> SUFFICES ASSUME Due(seq), seq < b PROVE FALSE
        BY <2>5, NumberFacts
    <3>1. seq \in a..b-1
        BY <2>2, <2>5, NumberFacts
    <3> QED  BY <1>3, <2>6, <3>1
  <2>9. /\ GrowGap(b) \in 1..seq+1
        /\ Due(seq) => GrowGap(b) <= seq
    <3> DEFINE later == {s \in whc : s >= b}
    <3>1. CASE later = {}
      <4>1. GrowGap(b) = seq_xmit + 1
          BY <3>1 DEF GrowGap
      <4>2. ~Due(seq)
          BY <2>8, <3>1, DueIsCached
      <4> QED  BY <4>1, <4>2, NumberFacts
    <3>2. CASE later # {}
      <4>1. later = {seq} /\ seq \in Nat \ {0} /\ seq >= b
        <5>1. whc = {seq} /\ seq \in Nat \ {0}
            BY <3>2, CachedOne
        <5> QED  BY <3>2, <5>1
      <4>2. GrowGap(b) = IF seq > seq_xmit THEN seq_xmit ELSE seq
          BY <4>1, MinOfOne DEF GrowGap
      <4>3. seq_xmit >= 1
          BY <1>2, <2>2, NumberFacts
      <4> QED  BY <4>1, <4>2, <4>3, NumberFacts
    <3> QED  BY <3>1, <3>2
  <2>10. e \in 1..seq+1 /\ (Due(seq) => e <= seq)
    <3>1. b \in 1..seq+1
        BY <2>2, <2>4, <2>5, NumberFacts
    <3> QED  BY <2>7, <2>8, <2>9, <3>1, NumberFacts
  <2>11. x.kind = "GAP" /\ x.start = a /\ x.end = e
      BY <2>7, MessageKinds
  <2>12. Due(seq) => seq \notin a..e-1
      BY <2>2, <2>10, NumberFacts
  <2> QED  BY <2>2, <2>10, <2>11, <2>12 DEF Packet, Honest
<1> QED  BY <1>4, <1>5, <1>6

\* What is under way stays true, and what is sent is.
LEMMA NetGrows ==
    ASSUME UnderWay, seq' = seq, Due(seq)' => Due(seq), NEW msgs,
           \A m \in msgs : Packet(m) /\ Honest(m), net' \subseteq net \cup msgs
    PROVE  UnderWay'
<1>1. \A m : Packet(m) => Packet(m)'
    BY DEF Packet
<1>2. \A m : Honest(m) => Honest(m)'
    BY DEF Honest
<1> QED  BY <1>1, <1>2 DEF UnderWay

LEMMA SendFacts ==
    ASSUME NEW msgs, Send(msgs)
    PROVE  net' \subseteq net \cup msgs
BY DEF Send

--------------------------------------------------------------------------------
(* What a message makes of the reader's end.                                 *)

Reader == Buffers /\ Phases /\ Delivered /\ StillAwaited

\* deliver_user_data hands over what it is given, in order.
LEMMA DeliverFacts ==
    ASSUME log \in Seq(Nat), seq \in Nat, NEW out, \A n \in out : n \in 1..seq, Deliver(out)
    PROVE  log' \in Seq(Nat) /\ Given' = Given \cup out
<1>1. out \in SUBSET (1..seq) /\ out \in SUBSET Nat
    OBVIOUS
<1>2. IsFiniteSet(out)
  <2>1. IsFiniteSet(1..seq)
      BY FS_Interval
  <2> QED  BY <1>1, <2>1, FS_Subset
<1> DEFINE q == Sorted(out)
<1>3. q \in Seq(out) /\ {q[i] : i \in 1..Len(q)} = out
    BY <1>1, <1>2, SortedFacts
<1>4. log' = log \o q
    BY DEF Deliver
<1> HIDE DEF q
<1>5. q \in Seq(Nat)
    BY <1>1, <1>3
<1>6. /\ log' \in Seq(Nat) /\ Len(log') = Len(log) + Len(q)
      /\ Len(log) \in Nat /\ Len(q) \in Nat
      /\ \A i \in 1..Len(log) : log'[i] = log[i]
      /\ \A i \in 1..Len(q) : log'[Len(log) + i] = q[i]
    BY <1>4, <1>5
<1>7. \A n \in Given' : n \in Given \cup out
  <2> SUFFICES ASSUME NEW i \in 1..Len(log') PROVE log'[i] \in Given \cup out
      BY DEF Given
  <2>1. CASE i <= Len(log)
      BY <1>6, <2>1 DEF Given
  <2>2. CASE i > Len(log)
    <3>1. i - Len(log) \in 1..Len(q) /\ Len(log) + (i - Len(log)) = i
        BY <1>6, <2>2
    <3> QED  BY <1>3, <1>6, <3>1
  <2> QED  BY <1>6, <2>1, <2>2
<1>8. \A n \in Given : n \in Given'
  <2> SUFFICES ASSUME NEW i \in 1..Len(log) PROVE log[i] \in Given'
      BY DEF Given
  <2>1. i \in 1..Len(log') /\ log'[i] = log[i]
      BY <1>6
  <2> QED  BY <2>1 DEF Given
<1>9. \A n \in out : n \in Given'
  <2> SUFFICES ASSUME NEW i \in 1..Len(q) PROVE q[i] \in Given'
      BY <1>3
  <2>1. Len(log) + i \in 1..Len(log') /\ log'[Len(log) + i] = q[i]
      BY <1>6
  <2> QED  BY <2>1 DEF Given
<1> QED  BY <1>6, <1>7, <1>8, <1>9

LEMMA FreshBuffer ==
    ASSUME NEW top \in Nat
    PROVE  /\ Buffer(Fresh, top) /\ Fresh.next = 1 /\ Fresh.held = {} /\ Fresh.gone = {}
<1>1. Fresh.next = 1 /\ Fresh.held = {} /\ Fresh.gone = {} /\ Fresh \in Records
    BY DEF Fresh, Records
<1>2. 1 \in 1..top+1
    OBVIOUS
<1> QED  BY <1>1, <1>2 DEF Buffer, Records

\* What a step is to an abstract link.
LinkStep == Link!Next \/ UNCHANGED <<seq, log>>

\* Samples after those given are another Give of the abstract link, in the same
\* order.
LEMMA GiveLater ==
    ASSUME seq \in Nat, NEW out, \A n \in out : n \in 1..seq, \A n \in out : \A g \in Given : g < n,
           seq' = seq, log \in Seq(Nat), Deliver(out)
    PROVE  LinkStep
<1>1. log' = log \o Sorted(out)
    BY DEF Deliver
<1>2. CASE out = {}
  <2>1. log \o << >> = log
      OBVIOUS
  <2> QED  BY <1>1, <1>2, <2>1, SortedEmpty DEF LinkStep
<1>3. CASE out # {}
  <2> DEFINE n == Cardinality(out)
             later == {s \in 1..seq : \A i \in 1..Len(log) : log[i] < s}
  <2>1. IsFiniteSet(1..seq) /\ Cardinality(1..seq) = seq
      BY FS_Interval
  <2>2. out \in SUBSET (1..seq) /\ out \in SUBSET Nat
      OBVIOUS
  <2>3. IsFiniteSet(out) /\ n \in Nat /\ n <= seq
      BY <2>1, <2>2, FS_Subset, FS_CardinalityType
  <2>4. n # 0
      BY <1>3, <2>3, FS_EmptySet
  <2>5. n \in 1..seq
      BY <2>3, <2>4
  <2>6. /\ Sorted(out) \in Seq(out) /\ Len(Sorted(out)) = n
        /\ \A i, j \in 1..n : i < j => Sorted(out)[i] < Sorted(out)[j]
      BY <2>2, <2>3, SortedFacts
  <2> HIDE DEF n
  <2>7. out \subseteq later
      BY DEF Given
  <2>8. Sorted(out) \in [1..n -> later]
    <3> DEFINE q == Sorted(out)
    <3>1. q \in Seq(out) /\ Len(q) = n
        BY <2>6
    <3> HIDE DEF q, later
    <3>2. q \in [1..n -> out]
        BY <3>1
    <3>3. q \in [1..n -> later]
        BY <2>7, <3>2
    <3> QED  BY <3>3 DEF q
  <2>9. Link!Give
      BY <1>1, <2>5, <2>6, <2>8 DEF Link!Give
  <2> QED  BY <2>9 DEF LinkStep, Link!Next
<1> QED  BY <1>2, <1>3

\* What is given follows what has been given, and passes nothing that is due
\* and not said to be gone.
LEMMA GivenMoves ==
    ASSUME Numbers, NEW r, Buffer(r, seq), NEW A, NEW D, NEW G, Moved(r, A, D, G, seq),
           log \in Seq(Nat), \A n \in Given : n \in 1..seq /\ n < r.next,
           Due(seq) => r.next <= seq /\ seq \notin r.gone /\ seq \notin G,
           Deliver(A.out), UNCHANGED <<seq, first, rn_seq>>
    PROVE  /\ log' \in Seq(Nat) /\ \A n \in Given' : n \in 1..seq /\ n < A.r.next
           /\ Due(seq)' => Due(seq)
           /\ Due(seq)' => A.r.next <= seq
           /\ Due(seq)' => seq \notin A.r.gone
           /\ LinkStep
<1>1. seq \in Nat /\ r.next \in Nat /\ A.r.next \in Nat /\ r.next <= A.r.next
    BY NumberFacts DEF Moved, Buffer
<1>2. \A n \in A.out : n \in 1..seq /\ r.next <= n /\ n < A.r.next
    BY DEF Moved
<1>3. log' \in Seq(Nat) /\ Given' = Given \cup A.out
    BY <1>1, <1>2, DeliverFacts
<1>4. \A n \in Given' : n \in 1..seq /\ n < A.r.next
  <2> SUFFICES ASSUME NEW n \in Given, n \notin A.out PROVE n \in 1..seq /\ n < A.r.next
      BY <1>2, <1>3
  <2>1. n \in 1..seq /\ n < r.next
      OBVIOUS
  <2> QED  BY <1>1, <2>1
<1>5. Due(seq)' => Due(seq) /\ seq \notin A.out
    BY <1>3 DEF Due
<1>6. ASSUME Due(seq)' PROVE A.r.next <= seq
  <2> SUFFICES ASSUME A.r.next > seq PROVE FALSE
      BY <1>1
  <2>1. seq \in r.next..A.r.next-1
      BY <1>1, <1>5, <1>6
  <2>2. seq \in A.out \cup r.gone \cup G
      BY <2>1 DEF Moved
  <2> QED  BY <1>5, <1>6, <2>2
<1>7. Due(seq)' => seq \notin A.r.gone
    BY <1>5 DEF Moved
<1>8. LinkStep
  <2>1. \A n \in A.out : \A g \in Given : g < n
    <3> SUFFICES ASSUME NEW n \in A.out, NEW g \in Given PROVE g < n
        OBVIOUS
    <3>1. n \in Nat /\ r.next <= n
        BY <1>2
    <3>2. g \in Nat /\ g < r.next
        OBVIOUS
    <3> QED  BY <1>1, <3>1, <3>2
  <2>2. \A n \in A.out : n \in 1..seq
      BY <1>2
  <2> QED  BY <1>1, <2>1, <2>2, GiveLater
<1> QED  BY <1>3, <1>4, <1>5, <1>6, <1>7, <1>8

\* A reader in sync is given what leaves the primary buffer.
LEMMA SyncMoves ==
    ASSUME Numbers, Reader, in_sync = "SYNC", UNCHANGED <<seq, first, rn_seq>>,
           NEW A, NEW D, NEW G, Moved(primary, A, D, G, seq), Due(seq) => seq \notin G,
           seen', in_sync' = "SYNC", primary' = A.r, own' \in {own, Fresh}, Deliver(A.out),
           last_seq' \in 0..seq, end_of_tl' \in 0..Never
    PROVE  Reader' /\ (Due(seq)' => Due(seq)) /\ LinkStep
<1>1. AckSource = primary /\ AckSource' = primary'
    BY DEF AckSource
<1>2. /\ log' \in Seq(Nat) /\ \A n \in Given' : n \in 1..seq /\ n < A.r.next
      /\ Due(seq)' => Due(seq)
      /\ Due(seq)' => A.r.next <= seq
      /\ Due(seq)' => seq \notin A.r.gone
      /\ LinkStep
    BY <1>1, GivenMoves DEF Reader, Buffers, Delivered, StillAwaited
<1>3. Buffer(own', seq)
    BY FreshBuffer, NumberFacts DEF Reader, Buffers
<1>4. Buffers'
    BY <1>3 DEF Buffers, Moved, Buffer
<1>5. Phases'
    BY DEF Phases
<1>6. Delivered'
    BY <1>1, <1>2 DEF Delivered
<1>7. Due(seq)' => seq \notin own'.gone
    BY <1>2, FreshBuffer, NumberFacts DEF Reader, StillAwaited
<1>8. StillAwaited'
    BY <1>1, <1>2, <1>7 DEF StillAwaited
<1> QED  BY <1>2, <1>4, <1>5, <1>6, <1>8 DEF Reader

\* A reader out of sync is given what leaves its own buffer, which knows no more
\* than the primary one.  When it has caught up it is in sync.
LEMMA OwnMoves ==
    ASSUME Numbers, Reader, in_sync = "OUT_OF_SYNC", UNCHANGED <<seq, first, rn_seq>>,
           NEW A, NEW D, NEW G, Moved(own, A, D, G, seq), Due(seq) => seq \notin G,
           NEW r, Buffer(r, seq), Due(seq) => seq \notin r.gone,
           \A n \in Nat : Knows(A.r, n) => Knows(r, n),
           seen', primary' = r, Deliver(A.out), last_seq' \in 0..seq,
           \/ /\ in_sync' = "OUT_OF_SYNC" /\ own' = A.r /\ A.r.next # r.next
              /\ end_of_tl' \in 0..seq /\ end_of_tl' <= A.r.next
           \/ in_sync' = "SYNC" /\ own' = Fresh /\ end_of_tl' = Never /\ A.r.next = r.next
    PROVE  Reader' /\ (Due(seq)' => Due(seq)) /\ LinkStep
<1>1. AckSource = own /\ AckSource'.next = A.r.next
    BY DEF AckSource
<1>2. /\ log' \in Seq(Nat) /\ \A n \in Given' : n \in 1..seq /\ n < A.r.next
      /\ Due(seq)' => Due(seq)
      /\ Due(seq)' => A.r.next <= seq
      /\ Due(seq)' => seq \notin A.r.gone
      /\ LinkStep
    BY <1>1, GivenMoves DEF Reader, Buffers, Delivered, StillAwaited
<1>3. Buffer(own', seq) /\ (Due(seq)' => seq \notin own'.gone)
    BY <1>2, FreshBuffer, NumberFacts DEF Moved
<1>4. end_of_tl' \in 0..Never
    BY NumberFacts
<1>5. Buffers'
    BY <1>3, <1>4 DEF Buffers, Buffer
<1>6. A.r.next <= r.next
  <2>1. r.next \in Nat /\ A.r.next \in Nat /\ ~Knows(r, r.next)
      BY DEF Buffer, Moved, Knows
  <2>2. ~(r.next < A.r.next)
      BY <2>1 DEF Knows
  <2> QED  BY <2>1, <2>2
<1>7. Phases'
  <2>1. r.next \in Nat /\ A.r.next \in Nat
      BY DEF Buffer, Moved
  <2> QED  BY <1>6, <2>1 DEF Phases
<1>8. Delivered'
    BY <1>1, <1>2 DEF Delivered
<1>9. StillAwaited'
    BY <1>1, <1>2, <1>3 DEF StillAwaited
<1> QED  BY <1>2, <1>5, <1>7, <1>8, <1>9 DEF Reader

\* The pieces of FromBuffers.
LEMMA FromBuffersFacts ==
    ASSUME NEW p, NEW o, NEW tl, NEW last, FromBuffers(p, o, tl, last)
    PROVE  /\ primary' = p.r
           /\ in_sync = "SYNC" => in_sync' = "SYNC" /\ own' = Fresh /\ end_of_tl' = Never
           /\ in_sync = "OUT_OF_SYNC" /\ o.r.next # p.r.next =>
                in_sync' = "OUT_OF_SYNC" /\ own' = o.r /\ end_of_tl' = tl
           /\ in_sync = "OUT_OF_SYNC" /\ o.r.next = p.r.next /\ last >= tl =>
                in_sync' = "SYNC" /\ own' = Fresh /\ end_of_tl' = Never
BY DEF FromBuffers, SyncAfter

LEMMA ToSyncFacts ==
    ASSUME NEW p
    PROVE  /\ in_sync = "SYNC" => ToSync(p) \cup {} = p.out
           /\ in_sync = "OUT_OF_SYNC" => \A S : ToSync(p) \cup S = S
BY DEF ToSync

LEMMA LastSeqFacts ==
    ASSUME Numbers, last_seq \in 0..seq, NEW n \in 0..seq
    PROVE  Max({last_seq, n}) \in 0..seq
<1>1. last_seq \in Int /\ n \in Int
    BY NumberFacts
<1> QED  BY <1>1, MaxOfTwo

\* Out of sync, the reader's own buffer knows no more than the primary one.
LEMMA OwnKnowsLess ==
    ASSUME Reader, in_sync = "OUT_OF_SYNC"
    PROVE  \A n \in Nat : Knows(own, n) => Knows(primary, n)
BY DEF Reader, Phases

LEMMA HeartbeatStep ==
    ASSUME Numbers, Reader, NEW m, Packet(m), Honest(m), m.kind = "HEARTBEAT",
           HandleHeartbeat(m)
    PROVE  Reader' /\ (Due(seq)' => Due(seq)) /\ LinkStep
<1> DEFINE b == IF seen THEN m.firstSN ELSE m.lastSN + 1
           p == ReorderGap(primary, 1, b)
           o == IF in_sync = "OUT_OF_SYNC" THEN ReorderGap(own, 1, m.firstSN) ELSE Unmoved
           tl == IF end_of_tl = Never THEN m.lastSN ELSE end_of_tl
           last == (IF in_sync = "OUT_OF_SYNC" THEN o.r.next ELSE p.r.next) - 1
<1>1. /\ m.lastSN \in 0..seq /\ m.firstSN \in {m.lastSN, m.lastSN + 1} /\ m.firstSN > 0
      /\ Due(seq) => m.firstSN <= seq
    BY DEF Packet, Honest
<1>2. seq \in Nat /\ m.firstSN \in 1..seq+1 /\ b \in 1..seq+1 /\ m.firstSN <= b /\ m.firstSN \in Nat
    BY <1>1, NumberFacts
<1>3. /\ seen' /\ FromBuffers(p, o, tl, last) /\ Deliver(ToSync(p) \cup o.out)
      /\ last_seq' = Max({last_seq, m.lastSN})
      /\ UNCHANGED <<seq, first, rn_seq>>
    BY DEF HandleHeartbeat, writerVars
<1>4. last_seq' \in 0..seq
    BY <1>1, <1>3, LastSeqFacts DEF Reader, Buffers
<1>5. Moved(primary, p, {}, 1..b-1, seq) /\ b <= p.r.next
    BY <1>2, GapMoves, NumberFacts DEF Reader, Buffers
<1>6. Due(seq) => seq \notin 1..m.firstSN-1
    BY <1>1, <1>2
<1>7. CASE in_sync = "SYNC"
  <2>1. b = m.firstSN
      BY <1>7 DEF Reader, Phases
  <2>2. o.out = {}
      BY <1>7 DEF Unmoved
  <2>3. Deliver(p.out)
    <3>1. ToSync(p) \cup o.out = p.out
        BY <1>7, <2>2, ToSyncFacts
    <3> QED  BY <1>3, <3>1
  <2>4. primary' = p.r /\ in_sync' = "SYNC" /\ own' = Fresh /\ end_of_tl' = Never
      BY <1>3, <1>7, FromBuffersFacts
  <2>5. Never \in 0..Never
      BY NumberFacts
  <2> HIDE DEF p, o, tl, last, b
  <2> QED  BY <1>3, <1>4, <1>5, <1>6, <1>7, <2>1, <2>3, <2>4, <2>5, SyncMoves
<1>8. CASE in_sync = "OUT_OF_SYNC"
  <2>1. o = ReorderGap(own, 1, m.firstSN)
      BY <1>8
  <2>2. Moved(own, o, {}, 1..m.firstSN-1, seq) /\ m.firstSN <= o.r.next
    <3>1. LET A == ReorderGap(own, 1, m.firstSN)
          IN  Moved(own, A, {}, 1..m.firstSN-1, seq) /\ m.firstSN <= A.r.next
        BY <1>2, GapMoves, NumberFacts DEF Reader, Buffers
    <3> QED  BY <2>1, <3>1
  <2>3. Deliver(o.out)
    <3>1. ToSync(p) \cup o.out = o.out
        BY <1>8, ToSyncFacts
    <3> QED  BY <1>3, <3>1
  <2>4. ASSUME seen
        PROVE  tl \in 0..seq /\ tl <= o.r.next
               /\ (o.r.next = p.r.next => o.r.next - 1 >= tl)
    <3>1. /\ end_of_tl \in 0..seq /\ end_of_tl <= own.next /\ own.next < primary.next
          /\ end_of_tl # Never /\ tl = end_of_tl
        BY <1>8, <2>4, NumberFacts DEF Reader, Phases
    <3>2. /\ own.next \in Nat /\ o.r.next \in Nat /\ own.next <= o.r.next
          /\ primary.next \in Nat /\ p.r.next \in Nat /\ primary.next <= p.r.next
        BY <1>5, <2>2 DEF Moved, Reader, Buffers, Buffer
    <3>3. tl \in 0..seq /\ tl <= o.r.next
        BY <1>2, <3>1, <3>2
    <3>4. o.r.next = p.r.next => o.r.next - 1 >= tl
        BY <1>2, <3>1, <3>2
    <3> QED  BY <3>3, <3>4
  <2>5. ASSUME ~seen
        PROVE  tl \in 0..seq /\ tl <= o.r.next
               /\ (o.r.next = p.r.next => o.r.next - 1 >= tl)
    <3>1. b = m.lastSN + 1 /\ tl = m.lastSN
        BY <1>8, <2>5 DEF Reader, Phases
    <3> QED  BY <1>1, <1>2, <1>5, <2>2, <3>1 DEF Moved, Buffer
  <2>6. /\ tl \in 0..seq /\ tl <= o.r.next
        /\ o.r.next = p.r.next => o.r.next - 1 >= tl
      BY <2>4, <2>5
  <2>7. last = o.r.next - 1
      BY <1>8
  <2>8. p.r.gone \subseteq primary.gone \cup (1..b-1) /\ Buffer(p.r, seq)
      BY <1>5 DEF Moved
  <2>9. Due(seq) => seq \notin p.r.gone
    <3> SUFFICES ASSUME Due(seq), seq \in p.r.gone PROVE FALSE
        OBVIOUS
    <3>1. seq > p.r.next /\ p.r.next \in Nat
        BY <2>8 DEF Buffer
    <3>2. seq \notin 1..b-1
        BY <1>2, <1>5, <3>1
    <3> QED  BY <2>8, <3>2 DEF Reader, StillAwaited
  <2>10. 1..m.firstSN-1 \subseteq 1..b-1
      BY <1>2
  <2> HIDE DEF p, o, tl, last, b
  <2>11. \A n \in Nat : Knows(o.r, n) => Knows(p.r, n)
      BY <1>5, <1>8, <2>2, <2>10, OwnKnowsLess DEF Moved
  <2>12. \/ /\ in_sync' = "OUT_OF_SYNC" /\ own' = o.r /\ o.r.next # p.r.next
            /\ end_of_tl' \in 0..seq /\ end_of_tl' <= o.r.next
         \/ in_sync' = "SYNC" /\ own' = Fresh /\ end_of_tl' = Never /\ o.r.next = p.r.next
      BY <1>3, <1>8, <2>6, <2>7, FromBuffersFacts
  <2>13. primary' = p.r
      BY <1>3, FromBuffersFacts
  <2> QED  BY <1>3, <1>4, <1>6, <1>8, <2>2, <2>3, <2>8, <2>9, <2>11, <2>12, <2>13, OwnMoves
<1> QED  BY <1>7, <1>8 DEF Reader, Phases

LEMMA DataStep ==
    ASSUME Numbers, Reader, NEW s \in 1..seq, HandleData(s)
    PROVE  Reader' /\ (Due(seq)' => Due(seq)) /\ LinkStep
<1> DEFINE p == ReorderSample(primary, s)
           o == IF in_sync = "SYNC" THEN Unmoved ELSE ReorderSample(own, s)
<1>1. seq \in Nat /\ s \in 0..seq /\ seq \in 0..MaxSeq
    BY NumberFacts
<1>2. /\ seen /\ seen' /\ Deliver(ToSync(p) \cup o.out)
      /\ last_seq' = Max({last_seq, s})
      /\ UNCHANGED <<seq, first, rn_seq>>
    BY DEF HandleData, writerVars
<1>3. /\ o.out = {} => primary' = p.r /\ own' = o.r /\ UNCHANGED <<in_sync, end_of_tl>>
      /\ o.out # {} => FromBuffers(p, o, end_of_tl, s)
    BY DEF HandleData
<1>4. last_seq' \in 0..seq
    BY <1>1, <1>2, LastSeqFacts DEF Reader, Buffers
<1>5. Moved(primary, p, {s}, {}, seq)
    BY <1>1, SampleMoves DEF Reader, Buffers
<1>6. CASE in_sync = "SYNC"
  <2>1. o.out = {} /\ o.r = own
      BY <1>6 DEF Unmoved
  <2>2. Deliver(p.out)
    <3>1. ToSync(p) \cup o.out = p.out
        BY <1>6, <2>1, ToSyncFacts
    <3> QED  BY <1>2, <3>1
  <2>3. primary' = p.r /\ own' = own /\ in_sync' = "SYNC" /\ end_of_tl' = end_of_tl
      BY <1>3, <1>6, <2>1
  <2>4. end_of_tl' \in 0..Never
      BY <2>3 DEF Reader, Buffers
  <2> HIDE DEF p, o
  <2> QED  BY <1>2, <1>4, <1>5, <1>6, <2>2, <2>3, <2>4, SyncMoves
<1>7. CASE in_sync = "OUT_OF_SYNC"
  <2>1. /\ Moved(own, o, {s}, {}, seq)
        /\ o.out = {} => o.r.next = own.next
        /\ o.out # {} => s = own.next
    <3>1. LET A == ReorderSample(own, s)
          IN  /\ Moved(own, A, {s}, {}, seq)
              /\ A.out = {} => A.r.next = own.next
              /\ A.out # {} => s = own.next
        BY <1>1, SampleMoves DEF Reader, Buffers
    <3>2. o = ReorderSample(own, s)
        BY <1>7
    <3> QED  BY <3>1, <3>2
  <2>2. Deliver(o.out)
    <3>1. ToSync(p) \cup o.out = o.out
        BY <1>7, ToSyncFacts
    <3> QED  BY <1>2, <3>1
  <2> HIDE DEF p, o
  <2>3. Buffer(p.r, seq) /\ (Due(seq) => seq \notin p.r.gone)
      BY <1>5 DEF Moved, Reader, StillAwaited
  <2>4. \A n \in Nat : Knows(o.r, n) => Knows(p.r, n)
      BY <1>5, <1>7, <2>1, OwnKnowsLess DEF Moved
  <2>5. end_of_tl \in 0..seq /\ end_of_tl <= own.next /\ own.next < primary.next
      BY <1>2, <1>7 DEF Reader, Phases
  <2>6. /\ own.next \in Nat /\ o.r.next \in Nat /\ own.next <= o.r.next
        /\ primary.next \in Nat /\ p.r.next \in Nat /\ primary.next <= p.r.next
      BY <1>5, <2>1 DEF Moved, Reader, Buffers, Buffer
  <2>7. end_of_tl <= o.r.next
      BY <1>1, <2>5, <2>6
  <2>8. CASE o.out = {}
    <3>1. primary' = p.r /\ own' = o.r /\ in_sync' = "OUT_OF_SYNC" /\ end_of_tl' = end_of_tl
        BY <1>3, <1>7, <2>8
    <3>2. o.r.next # p.r.next
        BY <2>1, <2>5, <2>6, <2>8
    <3> QED  BY <1>2, <1>4, <1>7, <2>1, <2>2, <2>3, <2>4, <2>5, <2>7, <3>1, <3>2, OwnMoves
  <2>9. CASE o.out # {}
    <3>1. FromBuffers(p, o, end_of_tl, s) /\ s >= end_of_tl
        BY <1>3, <2>1, <2>5, <2>9
    <3>2. \/ /\ in_sync' = "OUT_OF_SYNC" /\ own' = o.r /\ o.r.next # p.r.next
             /\ end_of_tl' \in 0..seq /\ end_of_tl' <= o.r.next
          \/ in_sync' = "SYNC" /\ own' = Fresh /\ end_of_tl' = Never /\ o.r.next = p.r.next
        BY <1>7, <2>5, <2>7, <3>1, FromBuffersFacts
    <3>3. primary' = p.r
        BY <3>1, FromBuffersFacts
    <3> QED  BY <1>2, <1>4, <1>7, <2>1, <2>2, <2>3, <2>4, <3>2, <3>3, OwnMoves
  <2> QED  BY <2>8, <2>9
<1> QED  BY <1>6, <1>7 DEF Reader, Phases

\* An empty interval is only heard of.
LEMMA GapStep ==
    ASSUME Numbers, Reader, NEW a \in 1..seq, NEW b \in 1..seq+1, HandleGap(a, b),
           Due(seq) => seq \notin a..b-1
    PROVE  Reader' /\ (Due(seq)' => Due(seq)) /\ LinkStep
<1> DEFINE p == ReorderGap(primary, a, b)
           o == IF in_sync = "OUT_OF_SYNC" THEN ReorderGap(own, a, b) ELSE Unmoved
<1>1. seq \in Nat /\ b - 1 \in 0..seq /\ seq \in 0..MaxSeq /\ a \in Nat \ {0} /\ b \in Nat
    BY NumberFacts
<1>2. /\ seen /\ seen' /\ last_seq' = Max({last_seq, b - 1})
      /\ UNCHANGED <<seq, first, rn_seq>>
      /\ a < b => FromBuffers(p, o, end_of_tl, b - 1) /\ Deliver(ToSync(p) \cup o.out)
      /\ ~(a < b) => UNCHANGED <<primary, own, in_sync, end_of_tl, log>>
    BY DEF HandleGap, writerVars
<1>3. last_seq' \in 0..seq
    BY <1>1, <1>2, LastSeqFacts DEF Reader, Buffers
<1>4. Moved(primary, p, {}, a..b-1, seq)
    BY <1>1, GapMoves DEF Reader, Buffers
<1>5. CASE ~(a < b)
  <2>1. UNCHANGED <<seen, primary, own, in_sync, end_of_tl, log, seq, first, rn_seq>>
      BY <1>2, <1>5
  <2>2. Given' = Given /\ AckSource' = AckSource
      BY <2>1, SameGiven DEF AckSource
  <2>3. Due(seq)' <=> Due(seq)
      BY <2>1, <2>2 DEF Due
  <2>4. Buffers'
      BY <1>3, <2>1 DEF Reader, Buffers, Buffer
  <2>5. Phases'
      BY <2>1 DEF Reader, Phases, Knows
  <2>6. Delivered' /\ StillAwaited'
      BY <2>1, <2>2, <2>3 DEF Reader, Delivered, StillAwaited
  <2> QED  BY <2>1, <2>3, <2>4, <2>5, <2>6 DEF Reader, LinkStep
<1>6. CASE a < b /\ in_sync = "SYNC"
  <2>1. o.out = {}
      BY <1>6 DEF Unmoved
  <2>2. Deliver(p.out)
    <3>1. ToSync(p) \cup o.out = p.out
        BY <1>6, <2>1, ToSyncFacts
    <3> QED  BY <1>2, <1>6, <3>1
  <2>3. primary' = p.r /\ in_sync' = "SYNC" /\ own' = Fresh /\ end_of_tl' = Never
      BY <1>2, <1>6, FromBuffersFacts
  <2>4. Never \in 0..Never
      BY NumberFacts
  <2> HIDE DEF p, o
  <2> QED  BY <1>2, <1>3, <1>4, <1>6, <2>2, <2>3, <2>4, SyncMoves
<1>7. CASE a < b /\ in_sync = "OUT_OF_SYNC"
  <2>1. Moved(own, o, {}, a..b-1, seq)
    <3>1. Moved(own, ReorderGap(own, a, b), {}, a..b-1, seq)
        BY <1>1, GapMoves DEF Reader, Buffers
    <3> QED  BY <1>7, <3>1
  <2>2. Deliver(o.out)
    <3>1. ToSync(p) \cup o.out = o.out
        BY <1>7, ToSyncFacts
    <3> QED  BY <1>2, <1>7, <3>1
  <2>3. FromBuffers(p, o, end_of_tl, b - 1)
      BY <1>2, <1>7
  <2> HIDE DEF p, o
  <2>4. Buffer(p.r, seq) /\ (Due(seq) => seq \notin p.r.gone)
      BY <1>4 DEF Moved, Reader, StillAwaited
  <2>5. \A n \in Nat : Knows(o.r, n) => Knows(p.r, n)
      BY <1>4, <1>7, <2>1, OwnKnowsLess DEF Moved
  <2>6. end_of_tl \in 0..seq /\ end_of_tl <= own.next /\ own.next < primary.next
      BY <1>2, <1>7 DEF Reader, Phases
  <2>7. /\ own.next \in Nat /\ o.r.next \in Nat /\ own.next <= o.r.next
        /\ primary.next \in Nat /\ p.r.next \in Nat /\ primary.next <= p.r.next
      BY <1>4, <2>1 DEF Moved, Reader, Buffers, Buffer
  <2>8. end_of_tl <= o.r.next
      BY <1>1, <2>6, <2>7
  <2>9. o.r.next = p.r.next => b - 1 >= end_of_tl
    <3> SUFFICES ASSUME o.r.next = p.r.next PROVE b - 1 >= end_of_tl
        OBVIOUS
    <3>1. o.r.next # own.next
        BY <2>6, <2>7
    <3>2. own.next \in a..b-1
        BY <2>1, <3>1 DEF Moved
    <3> QED  BY <1>1, <2>6, <2>7, <3>2
  <2>10. \/ /\ in_sync' = "OUT_OF_SYNC" /\ own' = o.r /\ o.r.next # p.r.next
            /\ end_of_tl' \in 0..seq /\ end_of_tl' <= o.r.next
         \/ in_sync' = "SYNC" /\ own' = Fresh /\ end_of_tl' = Never /\ o.r.next = p.r.next
      BY <1>7, <2>3, <2>6, <2>8, <2>9, FromBuffersFacts
  <2>11. primary' = p.r
      BY <2>3, FromBuffersFacts
  <2> QED  BY <1>2, <1>3, <1>7, <2>1, <2>2, <2>4, <2>5, <2>10, <2>11, OwnMoves
<1> QED  BY <1>5, <1>6, <1>7 DEF Reader, Phases

--------------------------------------------------------------------------------
(* The steps.                                                                *)

\* What a step that is not the reader's leaves of it.
LEMMA ReaderStays ==
    ASSUME Reader, UNCHANGED <<seq, seen, last_seq, primary, own, in_sync, end_of_tl, log>>,
           Due(seq)' => Due(seq)
    PROVE  Reader'
<1>1. Given' = Given /\ AckSource' = AckSource
    BY SameGiven DEF AckSource
<1>2. Buffers'
    BY DEF Reader, Buffers, Buffer
<1>3. Phases'
    BY DEF Reader, Phases, Knows
<1>4. Delivered' /\ StillAwaited'
    BY <1>1 DEF Reader, Delivered, StillAwaited
<1> QED  BY <1>2, <1>3, <1>4 DEF Reader

\* What a step of the reader leaves of the writer.
LEMMA WriterStays ==
    ASSUME Numbers, Cached, Unacknowledged, UNCHANGED writerVars,
           connected' \in BOOLEAN, seen' \in BOOLEAN, asked' \in BOOLEAN,
           Due(seq)' => Due(seq)
    PROVE  Numbers' /\ Cached' /\ Unacknowledged'
<1>1. UNCHANGED <<seq, seq_xmit, whc, rn_seq, replied, other, first>>
    BY DEF writerVars
<1>2. Numbers'
    BY <1>1 DEF Numbers
<1>3. Cached'
    BY <1>1 DEF Cached, HasReaders
<1> QED  BY <1>1, <1>2, <1>3 DEF Unacknowledged

LEMMA InvParts ==
    IInv <=> Numbers /\ Cached /\ Unacknowledged /\ Reader /\ UnderWay
BY DEF IInv, Reader

LEMMA InvPartsNext ==
    ASSUME Numbers', Cached', Unacknowledged', Reader', UnderWay'
    PROVE  IInv'
BY DEF IInv, Reader

\* Nothing is sent.
LEMMA NetStays ==
    ASSUME UnderWay, seq' = seq, Due(seq)' => Due(seq), net' = net
    PROVE  UnderWay'
<1>1. \A m : Packet(m) => Packet(m)'
    BY DEF Packet
<1>2. \A m : Honest(m) => Honest(m)'
    BY DEF Honest
<1> QED  BY <1>1, <1>2 DEF UnderWay

LEMMA WriterMatchesStep ==
    ASSUME IInv, WriterMatches
    PROVE  IInv'
<1>1. Numbers /\ Cached /\ Unacknowledged /\ Reader /\ UnderWay
    BY InvParts
<1>2. /\ rn_seq' = seq /\ first' = seq
      /\ UNCHANGED <<net, seq, seq_xmit, whc, replied, other, connected, seen, asked>>
      /\ UNCHANGED <<last_seq, primary, own, in_sync, end_of_tl, log>>
    BY DEF WriterMatches, readerVars
<1>3. seq \in Nat /\ seq # Unmatched /\ ~(seq < seq)
    BY <1>1, NumberFacts
<1>4. ~Due(seq)'
    BY <1>2, <1>3 DEF Due
<1>5. Numbers'
    BY <1>1, <1>2, <1>3 DEF Numbers
<1>6. Cached'
    BY <1>1, <1>2, <1>3 DEF Cached, HasReaders
<1>7. Unacknowledged'
    BY <1>2, <1>4 DEF Unacknowledged
<1>8. Reader'
    BY <1>1, <1>2, <1>4, ReaderStays
<1>9. UnderWay'
    BY <1>1, <1>2, <1>4, NetStays
<1> QED  BY <1>5, <1>6, <1>7, <1>8, <1>9, InvPartsNext

LEMMA OtherMatchesStep ==
    ASSUME IInv, OtherMatches
    PROVE  IInv'
<1>1. Numbers /\ Cached /\ Unacknowledged /\ Reader /\ UnderWay
    BY InvParts
<1>2. /\ other' = seq
      /\ UNCHANGED <<net, seq, seq_xmit, whc, replied, rn_seq, first, connected, seen, asked>>
      /\ UNCHANGED <<last_seq, primary, own, in_sync, end_of_tl, log>>
    BY DEF OtherMatches, readerVars
<1>3. seq \in Nat /\ seq # Unmatched
    BY <1>1, NumberFacts
<1>4. Due(seq)' <=> Due(seq)
    BY <1>2, SameGiven DEF Due
<1>5. Numbers'
    BY <1>1, <1>2, <1>3 DEF Numbers
<1>6. Cached'
    BY <1>1, <1>2, <1>3 DEF Cached, HasReaders
<1>7. Unacknowledged'
    BY <1>1, <1>2, <1>4 DEF Unacknowledged
<1>8. Reader'
    BY <1>1, <1>2, <1>4, ReaderStays
<1>9. UnderWay'
    BY <1>1, <1>2, <1>4, NetStays
<1> QED  BY <1>5, <1>6, <1>7, <1>8, <1>9, InvPartsNext

\* Whatever else is acknowledged, the last sample stays until this reader has
\* acknowledged it.
LEMMA OtherAcksStep ==
    ASSUME IInv, OtherAcks
    PROVE  IInv'
<1>1. Numbers /\ Cached /\ Unacknowledged /\ Reader /\ UnderWay
    BY InvParts
<1>2. /\ other # Unmatched
      /\ replied' = replied \cup {"other"}
      /\ UNCHANGED <<net, seq, seq_xmit, rn_seq, first, connected, seen, asked>>
      /\ UNCHANGED <<last_seq, primary, own, in_sync, end_of_tl, log>>
    BY DEF OtherAcks, readerVars
<1>3. PICK n \in other..seq_xmit : other' = n /\ whc' = Unacked(whc, rn_seq, n)
    BY DEF OtherAcks
<1>4. n \in 0..seq /\ n # Unmatched
  <2>1. other \in 0..seq
      BY <1>1, <1>2 DEF Numbers
  <2> QED  BY <1>1, <2>1, NumberFacts
<1>5. Due(seq)' <=> Due(seq)
    BY <1>2, SameGiven DEF Due
<1>6. Numbers'
    BY <1>1, <1>2, <1>3, <1>4 DEF Numbers
<1>7. Cached'
  <2>1. whc' \subseteq whc
      BY <1>3 DEF Unacked
  <2>2. HasReaders'
      BY <1>3, <1>4 DEF HasReaders, Unmatched
  <2>3. rn_seq # Unmatched /\ rn_seq < seq => seq \in whc'
      BY <1>1, <1>3 DEF Cached, Unacked
  <2> QED  BY <1>1, <1>2, <2>1, <2>2, <2>3 DEF Cached, Unmatched
<1>8. Unacknowledged'
    BY <1>1, <1>2, <1>5 DEF Unacknowledged
<1>9. Reader'
    BY <1>1, <1>2, <1>5, ReaderStays
<1>10. UnderWay'
    BY <1>1, <1>2, <1>5, NetStays
<1> QED  BY <1>6, <1>7, <1>8, <1>9, <1>10, InvPartsNext

\* All that there is is about earlier samples.
LEMMA WriteStep ==
    ASSUME IInv, Write
    PROVE  IInv'
<1>1. Numbers /\ Cached /\ Unacknowledged /\ Reader /\ UnderWay
    BY InvParts
<1>2. /\ seq_xmit = seq /\ seq < MaxSeq /\ seq' = seq + 1
      /\ UNCHANGED <<net, rn_seq, other, first, replied, connected, seen, asked>>
      /\ UNCHANGED <<last_seq, primary, own, in_sync, end_of_tl, log>>
    BY DEF Write, readerVars
<1>3. /\ HasReaders => whc' = {seq + 1} /\ seq_xmit' = seq_xmit
      /\ ~HasReaders => whc' = whc /\ seq_xmit' = seq + 1
    BY DEF Write, Insert
<1>4. seq \in Nat /\ MaxSeq \in Nat /\ Unmatched = -1
    BY <1>1, NumberFacts
<1>5. Given' = Given /\ AckSource' = AckSource
    BY <1>2, SameGiven DEF AckSource
<1>6. Numbers'
  <2>1. seq_xmit' \in {seq, seq + 1}
      BY <1>2, <1>3
  <2>2. /\ seq + 1 \in 0..MaxSeq /\ seq_xmit' \in 0..MaxSeq
        /\ seq + 1 \in seq_xmit'..seq_xmit'+1
    <3>1. \A a, x \in Nat : a < MaxSeq /\ (x = a \/ x = a + 1) =>
            a + 1 \in 0..MaxSeq /\ x \in 0..MaxSeq /\ a + 1 \in x..x+1
        BY <1>4
    <3>2. seq_xmit' = seq \/ seq_xmit' = seq + 1
        BY <2>1
    <3>3. seq_xmit' \in Nat
        BY <1>4, <3>2
    <3> QED  BY <1>2, <1>4, <3>1, <3>2, <3>3
  <2>3. \A n \in {Unmatched} \cup 0..seq : n \in {Unmatched} \cup 0..seq+1
      BY <1>4
  <2>4. /\ rn_seq' \in {Unmatched} \cup 0..seq+1 /\ other' \in {Unmatched} \cup 0..seq+1
        /\ first' \in 0..seq+1
      BY <1>1, <1>2, <1>4, <2>3 DEF Numbers
  <2> QED  BY <1>1, <1>2, <2>2, <2>4 DEF Numbers
<1>7. Cached'
  <2>1. HasReaders' <=> HasReaders
      BY <1>2 DEF HasReaders
  <2>2. CASE HasReaders
      BY <1>2, <1>3, <1>4, <2>1, <2>2 DEF Cached
  <2>3. CASE ~HasReaders
      BY <1>1, <1>2, <1>3, <2>1, <2>3 DEF Cached, HasReaders, Unmatched
  <2> QED  BY <2>2, <2>3
<1>8. Unacknowledged'
    BY <1>1, <1>2, <1>4 DEF Unacknowledged, Numbers, Due
<1>9. Buffer(own, seq) /\ Buffer(primary, seq) /\ Buffer(own, seq + 1) /\ Buffer(primary, seq + 1)
    BY <1>1, <1>4, BufferGrows DEF Reader, Buffers
<1>10. Buffers'
  <2>1. last_seq \in 0..seq+1 /\ end_of_tl \in 0..Never
      BY <1>1, <1>4 DEF Reader, Buffers
  <2> QED  BY <1>2, <1>9, <2>1 DEF Buffers, Buffer
<1>11. Phases'
    BY <1>1, <1>2, <1>4 DEF Reader, Phases, Knows
<1>12. Delivered'
    BY <1>1, <1>2, <1>4, <1>5 DEF Reader, Delivered
<1>13. StillAwaited'
  <2>1. seq + 1 \notin own.gone /\ seq + 1 \notin primary.gone
      BY <1>4, <1>9 DEF Buffer
  <2>2. own.next <= seq + 1 /\ primary.next <= seq + 1
      BY <1>4, <1>9 DEF Buffer
  <2> QED  BY <1>2, <1>5, <2>1, <2>2 DEF StillAwaited, AckSource
<1>14. UnderWay'
  <2> SUFFICES ASSUME NEW m \in net PROVE Packet(m)' /\ Honest(m)'
      BY <1>2 DEF UnderWay
  <2>1. Packet(m)
      BY <1>1 DEF UnderWay
  <2>2. Packet(m)'
      BY <1>2, <1>4, <2>1 DEF Packet
  <2>3. Honest(m)'
      BY <1>2, <1>4, <2>1 DEF Packet, Honest
  <2> QED  BY <2>2, <2>3
<1> QED  BY <1>6, <1>7, <1>8, <1>10, <1>11, <1>12, <1>13, <1>14, InvPartsNext DEF Reader

LEMMA TransmitStep ==
    ASSUME IInv, Transmit
    PROVE  IInv'
<1>1. Numbers /\ Cached /\ Unacknowledged /\ Reader /\ UnderWay
    BY InvParts
<1>2. /\ seq_xmit < seq /\ seq_xmit' = seq
      /\ UNCHANGED <<seq, whc, rn_seq, replied, other, first, connected, seen, asked>>
      /\ UNCHANGED <<last_seq, primary, own, in_sync, end_of_tl, log>>
    BY DEF Transmit, readerVars
<1>3. PICK fin \in BOOLEAN : Send({Data(seq), HeartbeatAt(seq, fin)})
    BY DEF Transmit
<1>4. seq \in Nat /\ seq \in 1..seq /\ seq \in 0..MaxSeq /\ seq \in seq..seq+1
    BY <1>1, <1>2, NumberFacts
<1>5. Due(seq)' <=> Due(seq)
    BY <1>2, SameGiven DEF Due
<1>6. Numbers'
    BY <1>1, <1>2, <1>4 DEF Numbers
<1>7. Cached'
    BY <1>1, <1>2 DEF Cached, HasReaders
<1>8. Unacknowledged'
    BY <1>1, <1>2, <1>5 DEF Unacknowledged
<1>9. Reader'
    BY <1>1, <1>2, <1>5, ReaderStays
<1>10. UnderWay'
  <2> DEFINE msgs == {Data(seq), HeartbeatAt(seq, fin)}
  <2>1. Packet(Data(seq)) /\ Honest(Data(seq))
      BY <1>4, MessageKinds DEF Packet, Honest
  <2>2. Packet(HeartbeatAt(seq, fin)) /\ Honest(HeartbeatAt(seq, fin))
      BY <1>1, HeartbeatHonest
  <2>3. net' \subseteq net \cup msgs
      BY <1>3, SendFacts
  <2>4. \A m \in msgs : Packet(m) /\ Honest(m)
      BY <2>1, <2>2
  <2> HIDE DEF msgs
  <2> QED  BY <1>1, <1>2, <1>5, <2>3, <2>4, NetGrows
<1> QED  BY <1>6, <1>7, <1>8, <1>9, <1>10, InvPartsNext

LEMMA PeriodicHeartbeatStep ==
    ASSUME IInv, NEW fin \in BOOLEAN, PeriodicHeartbeat(fin)
    PROVE  IInv'
<1>1. Numbers /\ Cached /\ Unacknowledged /\ Reader /\ UnderWay
    BY InvParts
<1>2. /\ UNCHANGED writerVars /\ UNCHANGED <<seq, first, rn_seq, connected, seen, asked>>
      /\ UNCHANGED <<last_seq, primary, own, in_sync, end_of_tl, log>>
    BY DEF PeriodicHeartbeat, readerVars, writerVars
<1>3. Due(seq)' <=> Due(seq)
    BY <1>2, SameGiven DEF Due
<1>4. Numbers' /\ Cached' /\ Unacknowledged'
    BY <1>1, <1>2, <1>3, WriterStays DEF Numbers
<1>5. Reader'
    BY <1>1, <1>2, <1>3, ReaderStays
<1>6. UnderWay'
  <2> DEFINE msgs == {HeartbeatNow(fin)}
  <2>1. Packet(HeartbeatNow(fin)) /\ Honest(HeartbeatNow(fin))
      BY <1>1, HeartbeatHonest DEF HeartbeatNow
  <2>2. net' \subseteq net \cup msgs
      BY SendFacts DEF PeriodicHeartbeat
  <2>3. \A m \in msgs : Packet(m) /\ Honest(m)
      BY <2>1
  <2> HIDE DEF msgs
  <2> QED  BY <1>1, <1>2, <1>3, <2>2, <2>3, NetGrows
<1> QED  BY <1>4, <1>5, <1>6, InvPartsNext

\* What is due is not acknowledged, so the writer does not drop it.
LEMMA AckNackStep ==
    ASSUME IInv, NEW m \in net, m.kind = "ACKNACK", HandleAckNack(m)
    PROVE  IInv'
<1> DEFINE ack == IF m.base - 1 <= rn_seq THEN rn_seq
                  ELSE IF m.base - 1 <= seq THEN m.base - 1 ELSE seq
           answer == Resend(m, ack)
<1>1. Numbers /\ Cached /\ Unacknowledged /\ Reader /\ UnderWay
    BY InvParts
<1>2. Packet(m) /\ m.base \in 1..seq+1 /\ (Due(seq) => m.base <= seq)
    BY <1>1 DEF UnderWay, Packet, Honest
<1>3. /\ rn_seq # Unmatched /\ rn_seq' = ack /\ whc' = Unacked(whc, ack, other)
      /\ replied' \in {replied, replied \cup {"reader"}}
      /\ UNCHANGED <<seq, seq_xmit, other, first, connected, seen, asked>>
      /\ UNCHANGED <<last_seq, primary, own, in_sync, end_of_tl, log>>
    BY DEF HandleAckNack, readerVars
<1>4. IF answer = {} THEN UNCHANGED net ELSE Send(answer \cup {HeartbeatNow(FALSE)})
    BY DEF HandleAckNack
<1>5. /\ rn_seq \in 0..seq /\ ack \in 0..seq /\ rn_seq <= ack
      /\ Due(seq) => ack < seq
  <2>1. rn_seq \in 0..seq /\ (Due(seq) => rn_seq < seq)
      BY <1>1, <1>3 DEF Numbers, Unacknowledged
  <2>2. seq \in Nat
      BY <1>1, NumberFacts
  <2> QED  BY <1>2, <2>1, <2>2
<1> HIDE DEF ack
<1>6. Due(seq)' <=> Due(seq)
  <2>1. ack # Unmatched
      BY <1>5 DEF Unmatched
  <2> QED  BY <1>3, <2>1, SameGiven DEF Due
<1>7. Numbers'
  <2>1. replied' \in SUBSET {"reader", "other"}
      BY <1>1, <1>3 DEF Numbers
  <2> QED  BY <1>1, <1>3, <1>5, <2>1 DEF Numbers
<1>8. Cached'
  <2>1. whc' \subseteq whc
      BY <1>3 DEF Unacked
  <2>2. HasReaders'
      BY <1>3, <1>5 DEF HasReaders, Unmatched
  <2>3. ack < seq => seq \in whc'
    <3> SUFFICES ASSUME ack < seq PROVE seq \in whc'
        OBVIOUS
    <3>1. rn_seq < seq /\ ack # Unmatched /\ seq > ack
        BY <1>1, <1>5, NumberFacts
    <3>2. seq \in whc
        BY <1>1, <1>3, <3>1 DEF Cached
    <3> QED  BY <1>3, <3>1, <3>2 DEF Unacked
  <2> QED  BY <1>1, <1>3, <2>1, <2>2, <2>3 DEF Cached
<1>9. Unacknowledged'
    BY <1>3, <1>5, <1>6 DEF Unacknowledged
<1>10. Reader'
    BY <1>1, <1>3, <1>6, ReaderStays
<1>11. UnderWay'
  <2>1. \A x \in answer : Packet(x) /\ Honest(x)
      BY <1>1, <1>2, <1>5, ResendHonest
  <2>2. Packet(HeartbeatNow(FALSE)) /\ Honest(HeartbeatNow(FALSE))
      BY <1>1, HeartbeatHonest DEF HeartbeatNow
  <2> HIDE DEF answer
  <2> DEFINE msgs == answer \cup {HeartbeatNow(FALSE)}
  <2>3. net' \subseteq net \cup msgs
      BY <1>4, SendFacts
  <2>4. \A x \in msgs : Packet(x) /\ Honest(x)
      BY <2>1, <2>2
  <2> HIDE DEF msgs
  <2> QED  BY <1>1, <1>3, <1>6, <2>3, <2>4, NetGrows
<1> QED  BY <1>7, <1>8, <1>9, <1>10, <1>11, InvPartsNext

LEMMA PreemptiveStep ==
    ASSUME IInv, HandlePreemptive
    PROVE  IInv'
<1>1. Numbers /\ Cached /\ Unacknowledged /\ Reader /\ UnderWay
    BY InvParts
<1>2. /\ replied' \in {replied, replied \cup {"reader"}} /\ Send({HeartbeatNow(FALSE)})
      /\ UNCHANGED <<seq, seq_xmit, whc, rn_seq, other, first, connected, seen, asked>>
      /\ UNCHANGED <<last_seq, primary, own, in_sync, end_of_tl, log>>
    BY DEF HandlePreemptive, readerVars
<1>3. Due(seq)' <=> Due(seq)
    BY <1>2, SameGiven DEF Due
<1>4. Numbers'
  <2>1. replied' \in SUBSET {"reader", "other"}
      BY <1>1, <1>2 DEF Numbers
  <2> QED  BY <1>1, <1>2, <2>1 DEF Numbers
<1>5. Cached'
    BY <1>1, <1>2 DEF Cached, HasReaders
<1>6. Unacknowledged'
    BY <1>1, <1>2, <1>3 DEF Unacknowledged
<1>7. Reader'
    BY <1>1, <1>2, <1>3, ReaderStays
<1>8. UnderWay'
  <2> DEFINE msgs == {HeartbeatNow(FALSE)}
  <2>1. Packet(HeartbeatNow(FALSE)) /\ Honest(HeartbeatNow(FALSE))
      BY <1>1, HeartbeatHonest DEF HeartbeatNow
  <2>2. net' \subseteq net \cup msgs
      BY <1>2, SendFacts
  <2>3. \A m \in msgs : Packet(m) /\ Honest(m)
      BY <2>1
  <2> HIDE DEF msgs
  <2> QED  BY <1>1, <1>2, <1>3, <2>2, <2>3, NetGrows
<1> QED  BY <1>4, <1>5, <1>6, <1>7, <1>8, InvPartsNext

LEMMA ReaderMatchesStep ==
    ASSUME IInv, ReaderMatches
    PROVE  IInv'
<1>1. Numbers /\ Cached /\ Unacknowledged /\ Reader /\ UnderWay
    BY InvParts
<1>2. /\ UNCHANGED writerVars /\ connected' = TRUE
      /\ UNCHANGED <<net, seq, first, rn_seq, seen, asked>>
      /\ UNCHANGED <<last_seq, primary, own, in_sync, end_of_tl, log>>
    BY DEF ReaderMatches, writerVars
<1>3. Due(seq)' <=> Due(seq)
    BY <1>2, SameGiven DEF Due
<1>4. Numbers' /\ Cached' /\ Unacknowledged'
    BY <1>1, <1>2, <1>3, WriterStays DEF Numbers
<1>5. Reader'
    BY <1>1, <1>2, <1>3, ReaderStays
<1>6. UnderWay'
    BY <1>1, <1>2, <1>3, NetStays
<1> QED  BY <1>4, <1>5, <1>6, InvPartsNext

\* The reader asks or acknowledges.
LEMMA AskStep ==
    ASSUME IInv, NEW m, Packet(m), Honest(m), Send({m}), UNCHANGED writerVars,
           asked' \in BOOLEAN, UNCHANGED <<connected, seen, last_seq, primary, own>>,
           UNCHANGED <<in_sync, end_of_tl, log>>
    PROVE  IInv'
<1> DEFINE msgs == {m}
<1>1. Numbers /\ Cached /\ Unacknowledged /\ Reader /\ UnderWay
    BY InvParts
<1>2. UNCHANGED <<seq, first, rn_seq>>
    BY DEF writerVars
<1>3. Due(seq)' <=> Due(seq)
    BY <1>2, SameGiven DEF Due
<1>4. Numbers' /\ Cached' /\ Unacknowledged'
    BY <1>1, <1>2, <1>3, WriterStays DEF Numbers
<1>5. Reader'
    BY <1>1, <1>2, <1>3, ReaderStays
<1>6. net' \subseteq net \cup msgs /\ \A x \in msgs : Packet(x) /\ Honest(x)
    BY SendFacts
<1> HIDE DEF msgs
<1>7. UnderWay'
    BY <1>1, <1>2, <1>3, <1>6, NetGrows
<1> QED  BY <1>4, <1>5, <1>7, InvPartsNext

\* An acknowledgment never covers what is due.
LEMMA SourceFacts ==
    ASSUME Numbers, Reader
    PROVE  /\ AckSource.next \in 1..seq+1 /\ last_seq \in 0..seq
           /\ Due(seq) => AckSource.next <= seq
<1>1. Buffer(AckSource, seq)
    BY DEF Reader, Buffers, AckSource
<1> QED  BY <1>1 DEF Reader, Buffers, StillAwaited, Buffer

LEMMA SendPreemptiveStep ==
    ASSUME IInv, SendPreemptive
    PROVE  IInv'
<1>1. Packet(Preemptive) /\ Honest(Preemptive)
    BY MessageKinds DEF Packet, Honest
<1>2. asked \in BOOLEAN
    BY DEF IInv, Numbers
<1> QED  BY <1>1, <1>2, AskStep DEF SendPreemptive, readerVars

LEMMA SendNackStep ==
    ASSUME IInv, SendNack
    PROVE  IInv'
<1> DEFINE m == AckNack(AckSource.next, last_seq + 1, Missing)
<1>1. Numbers /\ Reader
    BY InvParts
<1>2. /\ AckSource.next \in 1..seq+1 /\ last_seq \in 0..seq
      /\ Due(seq) => AckSource.next <= seq
    BY <1>1, SourceFacts
<1>3. seq \in Nat
    BY <1>1, NumberFacts
<1>4. Missing \subseteq 1..seq
    BY <1>2, <1>3 DEF Missing
<1>5. last_seq + 1 \in 1..seq+1
    BY <1>2, <1>3
<1>6. m.kind = "ACKNACK" /\ m.base = AckSource.next /\ m.end = last_seq + 1 /\ m.bits = Missing
    BY MessageKinds
<1> HIDE DEF m
<1>7. Packet(m) /\ Honest(m)
    BY <1>2, <1>4, <1>5, <1>6 DEF Packet, Honest
<1>8. /\ Send({m}) /\ asked' \in BOOLEAN /\ UNCHANGED writerVars
      /\ UNCHANGED <<connected, seen, last_seq, primary, own>>
      /\ UNCHANGED <<in_sync, end_of_tl, log>>
    BY DEF SendNack, m
<1> QED  BY <1>7, <1>8, AskStep

LEMMA SendAckStep ==
    ASSUME IInv, SendAck
    PROVE  IInv'
<1> DEFINE m == AckNack(AckSource.next, AckSource.next, {})
<1>1. Numbers /\ Reader
    BY InvParts
<1>2. AckSource.next \in 1..seq+1 /\ (Due(seq) => AckSource.next <= seq)
    BY <1>1, SourceFacts
<1>3. m.kind = "ACKNACK" /\ m.base = AckSource.next /\ m.end = AckSource.next /\ m.bits = {}
    BY MessageKinds
<1> HIDE DEF m
<1>4. Packet(m) /\ Honest(m)
    BY <1>2, <1>3 DEF Packet, Honest
<1>5. /\ Send({m}) /\ asked' \in BOOLEAN /\ UNCHANGED writerVars
      /\ UNCHANGED <<connected, seen, last_seq, primary, own>>
      /\ UNCHANGED <<in_sync, end_of_tl, log>>
    BY DEF SendAck, m
<1> QED  BY <1>4, <1>5, AskStep

\* A packet arrives.
LEMMA ReceiveStep ==
    ASSUME IInv, NEW m \in net, Receive(m)
    PROVE  IInv'
<1>1. Numbers /\ Cached /\ Unacknowledged /\ Reader /\ UnderWay
    BY InvParts
<1>2. Packet(m) /\ Honest(m)
    BY <1>1 DEF UnderWay
<1>3. ASSUME Reader', Due(seq)' => Due(seq), UNCHANGED <<net, writerVars, connected>>,
             seen' \in BOOLEAN, asked' \in BOOLEAN
      PROVE  IInv'
  <2>1. seq' = seq /\ connected' \in BOOLEAN
      BY <1>1, <1>3 DEF writerVars, Numbers
  <2>2. Numbers' /\ Cached' /\ Unacknowledged'
      BY <1>1, <1>3, <2>1, WriterStays
  <2>3. UnderWay'
      BY <1>1, <1>3, <2>1, NetStays
  <2> QED  BY <1>3, <2>2, <2>3, InvPartsNext
<1>4. seen \in BOOLEAN /\ asked \in BOOLEAN
    BY <1>1 DEF Numbers
<1>5. CASE m.kind = "HEARTBEAT" /\ HandleHeartbeat(m)
  <2>1. UNCHANGED <<net, writerVars, connected>> /\ seen' \in BOOLEAN
      BY <1>5 DEF HandleHeartbeat
  <2>2. asked' \in BOOLEAN
    <3>1. m.final \in BOOLEAN
        BY <1>2, <1>5 DEF Packet
    <3>2. asked' = (asked \/ ~m.final)
        BY <1>5 DEF HandleHeartbeat
    <3> QED  BY <1>4, <3>1, <3>2
  <2>3. Reader' /\ (Due(seq)' => Due(seq))
      BY <1>1, <1>2, <1>5, HeartbeatStep
  <2> QED  BY <1>3, <2>1, <2>2, <2>3
<1>6. CASE m.kind = "DATA" /\ HandleData(m.seq)
  <2>1. UNCHANGED <<net, writerVars, connected>> /\ seen' \in BOOLEAN /\ asked' \in BOOLEAN
      BY <1>4, <1>6 DEF HandleData
  <2>2. m.seq \in 1..seq
      BY <1>2, <1>6 DEF Packet
  <2>3. Reader' /\ (Due(seq)' => Due(seq))
      BY <1>1, <1>6, <2>2, DataStep
  <2> QED  BY <1>3, <2>1, <2>3
<1>7. CASE m.kind = "GAP" /\ HandleGap(m.start, m.end)
  <2>1. UNCHANGED <<net, writerVars, connected>> /\ seen' \in BOOLEAN /\ asked' \in BOOLEAN
      BY <1>4, <1>7 DEF HandleGap
  <2>2. m.start \in 1..seq /\ m.end \in 1..seq+1 /\ (Due(seq) => seq \notin m.start..m.end-1)
      BY <1>2, <1>7 DEF Packet, Honest
  <2>3. Reader' /\ (Due(seq)' => Due(seq))
      BY <1>1, <1>7, <2>2, GapStep
  <2> QED  BY <1>3, <2>1, <2>3
<1>8. CASE m.kind = "ACKNACK" /\ HandleAckNack(m)
    BY <1>8, AckNackStep
<1>9. CASE m.kind = "PREEMPTIVE" /\ HandlePreemptive
    BY <1>9, PreemptiveStep
<1> QED  BY <1>5, <1>6, <1>7, <1>8, <1>9 DEF Receive

--------------------------------------------------------------------------------
(* The invariant.                                                            *)

LEMMA InvInit == Init => IInv
<1> SUFFICES ASSUME Init PROVE IInv
    OBVIOUS
<1>1. MaxSeq \in Nat /\ Unmatched = -1 /\ Never \in Nat
    BY LinkAssumption DEF Unmatched, Never
<1>2. /\ net = {} /\ seq = 0 /\ seq_xmit = 0 /\ whc = {} /\ rn_seq = Unmatched
      /\ other = Unmatched /\ first = 0 /\ log = << >> /\ last_seq = 0 /\ end_of_tl = Never
      /\ ~connected /\ ~seen /\ replied = {} /\ ~asked
      /\ primary = Fresh /\ own = Fresh /\ in_sync = "OUT_OF_SYNC"
    BY DEF Init
<1>3. ~Due(seq)
    BY <1>2 DEF Due
<1>4. Numbers
  <2>1. \A n \in Nat : 0 \in 0..n /\ 0 \in 0..0+1
      OBVIOUS
  <2>2. connected \in BOOLEAN /\ seen \in BOOLEAN /\ asked \in BOOLEAN
      BY DEF Init
  <2> QED  BY <1>1, <1>2, <2>1, <2>2 DEF Numbers
<1>5. Cached
    BY <1>2 DEF Cached
<1>6. Unacknowledged /\ StillAwaited /\ UnderWay
    BY <1>2, <1>3 DEF Unacknowledged, StillAwaited, UnderWay
<1>7. Buffers
    BY <1>1, <1>2, FreshBuffer DEF Buffers
<1>8. Phases
    BY <1>2 DEF Phases
<1>9. Delivered
  <2>1. Given = {} /\ log \in Seq(Nat)
      BY <1>2 DEF Given
  <2> QED  BY <2>1 DEF Delivered
<1> QED  BY <1>4, <1>5, <1>6, <1>7, <1>8, <1>9 DEF IInv

LEMMA InvStutter ==
    ASSUME IInv, UNCHANGED vars
    PROVE  IInv'
<1>1. Numbers /\ Cached /\ Unacknowledged /\ Reader /\ UnderWay
    BY InvParts
<1>2. /\ UNCHANGED writerVars /\ UNCHANGED <<net, seq, first, rn_seq, connected, seen, asked>>
      /\ UNCHANGED <<last_seq, primary, own, in_sync, end_of_tl, log>>
    BY DEF vars, readerVars, writerVars
<1>3. Due(seq)' <=> Due(seq)
    BY <1>2, SameGiven DEF Due
<1>4. Numbers' /\ Cached' /\ Unacknowledged'
    BY <1>1, <1>2, <1>3, WriterStays DEF Numbers
<1>5. Reader'
    BY <1>1, <1>2, <1>3, ReaderStays
<1>6. UnderWay'
    BY <1>1, <1>2, <1>3, NetStays
<1> QED  BY <1>4, <1>5, <1>6, InvPartsNext

LEMMA InvNext == IInv /\ [Next]_vars => IInv'
<1> SUFFICES ASSUME IInv, [Next]_vars PROVE IInv'
    OBVIOUS
<1>1. CASE WriterMatches
    BY <1>1, WriterMatchesStep
<1>2. CASE OtherMatches
    BY <1>2, OtherMatchesStep
<1>3. CASE OtherAcks
    BY <1>3, OtherAcksStep
<1>4. CASE Write
    BY <1>4, WriteStep
<1>5. CASE Transmit
    BY <1>5, TransmitStep
<1>6. CASE \E fin \in BOOLEAN : PeriodicHeartbeat(fin)
    BY <1>6, PeriodicHeartbeatStep
<1>7. CASE ReaderMatches
    BY <1>7, ReaderMatchesStep
<1>8. CASE SendPreemptive
    BY <1>8, SendPreemptiveStep
<1>9. CASE SendNack
    BY <1>9, SendNackStep
<1>10. CASE SendAck
    BY <1>10, SendAckStep
<1>11. CASE \E m \in net : Receive(m)
    BY <1>11, ReceiveStep
<1>12. CASE UNCHANGED vars
    BY <1>12, InvStutter
<1> QED  BY <1>1, <1>2, <1>3, <1>4, <1>5, <1>6, <1>7, <1>8, <1>9, <1>10, <1>11, <1>12 DEF Next

\* In every reachable state what is due is awaited by the reader, cached by the
\* writer and denied by no packet under way.
THEOREM LinkInvariant == Spec => []IInv
BY InvInit, InvNext, PTL DEF Spec

--------------------------------------------------------------------------------
(* What the invariant says of the properties.                                *)

LEMMA InvTypeOK == IInv => TypeOK
<1> SUFFICES ASSUME IInv PROVE TypeOK
    OBVIOUS
<1>1. Numbers /\ Cached /\ Buffers /\ Phases
    BY DEF IInv
<1>2. seq \in 0..MaxSeq /\ MaxSeq \in Nat /\ seq \in Nat /\ Never = MaxSeq + 2
    BY <1>1, NumberFacts DEF Never
<1>3. ASSUME NEW r, Buffer(r, seq) PROVE BufferOK(r)
  <2>1. 1..seq \subseteq Seqs /\ 1..seq+1 \subseteq 1..Never
      BY <1>2 DEF Seqs
  <2> QED  BY <1>3, <2>1 DEF Buffer, BufferOK
<1>4. BufferOK(primary) /\ BufferOK(own)
    BY <1>1, <1>3 DEF Buffers
<1>5. last_seq \in 0..MaxSeq
    BY <1>1, <1>2 DEF Buffers
<1> QED  BY <1>1, <1>4, <1>5 DEF TypeOK, Numbers, Cached, Buffers, Phases

LEMMA InvKeptUntilGiven == IInv => KeptUntilGiven
BY DueIsCached DEF IInv, KeptUntilGiven

LEMMA InvNothingDisowned == IInv => NothingDisowned
BY DEF IInv, UnderWay, Honest, NothingDisowned

LEMMA InvNeverBetween == IInv => NeverBetween
BY DEF IInv, Phases, NeverBetween

LEMMA LinkInit == Init => Link!Init
BY DEF Init, Link!Init

LEMMA LinkNext == IInv /\ [Next]_vars => [Link!Next]_<<seq, log>>
<1> SUFFICES ASSUME IInv, [Next]_vars PROVE LinkStep
    BY DEF LinkStep
<1>1. Numbers /\ Reader
    BY InvParts
<1>2. CASE Write
  <2>1. Link!Write
      BY <1>2 DEF Write, readerVars, Link!Write
  <2> QED  BY <2>1 DEF LinkStep, Link!Next
<1>3. CASE WriterMatches \/ OtherMatches \/ OtherAcks \/ Transmit
    BY <1>3 DEF WriterMatches, OtherMatches, OtherAcks, Transmit, readerVars, LinkStep
<1>4. CASE \E fin \in BOOLEAN : PeriodicHeartbeat(fin)
    BY <1>4 DEF PeriodicHeartbeat, readerVars, writerVars, LinkStep
<1>5. CASE ReaderMatches \/ SendPreemptive \/ SendNack \/ SendAck
    BY <1>5 DEF ReaderMatches, SendPreemptive, SendNack, SendAck, readerVars, writerVars, LinkStep
<1>6. CASE \E m \in net : Receive(m)
  <2>1. PICK m \in net : Receive(m)
      BY <1>6
  <2>2. Packet(m) /\ Honest(m)
      BY DEF IInv, UnderWay
  <2>3. CASE m.kind = "HEARTBEAT" /\ HandleHeartbeat(m)
      BY <1>1, <2>2, <2>3, HeartbeatStep
  <2>4. CASE m.kind = "DATA" /\ HandleData(m.seq)
      BY <1>1, <2>2, <2>4, DataStep DEF Packet
  <2>5. CASE m.kind = "GAP" /\ HandleGap(m.start, m.end)
    <3>1. m.start \in 1..seq /\ m.end \in 1..seq+1 /\ (Due(seq) => seq \notin m.start..m.end-1)
        BY <2>2, <2>5 DEF Packet, Honest
    <3> QED  BY <1>1, <2>5, <3>1, GapStep
  <2>6. CASE HandleAckNack(m) \/ HandlePreemptive
      BY <2>6 DEF HandleAckNack, HandlePreemptive, readerVars, LinkStep
  <2> QED  BY <2>1, <2>3, <2>4, <2>5, <2>6 DEF Receive
<1>7. CASE UNCHANGED vars
    BY <1>7 DEF vars, writerVars, readerVars, LinkStep
<1> QED  BY <1>2, <1>3, <1>4, <1>5, <1>6, <1>7 DEF Next

--------------------------------------------------------------------------------
(* The theorems.                                                             *)

\* The numbers of both ends stay in their ranges, and a reorder buffer keeps its
\* shape, whatever arrives late, twice or in another order (nn_reorder_rsample,
\* nn_reorder_gap).
THEOREM Types == Spec => []TypeOK
BY LinkInvariant, InvTypeOK, PTL

\* remove_acked_messages never drops the last sample as long as a reader that was
\* there when it was written has not been given it.
THEOREM KeepsWhatIsDue == Spec => []KeptUntilGiven
BY LinkInvariant, InvKeptUntilGiven, PTL

\* No heartbeat (add_Heartbeat) and no gap (handle_AckNack) on the network says of
\* such a sample that it is not available.
THEOREM DisownsNothing == Spec => []NothingDisowned
BY LinkInvariant, InvNothingDisowned, PTL

\* maybe_set_reader_in_sync never leaves a reader catching up.
THEOREM SwitchesAtOnce == Spec => []NeverBetween
BY LinkInvariant, InvNeverBetween, PTL

\* The protocol implements the abstract link: what deliver_user_data gives the
\* reader is a part of what was written, in that order, nothing twice.
THEOREM DeliversInOrder == Spec => InOrder
BY LinkInvariant, LinkInit, LinkNext, PTL DEF Spec, InOrder, Link!Spec

================================================================================
