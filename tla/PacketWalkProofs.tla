--------------------------- MODULE PacketWalkProofs ---------------------------
(***************************************************************************)
(* inspector.cpp never reads outside a captured packet: for every capture    *)
(* length and whatever the length fields in the packet say.  TLC shows it    *)
(* for the lengths of MCPacketWalk only, and the number of submessages and   *)
(* parameters of a packet has no bound here.                                 *)
(*                                                                           *)
(* The three invariants hold each other up: a read is inside because the     *)
(* cursor was compared with a limit (len, next_off, pl_len) before, and the   *)
(* limit is inside because it was cut to the one around it.  What is missing *)
(* is that the end of the submessage has been cut to the message while a      *)
(* DATA submessage is worked on.                                             *)
(***************************************************************************)
EXTENDS PacketWalk, TLAPS

\* The limit of the submessage is inside the message.
LimitInside == pc \in {"data", "qos", "payload"} => next_off <= len

\* The inductive invariant.
IInv == TypeOK /\ ReadsInside /\ PayloadInside /\ LimitInside

--------------------------------------------------------------------------------
\* The smaller of two numbers is a number and exceeds neither of them.
LEMMA LeastBound ==
    ASSUME NEW a \in Nat, NEW b \in Nat
    PROVE  Least(a, b) \in Nat /\ Least(a, b) <= a /\ Least(a, b) <= b
BY DEF Least

\* The end of a submessage whose header fits is inside the message.
LEMMA NextOffBound ==
    ASSUME len \in Nat, off \in Nat, NEW n \in Nat
    PROVE  NextOff(n) \in Nat /\ NextOff(n) <= len
BY DEF NextOff, Least

\* A string is read inside its buffer, if the buffer has begun.
LEMMA CdrStringBound ==
    ASSUME base \in Nat, NEW p \in Nat, NEW e \in Nat, NEW n \in Nat, p <= e
    PROVE  CdrString(p, e, n) \in Nat /\ CdrString(p, e, n) <= base + e
BY DEF CdrString

\* Stripping a header of h bytes that are there keeps the rest inside the capture.
LEMMA EnterInside ==
    ASSUME IInv, NEW next \in {"ip", "udp", "rtps"}, NEW h \in Nat, NEW m \in Nat,
           h <= len, hi' \in Nat, hi' <= base + h, Enter(next, h, m)
    PROVE  IInv'
<1>1. Least(m, len - h) \in Nat /\ Least(m, len - h) <= len - h
    <2>1. len - h \in Nat
        BY DEF IInv, TypeOK
    <2>2. QED
        BY <2>1 DEF Least
<1>2. TypeOK'
    BY <1>1 DEF Enter, walk, IInv, TypeOK
<1>3. ReadsInside'
    BY <1>1 DEF Enter, IInv, TypeOK, ReadsInside
<1>4. PayloadInside' /\ LimitInside'
    BY DEF Enter, PayloadInside, LimitInside
<1>5. QED
    BY <1>2, <1>3, <1>4 DEF IInv

\* A packet that is left after a read inside it has been read inside it.
LEMMA LeaveInside ==
    ASSUME IInv, hi' \in Nat, hi' <= base + len, Leave
    PROVE  IInv'
BY DEF Leave, walk, IInv, TypeOK, ReadsInside, PayloadInside, LimitInside

--------------------------------------------------------------------------------
\* The initial states satisfy the inductive invariant.
LEMMA InitInside == Init => IInv
BY LengthsAssumption
   DEF Init, IInv, TypeOK, ReadsInside, PayloadInside, LimitInside

\* The link layer: Ethernet with or without a VLAN tag, or loopback.
LEMMA LinkInside == ASSUME IInv, Ethernet \/ Loopback PROVE IInv'
<1>1. CASE Ethernet
    <2>1. CASE len < 14 /\ hi' = hi /\ Leave
        BY <2>1, LeaveInside DEF IInv, TypeOK, ReadsInside
    <2>2. ASSUME len >= 14,
                 NEW vlan \in BOOLEAN,
                 NEW h, h = (IF vlan /\ len >= 18 THEN 18 ELSE 14),
                 hi' = h, Leave \/ Enter("ip", h, len)
          PROVE  IInv'
        <3>1. h \in Nat /\ h <= len /\ len \in Nat /\ base \in Nat
            BY <2>2 DEF IInv, TypeOK
        <3>2. hi' \in Nat /\ hi' <= base + h /\ hi' <= base + len
            BY <2>2, <3>1
        <3>3. QED
            BY <2>2, <3>1, <3>2, LeaveInside, EnterInside
    <2>3. QED
        BY <1>1, <2>1, <2>2 DEF Ethernet
<1>2. CASE Loopback
    <2>1. CASE len < 4 /\ hi' = hi /\ Leave
        BY <2>1, LeaveInside DEF IInv, TypeOK, ReadsInside
    <2>2. CASE len >= 4 /\ hi' = 4 /\ Leave
        BY <2>2, LeaveInside DEF IInv, TypeOK
    <2>3. CASE len >= 4 /\ hi' = 4 /\ Enter("ip", 4, len)
        BY <2>3, EnterInside DEF IInv, TypeOK
    <2>4. QED
        BY <1>2, <2>1, <2>2, <2>3 DEF Loopback
<1>3. QED
    BY <1>1, <1>2

\* The IP header.
LEMMA IpInside == ASSUME IInv, Ip PROVE IInv'
<1>1. CASE len < 20 /\ hi' = hi /\ Leave
    BY <1>1, LeaveInside DEF IInv, TypeOK, ReadsInside
<1>2. CASE len >= 20 /\ hi' = base + 20 /\ Leave
    BY <1>2, LeaveInside DEF IInv, TypeOK
<1>3. ASSUME hi' = base + 20,
             NEW n \in Ihls, 4 * n >= 20, 4 * n <= len, Enter("udp", 4 * n, len)
      PROVE  IInv'
    <2>1. n \in Nat /\ len \in Nat /\ base \in Nat
        BY LengthsAssumption DEF IInv, TypeOK
    <2>2. 4 * n \in Nat /\ hi' \in Nat /\ hi' <= base + 4 * n
        BY <1>3, <2>1
    <2>3. QED
        BY <1>3, <2>1, <2>2, EnterInside
<1>4. QED
    BY <1>1, <1>2, <1>3 DEF Ip

\* The UDP header.
LEMMA UdpInside == ASSUME IInv, Udp PROVE IInv'
<1>1. CASE len < 8 /\ hi' = hi /\ Leave
    BY <1>1, LeaveInside DEF IInv, TypeOK, ReadsInside
<1>2. CASE len >= 8 /\ hi' = base + 8 /\ Leave
    BY <1>2, LeaveInside DEF IInv, TypeOK
<1>3. ASSUME len >= 8, hi' = base + 8,
             NEW n \in Lengths, n >= 8, Enter("rtps", 8, n - 8)
      PROVE  IInv'
    <2>1. n - 8 \in Nat /\ hi' \in Nat /\ hi' <= base + 8
        BY <1>3, LengthsAssumption DEF IInv, TypeOK
    <2>2. QED
        BY <1>3, <2>1, EnterInside
<1>4. QED
    BY <1>1, <1>2, <1>3 DEF Udp

\* The RTPS header and the loop over the submessages.
LEMMA MessageInside ==
    ASSUME IInv, Header \/ LastSubmessage \/ Submessage \/ NextSubmessage \/ Heartbeat
    PROVE  IInv'
<1>1. CASE Header
    <2>1. Least(len, 4) \in Nat /\ Least(len, 4) <= len
        BY LeastBound DEF IInv, TypeOK
    <2>2. CASE hi' \in {hi, base + Least(len, 4)} /\ Leave
        BY <2>1, <2>2, LeaveInside DEF IInv, TypeOK, ReadsInside
    <2>3. QED
        BY <1>1, <2>2
        DEF Header, IInv, TypeOK, ReadsInside, PayloadInside, LimitInside
<1>2. CASE LastSubmessage
    BY <1>2, LeaveInside DEF LastSubmessage, IInv, TypeOK, ReadsInside
<1>3. CASE Submessage
    <2>1. next_off' \in Nat /\ next_off' <= len
        BY <1>3, NextOffBound, LengthsAssumption DEF Submessage, IInv, TypeOK
    <2>2. QED
        BY <1>3, <2>1
        DEF Submessage, IInv, TypeOK, ReadsInside, PayloadInside, LimitInside
<1>4. CASE NextSubmessage
    BY <1>4 DEF NextSubmessage, IInv, TypeOK, ReadsInside, PayloadInside, LimitInside
<1>5. CASE Heartbeat
    BY <1>5 DEF Heartbeat, walk, IInv, TypeOK, ReadsInside, PayloadInside, LimitInside
<1>6. QED
    BY <1>1, <1>2, <1>3, <1>4, <1>5

\* A DATA submessage, up to its payload.
LEMMA DataInside == ASSUME IInv, Data \/ InlineQos \/ Payload PROVE IInv'
<1>1. CASE Data
    BY <1>1, LengthsAssumption
    DEF Data, IInv, TypeOK, ReadsInside, PayloadInside, LimitInside
<1>2. CASE InlineQos
    BY <1>2, LengthsAssumption
    DEF InlineQos, IInv, TypeOK, ReadsInside, PayloadInside, LimitInside
<1>3. CASE Payload
    BY <1>3
    DEF Payload, PayloadLength, IInv, TypeOK, ReadsInside, PayloadInside, LimitInside
<1>4. QED
    BY <1>1, <1>2, <1>3

\* The payload of a user sample.
LEMMA UserInside == ASSUME IInv, User PROVE IInv'
<1>1. /\ pc = "user" /\ pl_off + pl_len <= len
      /\ base \in Nat /\ len \in Nat /\ pl_off \in Nat /\ pl_len \in Nat /\ hi \in Nat
      /\ hi <= base + len
    BY DEF User, IInv, TypeOK, ReadsInside, PayloadInside
<1>2. hi' \in Nat /\ hi' <= base + len
    <2>1. CASE hi' = hi
        BY <1>1, <2>1
    <2>2. CASE pl_len >= 8 /\ hi' = base + pl_off + 8
        BY <1>1, <2>2
    <2>3. ASSUME pl_len >= 8, NEW n \in Lengths,
                 hi' = CdrString(pl_off + 4, pl_off + pl_len, n)
          PROVE  hi' \in Nat /\ hi' <= base + len
        <3>1. n \in Nat /\ pl_off + 4 \in Nat /\ pl_off + pl_len \in Nat
              /\ pl_off + 4 <= pl_off + pl_len
            BY <1>1, <2>3, LengthsAssumption
        <3>2. hi' \in Nat /\ hi' <= base + (pl_off + pl_len)
            BY <1>1, <2>3, <3>1, CdrStringBound
        <3>3. QED
            BY <1>1, <3>2
    <2>4. CASE hi' = base + pl_off + Least(pl_len, 24)
        BY <1>1, <2>4 DEF Least
    <2>5. QED
        BY <2>1, <2>2, <2>3, <2>4 DEF User
<1>3. QED
    BY <1>1, <1>2
    DEF User, walk, IInv, TypeOK, ReadsInside, PayloadInside, LimitInside

\* The payload of a SEDP sample and its parameter list.
LEMMA SedpInside == ASSUME IInv, SedpHeader \/ SedpParam PROVE IInv'
<1>1. CASE SedpHeader
    BY <1>1 DEF SedpHeader, IInv, TypeOK, ReadsInside, PayloadInside, LimitInside
<1>2. CASE SedpParam
    <2>1. /\ pc = "param" /\ pl_off + pl_len <= len /\ q <= pl_len
          /\ base \in Nat /\ len \in Nat /\ pl_off \in Nat /\ pl_len \in Nat
          /\ q \in Nat /\ hi \in Nat /\ hi <= base + len
        BY <1>2 DEF SedpParam, IInv, TypeOK, ReadsInside, PayloadInside
    <2>2. /\ hi' \in Nat /\ hi' <= base + len
          /\ q' \in Nat /\ (pc' = "param" => q' <= pl_len)
        <3>1. CASE pc' = "next" /\ hi' \in {hi, base + pl_off + q + 4} /\ q' = q
                   /\ (hi' # hi => q + 4 <= pl_len)
            BY <2>1, <3>1
        <3>2. ASSUME NEW n \in Lengths, q + 4 + n <= pl_len, q' = q + 4 + n,
                     \/ hi' = base + pl_off + q + 4
                     \/ n >= 16 /\ hi' = base + pl_off + q + 4 + 16
                     \/ \E m \in Lengths :
                          hi' = CdrString(pl_off + q + 4, pl_off + q + 4 + n, m)
              PROVE  hi' \in Nat /\ hi' <= base + len /\ q' \in Nat /\ q' <= pl_len
            <4>1. n \in Nat
                BY LengthsAssumption
            <4>2. CASE \/ hi' = base + pl_off + q + 4
                       \/ n >= 16 /\ hi' = base + pl_off + q + 4 + 16
                BY <2>1, <3>2, <4>1, <4>2
            <4>3. ASSUME NEW m \in Lengths,
                         hi' = CdrString(pl_off + q + 4, pl_off + q + 4 + n, m)
                  PROVE  hi' \in Nat /\ hi' <= base + len
                <5>1. m \in Nat
                    BY LengthsAssumption
                <5>2. hi' \in Nat /\ hi' <= base + (pl_off + q + 4 + n)
                    BY <2>1, <4>1, <4>3, <5>1, CdrStringBound
                <5>3. QED
                    BY <2>1, <3>2, <4>1, <5>2
            <4>4. QED
                BY <2>1, <3>2, <4>1, <4>2, <4>3
        <3>3. QED
            BY <1>2, <2>1, <3>1, <3>2 DEF SedpParam
    <2>3. pc' \in {"next", "param"}
        BY <1>2 DEF SedpParam
    <2>4. UNCHANGED <<caplen, base, len, off, next_off, pl_off, pl_len>>
        BY <1>2 DEF SedpParam
    <2>5. QED
        BY <2>1, <2>2, <2>3, <2>4
        DEF IInv, TypeOK, ReadsInside, PayloadInside, LimitInside
<1>3. QED
    BY <1>1, <1>2

\* Every step keeps the inductive invariant.
LEMMA NextInside == IInv /\ [Next]_vars => IInv'
<1>1. SUFFICES ASSUME IInv, [Next]_vars PROVE IInv'
    OBVIOUS
<1>2. CASE UNCHANGED vars
    <2>1. /\ pc' = pc /\ caplen' = caplen /\ base' = base /\ len' = len /\ hi' = hi
          /\ off' = off /\ next_off' = next_off /\ q' = q
          /\ pl_off' = pl_off /\ pl_len' = pl_len
        BY <1>2 DEF vars, walk
    <2>2. QED
        BY <1>1, <2>1 DEF IInv, TypeOK, ReadsInside, PayloadInside, LimitInside
<1>3. CASE Next
    BY <1>1, <1>2, <1>3, LinkInside, IpInside, UdpInside, MessageInside,
       DataInside, UserInside, SedpInside
    DEF Next, Step, Done
<1>4. QED
    BY <1>1, <1>2, <1>3

--------------------------------------------------------------------------------
\* The inductive invariant holds in every reachable state of inspector.cpp's walk.
THEOREM WalkInv == Spec => []IInv
BY InitInside, NextInside, PTL DEF Spec

\* Cursors and lengths never go below zero: no unsigned subtraction wraps around.
THEOREM WalkTypeOK == Spec => []TypeOK
<1>1. IInv => TypeOK
    BY DEF IInv
<1>2. QED
    BY <1>1, WalkInv, PTL

\* inspector.cpp reads no byte that is not in the capture and in the datagram.
THEOREM WalkReadsInside == Spec => []ReadsInside
<1>1. IInv => ReadsInside
    BY DEF IInv
<1>2. QED
    BY <1>1, WalkInv, PTL

\* decode_payload and decode_sedp get a slice of the message.
THEOREM WalkPayloadInside == Spec => []PayloadInside
<1>1. IInv => PayloadInside
    BY DEF IInv
<1>2. QED
    BY <1>1, WalkInv, PTL
================================================================================
