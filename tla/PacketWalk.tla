------------------------------ MODULE PacketWalk ------------------------------
(***************************************************************************)
(* How inspector.cpp takes a captured packet apart: packet_handler strips the *)
(* link layer, IP and UDP, handle_rtps walks the submessages of a RTPS        *)
(* message, decode_sedp the parameters of a SEDP sample.  The bytes of the    *)
(* packet are not kept: whatever a read may yield is tried.  What counts is    *)
(* how far each read reaches and where it leaves the cursors.                 *)
(***************************************************************************)
EXTENDS Integers

CONSTANTS
    CapLens,      \* hdr->caplen
    Ihls,         \* IP header lengths a packet may state, in words
    Lengths       \* values of the length fields in the packet

ASSUME LengthsAssumption ==
    CapLens \subseteq Nat /\ Ihls \subseteq 0..15 /\ Lengths \subseteq Nat

VARIABLES
    pc,           \* where in the code the packet is
    caplen,       \* bytes captured
    base,         \* start of the IP packet, the UDP datagram, the RTPS message
    len,          \* bytes from base on that belong to it
    off,          \* handle_rtps: the submessage, from base
    next_off,     \* the end of the submessage
    q,            \* cursor in a parameter list: inline QoS (from base), SEDP
                  \* (from pl_off)
    pl_off,       \* the serialized payload, from base
    pl_len,       \* and its length
    hi            \* where the last read ended, from the start of the packet

walk == <<off, next_off, q, pl_off, pl_len>>
vars == <<pc, caplen, base, len, walk, hi>>

Init ==
    /\ pc = "link"
    /\ caplen \in CapLens
    /\ base = 0
    /\ len = caplen
    /\ off = 0 /\ next_off = 0 /\ q = 0 /\ pl_off = 0 /\ pl_len = 0
    /\ hi = 0

Least(a, b) == IF a < b THEN a ELSE b

\* The packet is of no interest, or done with.
Leave == pc' = "done" /\ UNCHANGED <<caplen, base, len, walk>>

\* n bytes of the header at base have been read; what follows it, starting h
\* bytes further, is at most m bytes long.
Enter(next, h, m) ==
    /\ pc' = next
    /\ base' = base + h
    /\ len' = Least(m, len - h)
    /\ UNCHANGED <<caplen, walk>>

--------------------------------------------------------------------------------
(* packet_handler                                                            *)

Ethernet ==
    /\ pc = "link"
    /\ \/ len < 14 /\ hi' = hi /\ Leave
       \/ /\ len >= 14
          /\ \E vlan \in BOOLEAN :
               LET h == IF vlan /\ len >= 18 THEN 18 ELSE 14
               IN  hi' = h /\ (Leave \/ ((vlan => h = 18) /\ Enter("ip", h, len)))

\* DLT_NULL and DLT_LOOP: four bytes of address family.
Loopback ==
    /\ pc = "link"
    /\ \/ len < 4 /\ hi' = hi /\ Leave
       \/ len >= 4 /\ hi' = 4 /\ (Leave \/ Enter("ip", 4, len))

\* An IP header shorter than 20 bytes or longer than the capture is refused.
Ip ==
    /\ pc = "ip"
    /\ \/ len < 20 /\ hi' = hi /\ Leave
       \/ /\ len >= 20
          /\ hi' = base + 20
          /\ \/ Leave
             \/ \E n \in Ihls : 4 * n >= 20 /\ 4 * n <= len /\ Enter("udp", 4 * n, len)

\* Slip: what the UDP header says of the length is believed.
UdpTrusted ==
    /\ pc = "udp"
    /\ \/ len < 8 /\ hi' = hi /\ Leave
       \/ /\ len >= 8
          /\ hi' = base + 8
          /\ \/ Leave
             \/ \E n \in Lengths :
                  /\ n >= 8
                  /\ pc' = "rtps" /\ base' = base + 8 /\ len' = n - 8
                  /\ UNCHANGED <<caplen, walk>>

\* The UDP payload: as much of it as has been captured.
Udp ==
    /\ pc = "udp"
    /\ \/ len < 8 /\ hi' = hi /\ Leave
       \/ /\ len >= 8
          /\ hi' = base + 8
          /\ \/ Leave
             \/ \E n \in Lengths : n >= 8 /\ Enter("rtps", 8, n - 8)

--------------------------------------------------------------------------------
(* handle_rtps                                                               *)

\* A packet that is too short or has no magic is left, at most four bytes of
\* it being looked at, which --verbose does even if there are fewer than 20.
Header ==
    /\ pc = "rtps"
    /\ \/ hi' \in {hi, base + Least(len, 4)} /\ Leave
       \/ /\ len >= 20
          /\ hi' = base + 20
          /\ pc' = "submessage" /\ off' = 20
          /\ UNCHANGED <<caplen, base, len, next_off, q, pl_off, pl_len>>

\* Slip: a submessage of length 0 is taken to be empty.
NextOffEmpty(sm_len) == Least(len, IF sm_len = 0 THEN off ELSE off + 4 + sm_len)

\* Slip: a length that leads beyond the message is believed.
NextOffUncapped(sm_len) == IF sm_len = 0 THEN len ELSE off + 4 + sm_len

\* Length 0 means "to the end of the message".
NextOff(sm_len) == IF sm_len = 0 THEN len ELSE Least(len, off + 4 + sm_len)

\* The loop ends when no submessage header fits any more.
LastSubmessage == pc = "submessage" /\ off + 4 > len /\ hi' = hi /\ Leave

\* A submessage header: DATA, HEARTBEAT or another kind.
Submessage ==
    /\ pc = "submessage" /\ off + 4 <= len
    /\ hi' = base + off + 4
    /\ \E n \in Lengths : next_off' = NextOff(n)
    /\ pc' \in {"data", "heartbeat", "next"}
    /\ UNCHANGED <<caplen, base, len, off, q, pl_off, pl_len>>

NextSubmessage ==
    /\ pc = "next"
    /\ pc' = "submessage" /\ off' = next_off
    /\ UNCHANGED <<caplen, base, len, next_off, q, pl_off, pl_len, hi>>

Heartbeat ==
    /\ pc = "heartbeat"
    /\ hi' = IF off + 4 + 28 <= len THEN base + off + 4 + 8 ELSE hi
    /\ pc' = "next"
    /\ UNCHANGED <<caplen, base, len, walk>>

\* Slip: the fixed part of DATA is read whatever is left of the message.
DataUnchecked ==
    /\ pc = "data"
    /\ \E n \in Lengths :
         /\ hi' = base + off + 4 + 20
         /\ q' = off + 8 + n
         /\ pc' \in {"qos", "payload"}
    /\ UNCHANGED <<caplen, base, len, off, next_off, pl_off, pl_len>>

\* DATA: the fixed part, whose octetsToInlineQos n leads to inline QoS or, with
\* the Q flag clear, to the payload.
Data ==
    /\ pc = "data"
    /\ \/ /\ off + 4 + 20 > len
          /\ pc' = "next" /\ UNCHANGED <<hi, q>>
       \/ /\ off + 4 + 20 <= len
          /\ \E n \in Lengths :
               /\ hi' = base + off + 4 + 20
               /\ q' = off + 8 + n
               /\ pc' \in {"qos", "payload"}
    /\ UNCHANGED <<caplen, base, len, off, next_off, pl_off, pl_len>>

\* One inline QoS parameter of n bytes, perhaps the sentinel.
InlineQos ==
    /\ pc = "qos"
    /\ \/ q + 4 > next_off /\ pc' = "payload" /\ UNCHANGED <<q, hi>>
       \/ /\ q + 4 <= next_off
          /\ hi' = base + q + 4
          /\ \E n \in Lengths : q' = q + 4 + n
          /\ pc' \in {"qos", "payload"}
    /\ UNCHANGED <<caplen, base, len, off, next_off, pl_off, pl_len>>

\* Slip: a cursor beyond the submessage is not noticed.
PayloadLengthUnchecked == next_off - q

\* The payload is what is left of the submessage.
PayloadLength == IF q < next_off THEN next_off - q ELSE 0

\* Who gets the payload depends on the writer: nobody, decode_sedp or
\* decode_payload.
Payload ==
    /\ pc = "payload"
    /\ pl_off' = q
    /\ pl_len' = PayloadLength
    /\ pc' \in {"next"} \cup (IF PayloadLength > 0 THEN {"sedp", "user"} ELSE {})
    /\ UNCHANGED <<caplen, base, len, off, next_off, q, hi>>

\* cdr_string at position p of a buffer that ends at e, both from base: the
\* length field n, then n bytes, the last one (NUL) left out, unless they are
\* too many; where the read ends.
CdrString(p, e, n) == IF p + 4 > e THEN base + p
                      ELSE IF n = 0 \/ p + 4 + n > e THEN base + p + 4
                      ELSE base + p + 4 + n - 1

\* decode_payload: an integer, a string or, topic unknown, up to 24 bytes.
User ==
    /\ pc = "user"
    /\ \/ pl_len < 8 /\ hi' = hi
       \/ pl_len >= 8 /\ hi' = base + pl_off + 8
       \/ pl_len >= 8 /\ \E n \in Lengths : hi' = CdrString(pl_off + 4, pl_off + pl_len, n)
       \/ hi' = base + pl_off + Least(pl_len, 24)
    /\ pc' = "next"
    /\ UNCHANGED <<caplen, base, len, walk>>

--------------------------------------------------------------------------------
(* decode_sedp                                                               *)

SedpHeader ==
    /\ pc = "sedp"
    /\ \/ pl_len < 4 /\ pc' = "next" /\ UNCHANGED <<hi, q>>
       \/ pl_len >= 4 /\ hi' = base + pl_off + 4 /\ q' = 4 /\ pc' = "param"
    /\ UNCHANGED <<caplen, base, len, off, next_off, pl_off, pl_len>>

\* One parameter of n bytes: topic or type name, endpoint GUID, another one;
\* the list ends at the sentinel, at a parameter that does not fit, or at the
\* end of the payload.
SedpParam ==
    /\ pc = "param"
    /\ \/ q + 4 > pl_len /\ pc' = "next" /\ UNCHANGED <<hi, q>>
       \/ /\ q + 4 <= pl_len
          /\ pc' = "next" /\ hi' = base + pl_off + q + 4 /\ UNCHANGED q
       \/ /\ q + 4 <= pl_len
          /\ \E n \in Lengths :
               /\ q + 4 + n <= pl_len
               /\ \/ hi' = base + pl_off + q + 4
                  \/ n >= 16 /\ hi' = base + pl_off + q + 4 + 16
                  \/ \E m \in Lengths :
                       hi' = CdrString(pl_off + q + 4, pl_off + q + 4 + n, m)
               /\ q' = q + 4 + n
          /\ pc' = "param"
    /\ UNCHANGED <<caplen, base, len, off, next_off, pl_off, pl_len>>

--------------------------------------------------------------------------------
Step == \/ Ethernet \/ Loopback \/ Ip \/ Udp
        \/ Header \/ LastSubmessage \/ Submessage \/ NextSubmessage
        \/ Heartbeat \/ Data \/ InlineQos \/ Payload \/ User
        \/ SedpHeader \/ SedpParam

Done == pc = "done" /\ UNCHANGED vars

Next == Step \/ Done

\* The code runs: it is a single thread that waits for nothing here.
Spec == Init /\ [][Next]_vars /\ WF_vars(Step)

--------------------------------------------------------------------------------
(* Properties.                                                               *)

\* Cursors and lengths are natural numbers: the unsigned subtractions of the
\* code (cap - 14, udp_pl_len - 8, next_off - pl_off) never wrap around.
TypeOK ==
    /\ pc \in {"link", "ip", "udp", "rtps", "submessage", "next", "heartbeat",
               "data", "qos", "payload", "user", "sedp", "param", "done"}
    /\ caplen \in Nat /\ base \in Nat /\ len \in Nat
    /\ off \in Nat /\ next_off \in Nat /\ q \in Nat
    /\ pl_off \in Nat /\ pl_len \in Nat /\ hi \in Nat

\* No read leaves the captured packet, nor, once the datagram is known, the
\* RTPS message: whatever the length fields of frame, header, submessage,
\* parameter and string say.
ReadsInside == hi <= base + len /\ base + len <= caplen

\* The payload handed to a decoder lies inside the message, and the cursor of
\* its parameter list inside the payload.
PayloadInside ==
    /\ pc \in {"user", "sedp", "param"} => pl_off + pl_len <= len
    /\ pc = "param" => q <= pl_len

\* Every packet is left behind in the end: no submessage or parameter length
\* makes a loop stand still.
Terminates == <>(pc = "done")
================================================================================
