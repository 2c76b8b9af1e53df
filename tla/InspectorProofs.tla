---------------------------- MODULE InspectorProofs ----------------------------
(***************************************************************************)
(* What the inspector says of topics and of new endpoints is right for every *)
(* number of programs, endpoints and interfaces and every length of the      *)
(* capture queues.  The argument: whatever waits on an interface was sent by *)
(* somebody entitled to send it (Captured), announcements with the endpoint's *)
(* GUID and topic, and the map holds exactly the endpoints of which one was   *)
(* dispatched, each with its own topic (Known); both lines follow from the    *)
(* map.                                                                      *)
(***************************************************************************)
EXTENDS Inspector, TLAPS

\* Participants send SPDP, heartbeats and liveliness; endpoints are announced
\* and their deletion is, and they publish.
Packets == [kind : {"SPDP", "HB", "PMD"}, from : Parts, has : {Plain, {}}]
             \cup [kind : {"SEDP"}, from : Endpoints, has : {Announcement, Deletion}]
             \cup [kind : {"DATA"}, from : Endpoints, has : {Plain}]

Captured == wire \in [Ifaces -> Seq(Packets)]

Known == /\ DOMAIN g_endpoints = heard
         /\ \A e \in heard : g_endpoints[e] = Topic[e]

Typed == /\ g_print_mode \in Modes
         /\ created \in SUBSET Endpoints
         /\ closed \in SUBSET created
         /\ peers \in [Parts -> SUBSET Parts]
         /\ \A i \in Ifaces : Len(wire[i]) <= MaxWire
         /\ handles \in SUBSET Ifaces
         /\ missed \in SUBSET Endpoints
         /\ heard \in SUBSET Endpoints
         /\ news \in [Endpoints -> Nat]

IInv == Typed /\ Captured /\ Known /\ NewOnce /\ TopicsResolved

\* A topic is told by an announcement of an endpoint, and with its GUID.
LEMMA AnnouncedByEndpoint ==
    ASSUME NEW pkt \in Packets
    PROVE  "topic" \in pkt.has => pkt.from \in Endpoints /\ "guid" \in pkt.has
<1>1. "topic" \notin Plain /\ "topic" \notin {} /\ "topic" \notin Deletion
    BY DEF Plain, Deletion
<1>2. "guid" \in Announcement
    BY DEF Announcement
<1> QED  BY <1>1, <1>2 DEF Packets

\* A packet somebody may send keeps the captured traffic well formed.
LEMMA SendKeeps ==
    ASSUME Typed, Captured, NEW pkt \in Packets, Send(pkt)
    PROVE  /\ Captured'
           /\ \A i \in Ifaces : Len(wire'[i]) <= MaxWire
           /\ missed' \in SUBSET Endpoints
           /\ UNCHANGED <<handles, learnt, line>>
<1> USE InspectorAssumption
<1>1. PICK passes \in SUBSET Ifaces \ {{}} :
        LET seenOn == passes \cap handles
        IN  /\ \A i \in seenOn : Len(wire[i]) < MaxWire
            /\ wire' = [i \in Ifaces |-> IF i \in seenOn THEN Append(wire[i], pkt) ELSE wire[i]]
            /\ missed' = IF "topic" \in pkt.has /\ seenOn = {} THEN missed \cup {pkt.from}
                                                               ELSE missed
    BY DEF Send
<1> DEFINE seenOn == passes \cap handles
<1>2. ASSUME NEW i \in Ifaces
      PROVE  /\ wire'[i] \in Seq(Packets)
             /\ Len(wire'[i]) <= MaxWire
  <2>1. wire[i] \in Seq(Packets) /\ Len(wire[i]) \in Nat /\ Len(wire[i]) <= MaxWire
      BY DEF Captured, Typed
  <2>2. CASE i \in seenOn
    <3>1. wire'[i] = Append(wire[i], pkt) /\ Len(wire[i]) < MaxWire
        BY <1>1, <2>2
    <3> QED  BY <2>1, <3>1
  <2>3. CASE i \notin seenOn
    <3>1. wire'[i] = wire[i]
        BY <1>1, <2>3
    <3> QED  BY <2>1, <3>1
  <2> QED  BY <2>2, <2>3
<1>3. Captured'
  <2>1. wire' = [i \in Ifaces |-> wire'[i]]
      BY <1>1
  <2> QED  BY <1>2, <2>1 DEF Captured
<1>4. missed' \in SUBSET Endpoints
  <2>1. "topic" \in pkt.has => pkt.from \in Endpoints
      BY AnnouncedByEndpoint
  <2> QED  BY <1>1, <2>1 DEF Typed
<1> QED  BY <1>2, <1>3, <1>4 DEF Send

\* The packet that leaves a queue is well formed, and so is what stays.
LEMMA TailKeeps ==
    ASSUME Typed, Captured, NEW i \in Ifaces, wire[i] # <<>>,
           wire' = [wire EXCEPT ![i] = Tail(@)]
    PROVE  /\ Head(wire[i]) \in Packets
           /\ Captured'
           /\ \A j \in Ifaces : Len(wire'[j]) <= MaxWire
<1> USE InspectorAssumption
<1>1. wire[i] \in Seq(Packets)
    BY DEF Captured
<1>2. /\ Head(wire[i]) \in Packets
      /\ Tail(wire[i]) \in Seq(Packets)
      /\ Len(Tail(wire[i])) = Len(wire[i]) - 1
      /\ Len(wire[i]) \in Nat
    BY <1>1
<1>3. \A j \in Ifaces : wire'[j] = IF j = i THEN Tail(wire[i]) ELSE wire[j]
    BY DEF Captured
<1>4. Captured'
    BY <1>2 DEF Captured
<1>5. \A j \in Ifaces : Len(wire'[j]) <= MaxWire
    BY <1>2, <1>3 DEF Typed
<1> QED  BY <1>2, <1>4, <1>5

\* Registering an endpoint keeps the map exact and counts it as NEW only once.
LEMMA DecodeKeeps ==
    ASSUME IInv, NEW pkt \in Packets, "topic" \in pkt.has, DecodeSedp(pkt),
           UNCHANGED g_print_mode
    PROVE  /\ heard' \in SUBSET Endpoints
           /\ news' \in [Endpoints -> Nat]
           /\ Known' /\ NewOnce' /\ TopicsResolved'
<1>a. PICK e \in Endpoints : e = pkt.from
    BY AnnouncedByEndpoint
<1>1. FiledUnder(pkt) = e
    BY <1>a, AnnouncedByEndpoint DEF FiledUnder
<1>2. heard' = heard \cup {e}
    BY <1>a DEF DecodeSedp
<1>3. Register(e, Topic[e])
    BY <1>a, <1>1 DEF DecodeSedp
<1>4. g_endpoints' = [f \in heard \cup {e} |-> IF f = e THEN Topic[e] ELSE g_endpoints[f]]
    BY <1>3 DEF Register, IInv, Known
<1>5. Known'
    BY <1>2, <1>4 DEF IInv, Known
<1>6. news' = IF g_print_mode # "traffic" /\ e \notin heard
                THEN [news EXCEPT ![e] = @ + 1] ELSE news
    BY <1>a, <1>1 DEF DecodeSedp, Reannounced, IInv, Known
<1>7. line'.kind # "DATA"
    BY DEF DecodeSedp, Line, Nothing
<1>8. news' \in [Endpoints -> Nat]
    BY <1>6 DEF IInv, Typed
<1>9. NewOnce'
    BY <1>2, <1>6 DEF IInv, Typed, NewOnce
<1> QED  BY <1>2, <1>5, <1>7, <1>8, <1>9 DEF IInv, Typed, TopicsResolved

\* Whatever is dispatched, the map stays exact and the line printed is right.
LEMMA HandleKeeps ==
    ASSUME IInv, NEW pkt \in Packets, HandleRtps(pkt), UNCHANGED g_print_mode
    PROVE  /\ heard' \in SUBSET Endpoints
           /\ news' \in [Endpoints -> Nat]
           /\ Known' /\ NewOnce' /\ TopicsResolved'
<1>1. CASE "topic" \in pkt.has /\ DecodeSedp(pkt)
    BY <1>1, DecodeKeeps
<1>2. CASE pkt.kind \in {"DATA", "PMD"} /\ UserData(pkt.from)
  <2>1. UNCHANGED <<heard, news, g_endpoints>>
      BY <1>2 DEF UserData, learnt
  <2>2. TopicsResolved'
      BY <1>2, <2>1 DEF UserData, Line, Nothing, TopicsResolved, IInv, Known
  <2> QED  BY <2>1, <2>2 DEF IInv, Typed, Known, NewOnce
<1>3. CASE UNCHANGED learnt /\ line'.kind # "DATA"
    BY <1>3 DEF IInv, Typed, Known, NewOnce, TopicsResolved, learnt
<1>4. pkt.kind = "SPDP" /\ line' = (IF g_print_mode = "traffic" THEN Nothing
                                    ELSE Line("SPDP", pkt.from, Unknown))
        => line'.kind # "DATA"
    BY DEF Line, Nothing
<1>5. pkt.kind = "HB" /\ line' = (IF DOMAIN g_endpoints = {} /\ g_print_mode # "traffic"
                                    THEN Line("MISSED", pkt.from, Unknown) ELSE Nothing)
        => line'.kind # "DATA"
    BY DEF Line, Nothing
<1>6. "topic" \notin pkt.has /\ DecodeSedp(pkt) => UNCHANGED learnt /\ line' = Nothing
    BY DEF DecodeSedp
<1>7. line' = Nothing => line'.kind # "DATA"
    BY DEF Nothing
<1> QED  BY <1>1, <1>2, <1>3, <1>4, <1>5, <1>6, <1>7 DEF HandleRtps

\* What learns nothing and prints nothing keeps the rest of the invariant.
LEMMA SilentKeeps ==
    ASSUME IInv, UNCHANGED <<g_print_mode, learnt, line>>
    PROVE  /\ heard' \in SUBSET Endpoints
           /\ news' \in [Endpoints -> Nat]
           /\ Known' /\ NewOnce' /\ TopicsResolved'
BY DEF IInv, Typed, Known, NewOnce, TopicsResolved, learnt

LEMMA InvInit == Init => IInv
<1> SUFFICES ASSUME Init PROVE IInv
    OBVIOUS
<1> USE InspectorAssumption DEF Init
<1>1. Captured
    BY DEF Captured
<1>2. Typed
  <2>1. \A i \in Ifaces : wire[i] = <<>> /\ Len(wire[i]) = 0
      OBVIOUS
  <2> QED  BY <2>1 DEF Typed, Modes
<1>3. Known
    BY DEF Known
<1>4. NewOnce /\ TopicsResolved
    BY DEF NewOnce, TopicsResolved, Nothing
<1> QED  BY <1>1, <1>2, <1>3, <1>4 DEF IInv

LEMMA InvNext == IInv /\ [Next]_vars => IInv'
<1> SUFFICES ASSUME IInv, [Next]_vars PROVE IInv'
    OBVIOUS
<1> USE InspectorAssumption
<1>a. Typed /\ Captured
    BY DEF IInv
<1>b. ASSUME NEW pkt \in Packets, Send(pkt), UNCHANGED <<g_print_mode, peers>>,
             created' \in SUBSET Endpoints, closed' \in SUBSET created'
      PROVE  IInv'
  <2>1. UNCHANGED <<g_print_mode, learnt, line>>
      BY <1>b DEF Send
  <2> QED  BY <1>a, <1>b, <2>1, SendKeeps, SilentKeeps DEF IInv, Typed, Send
<1>1. CASE UNCHANGED vars
    BY <1>1 DEF vars, traffic, learnt, IInv, Typed, Captured, Known, NewOnce, TopicsResolved
<1>2. CASE Next
  <2>a. UNCHANGED g_print_mode
      BY <1>2 DEF Next
  <2>1. ASSUME NEW p \in Parts, Spdp(p) \/ Heartbeat(p) \/ Pmd(p)
        PROVE  IInv'
    <3>1. \E kind \in {"SPDP", "HB", "PMD"}, has \in {Plain, {}} :
            Send(Packet(kind, p, has))
        BY <2>1 DEF Spdp, Heartbeat, Pmd
    <3>2. \A kind \in {"SPDP", "HB", "PMD"}, has \in {Plain, {}} :
            Packet(kind, p, has) \in Packets
        BY DEF Packet, Packets
    <3>3. UNCHANGED <<created, closed, peers>>
        BY <2>1 DEF Spdp, Heartbeat, Pmd, traffic
    <3> QED  BY <1>a, <1>b, <2>a, <3>1, <3>2, <3>3 DEF Typed
  <2>2. ASSUME NEW p \in Parts, NEW q \in Parts, Match(p, q)
        PROVE  IInv'
    <3>1. peers' \in [Parts -> SUBSET Parts]
        BY <1>a, <2>2 DEF Match, Typed
    <3> QED  BY <1>a, <2>a, <2>2, <3>1, SilentKeeps DEF Match, Typed, Captured, IInv
  <2>b. \A e \in Endpoints : /\ SedpSample(e) \in Packets
                             /\ Packet("SEDP", e, Deletion) \in Packets
                             /\ Packet("DATA", e, Plain) \in Packets
      BY DEF SedpSample, Packet, Packets
  <2>3. ASSUME NEW e \in Endpoints, Create(e)
        PROVE  IInv'
    <3>1. /\ created' \in SUBSET Endpoints
          /\ closed' \in SUBSET created'
          /\ UNCHANGED <<closed, peers>>
        BY <1>a, <2>3 DEF Create, Typed
    <3>2. CASE UNCHANGED <<wire, handles, missed, learnt, line>>
        BY <1>a, <2>a, <3>1, <3>2, SilentKeeps DEF Typed, Captured, IInv
    <3>3. CASE Send(SedpSample(e))
        BY <1>b, <2>a, <2>b, <3>1, <3>3
    <3> QED  BY <2>3, <3>2, <3>3 DEF Create
  <2>4. ASSUME NEW e \in Endpoints, Close(e)
        PROVE  IInv'
    <3>1. /\ created' \in SUBSET Endpoints
          /\ closed' \in SUBSET created'
          /\ UNCHANGED <<created, peers>>
        BY <1>a, <2>4 DEF Close, Typed
    <3>2. CASE UNCHANGED <<wire, handles, missed, learnt, line>>
        BY <1>a, <2>a, <3>1, <3>2, SilentKeeps DEF Typed, Captured, IInv
    <3>3. CASE Send(Packet("SEDP", e, Deletion))
        BY <1>b, <2>a, <2>b, <3>1, <3>3
    <3> QED  BY <2>4, <3>2, <3>3 DEF Close
  <2>5. ASSUME NEW e \in Endpoints, Retransmit(e) \/ Data(e)
        PROVE  IInv'
    <3>1. Send(SedpSample(e)) \/ Send(Packet("DATA", e, Plain))
        BY <2>5 DEF Retransmit, Data
    <3>2. UNCHANGED <<created, closed, peers>>
        BY <2>5 DEF Retransmit, Data, traffic
    <3> QED  BY <1>a, <1>b, <2>a, <2>b, <3>1, <3>2 DEF Typed
  <2>6. CASE StartCapture
    <3>1. UNCHANGED <<g_print_mode, learnt, line>>
        BY <2>a, <2>6 DEF StartCapture
    <3> QED  BY <1>a, <2>a, <2>6, <3>1, SilentKeeps
             DEF StartCapture, traffic, Typed, Captured, IInv
  <2>7. ASSUME NEW i \in Ifaces, Lose(i)
        PROVE  IInv'
    <3>1. /\ Head(wire[i]) \in Packets
          /\ Captured'
          /\ \A j \in Ifaces : Len(wire'[j]) <= MaxWire
        BY <1>a, <2>7, TailKeeps DEF Lose
    <3>2. missed' \in SUBSET Endpoints
      <4>1. "topic" \in Head(wire[i]).has => Head(wire[i]).from \in Endpoints
          BY <3>1, AnnouncedByEndpoint
      <4> QED  BY <1>a, <2>7, <4>1 DEF Lose, Typed
    <3>3. UNCHANGED <<g_print_mode, learnt, line>>
        BY <2>a, <2>7 DEF Lose
    <3> QED  BY <1>a, <2>a, <2>7, <3>1, <3>2, <3>3, SilentKeeps
             DEF Lose, traffic, Typed, IInv
  <2>8. ASSUME NEW i \in Ifaces, Dispatch(i)
        PROVE  IInv'
    <3>1. /\ Head(wire[i]) \in Packets
          /\ Captured'
          /\ \A j \in Ifaces : Len(wire'[j]) <= MaxWire
        BY <1>a, <2>8, TailKeeps DEF Dispatch
    <3>2. /\ heard' \in SUBSET Endpoints
          /\ news' \in [Endpoints -> Nat]
          /\ Known' /\ NewOnce' /\ TopicsResolved'
        BY <2>a, <2>8, <3>1, HandleKeeps DEF Dispatch
    <3> QED  BY <1>a, <2>a, <2>8, <3>1, <3>2 DEF Dispatch, traffic, Typed, IInv
  <2> QED  BY <1>2, <2>1, <2>2, <2>3, <2>4, <2>5, <2>6, <2>7, <2>8 DEF Next
<1> QED  BY <1>1, <1>2

LEMMA Inductive == Spec => []IInv
BY InvInit, InvNext, PTL DEF Spec

\* The variables keep their types, and the map is keyed by user endpoints only
\* (inspector.cpp:203-206): no packet puts another key into it.
THEOREM TypeCorrect == Spec => []TypeOK
<1>1. IInv => TypeOK
    BY DEF IInv, Typed, Known, TypeOK
<1> QED  BY <1>1, Inductive, PTL

\* A line of user data never names a wrong topic, and names the right one as
\* soon as an announcement of the writer was dispatched (inspector.cpp:343-367).
THEOREM TopicsAreResolved == Spec => []TopicsResolved
<1>1. IInv => TopicsResolved
    BY DEF IInv
<1> QED  BY <1>1, Inductive, PTL

\* NEW is printed once per endpoint, whatever is repeated or captured twice
\* (inspector.cpp:205-222).
THEOREM NewIsPrintedOnce == Spec => []NewOnce
<1>1. IInv => NewOnce
    BY DEF IInv
<1> QED  BY <1>1, Inductive, PTL
================================================================================
