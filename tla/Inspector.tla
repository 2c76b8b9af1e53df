------------------------------- MODULE Inspector -------------------------------
(***************************************************************************)
(* inspector.cpp at the level of RTPS messages: what it learns from SEDP and  *)
(* what it prints, next to the CycloneDDS participants whose traffic it       *)
(* sees.  It opens several interfaces, which it empties one after the other,   *)
(* starts at any time, and may lose packets.  How a packet is taken apart is  *)
(* in PacketWalk; here a packet has one submessage, since several are handled *)
(* like packets that follow each other on one interface.                      *)
(***************************************************************************)
EXTENDS Integers, Sequences, FiniteSets

CONSTANTS
    Parts,        \* participants (GUID prefixes): one per running program
    Endpoints,    \* endpoints of the programs (GUIDs)
    Owner,        \* the participant of an endpoint
    Topic,        \* its topic name
    IsPub,        \* whether it is a writer
    Unknown,      \* "(unknown - SEDP not yet seen)"
    Ifaces,       \* captured interfaces: lo0, en0
    MaxWire       \* bound: packets waiting on an interface

ASSUME InspectorAssumption ==
    /\ Owner \in [Endpoints -> Parts]
    /\ IsPub \in [Endpoints -> BOOLEAN]
    /\ Unknown \notin {Topic[e] : e \in Endpoints}
    /\ Endpoints \cap Parts = {}
    /\ MaxWire \in Nat \ {0}

Modes == {"both", "reannounce", "traffic"}

VARIABLES
    g_print_mode, \* from the command line
    created,      \* endpoints created: their SEDP sample is in the writer's cache
    closed,       \* those deleted since: the sample is the one of the deletion
    peers,        \* participants whose SEDP readers a participant's writers matched
    wire,         \* by interface: packets captured and not yet dispatched
    handles,      \* interfaces the inspector captures; none: it does not run
    missed,       \* endpoints of which an announcement was sent and not captured
    heard,        \* endpoints of which an announcement has been dispatched
    news,         \* how often an endpoint has been printed as NEW
    g_endpoints,  \* the map GUID -> topic
    line          \* what the last dispatched packet made it print

traffic == <<created, closed, peers>>
learnt  == <<heard, news, g_endpoints>>
vars    == <<g_print_mode, traffic, wire, handles, missed, learnt, line>>

\* What a DATA submessage carries, as far as the inspector asks: serialized data
\* (flag D), and in the parameter list of SEDP the endpoint's GUID and topic.
Plain        == {"data"}
Announcement == {"data", "guid", "topic"}
Deletion     == {"guid"}     \* key only: flag K in place of D

Packet(kind, from, has) == [kind |-> kind, from |-> from, has |-> has]
Line(kind, from, topic) == [kind |-> kind, from |-> from, topic |-> topic]
Nothing == [kind |-> "none"]

Init ==
    /\ g_print_mode \in Modes
    /\ created = {}
    /\ closed = {}
    /\ peers = [p \in Parts |-> {}]
    /\ wire = [i \in Ifaces |-> <<>>]
    /\ handles = {}
    /\ missed = {}
    /\ heard = {}
    /\ news = [e \in Endpoints |-> 0]
    /\ g_endpoints = <<>>
    /\ line = Nothing

--------------------------------------------------------------------------------
(* The traffic of CycloneDDS.                                                *)

\* A packet passes one interface or several (multicast, loopback); it is seen
\* where the inspector has a handle.
Send(pkt) ==
    /\ \E passes \in SUBSET Ifaces \ {{}} :
         LET seenOn == passes \cap handles
         IN  /\ \A i \in seenOn : Len(wire[i]) < MaxWire
             /\ wire' = [i \in Ifaces |-> IF i \in seenOn THEN Append(wire[i], pkt) ELSE wire[i]]
             /\ missed' = IF "topic" \in pkt.has /\ seenOn = {} THEN missed \cup {pkt.from}
                                                                ELSE missed
    /\ UNCHANGED <<handles, learnt, line>>

\* spdp_write and its periodic repetition.
Spdp(p) == Send(Packet("SPDP", p, Plain)) /\ UNCHANGED traffic

\* Two participants have discovered each other: p's SEDP writers match q.
Match(p, q) ==
    /\ p # q /\ q \notin peers[p]
    /\ peers' = [peers EXCEPT ![p] = @ \cup {q}]
    /\ UNCHANGED <<created, closed, wire, handles, missed, learnt, line>>

\* The sample of an endpoint that is in the cache of its participant's SEDP writer.
SedpSample(e) == Packet("SEDP", e, IF e \in closed THEN Deletion ELSE Announcement)

\* sedp_write_writer / _reader: kept for later peers, sent to present ones.
Create(e) ==
    /\ e \notin created
    /\ created' = created \cup {e}
    /\ IF peers[Owner[e]] = {}
         THEN UNCHANGED <<wire, handles, missed, learnt, line>>
         ELSE Send(SedpSample(e))
    /\ UNCHANGED <<closed, peers>>

\* sedp_dispose_unregister_writer / _reader: a sample of the key alone takes the
\* place of the announcement.
Close(e) ==
    /\ e \in created \ closed
    /\ closed' = closed \cup {e}
    /\ IF peers[Owner[e]] = {}
         THEN UNCHANGED <<wire, handles, missed, learnt, line>>
         ELSE Send(Packet("SEDP", e, Deletion))
    /\ UNCHANGED <<created, peers>>

\* A matched writer sends heartbeats from 1 ms after the match until every
\* reader has answered, whether or not it has samples.
Heartbeat(p) == peers[p] # {} /\ Send(Packet("HB", p, {})) /\ UNCHANGED traffic

\* The answer to a peer's AckNack: a sample from the SEDP writer's cache.
Retransmit(e) ==
    /\ e \in created /\ peers[Owner[e]] # {}
    /\ Send(SedpSample(e)) /\ UNCHANGED traffic

\* A user sample for a reader of the topic that has been discovered, and whose
\* deletion may not have been heard of.
Data(e) ==
    /\ e \in created \ closed /\ IsPub[e]
    /\ \E f \in created : ~IsPub[f] /\ Topic[f] = Topic[e] /\ Owner[f] \in peers[Owner[e]]
    /\ Send(Packet("DATA", e, Plain)) /\ UNCHANGED traffic

\* handle_xevk_pmd_update: the participant asserts its liveliness by a sample
\* of the builtin writer 0x200c2.
Pmd(p) == peers[p] # {} /\ Send(Packet("PMD", p, Plain)) /\ UNCHANGED traffic

--------------------------------------------------------------------------------
(* The inspector.                                                            *)

\* main: an interface that cannot be opened or filtered is skipped; with none
\* left main returns, and may be run again.
StartCapture ==
    /\ handles = {}
    /\ handles' \in SUBSET Ifaces \ {{}}
    /\ UNCHANGED <<traffic, wire, missed, learnt, line>>

\* The kernel's capture buffer was full.
Lose(i) ==
    /\ wire[i] # <<>>
    /\ wire' = [wire EXCEPT ![i] = Tail(@)]
    /\ missed' = LET pkt == Head(wire[i])
                 IN  IF "topic" \in pkt.has THEN missed \cup {pkt.from} ELSE missed
    /\ UNCHANGED <<traffic, handles, learnt, line>>

\* Slip: the endpoint is filed under the GUID of the SEDP writer.
FiledUnderSender(pkt) == Owner[pkt.from]

\* decode_sedp: pid_endpoint_guid is the key, else the GUID of the SEDP writer
\* that sent the sample, here named by its participant.
FiledUnder(pkt) == IF "guid" \in pkt.has THEN pkt.from ELSE Owner[pkt.from]

\* Slip: decode_sedp returns early in the mode that does not print discovery.
RegisterIfShown(key, topic) ==
    g_endpoints' = IF g_print_mode = "traffic" THEN g_endpoints
                   ELSE [f \in DOMAIN g_endpoints \cup {key} |->
                           IF f = key THEN topic ELSE g_endpoints[f]]

\* g_endpoints[guid_str] = ...: a new entry or another value for the old one.
Register(key, topic) ==
    g_endpoints' = [f \in DOMAIN g_endpoints \cup {key} |->
                      IF f = key THEN topic ELSE g_endpoints[f]]

\* Slip: the map is asked after the endpoint was put into it.
ReannouncedLate(key) == TRUE

\* The map is asked before the endpoint is put into it.
Reannounced(key) == key \in DOMAIN g_endpoints

\* decode_sedp: without a topic nothing is learnt (the list may be cut short or
\* empty); otherwise the endpoint is registered, and is NEW if it has no entry.
DecodeSedp(pkt) ==
    LET key   == FiledUnder(pkt)
        topic == Topic[pkt.from]
        kind  == IF Reannounced(key) THEN "RE-ANNOUNCE" ELSE "NEW"
        show  == g_print_mode # "traffic"
    IN  IF "topic" \notin pkt.has THEN line' = Nothing /\ UNCHANGED learnt
        ELSE /\ Register(key, topic)
             /\ heard' = heard \cup {pkt.from}
             /\ line' = IF show THEN Line(kind, pkt.from, topic) ELSE Nothing
             /\ news' = IF show /\ kind = "NEW" THEN [news EXCEPT ![pkt.from] = @ + 1]
                                                ELSE news

\* The branch of handle_rtps for whatever is neither SPDP nor SEDP.
UserData(guid) ==
    /\ line' = IF g_print_mode = "reannounce" THEN Nothing
               ELSE Line("DATA", guid,
                         IF guid \in DOMAIN g_endpoints THEN g_endpoints[guid] ELSE Unknown)
    /\ UNCHANGED learnt

\* handle_rtps, classification by submessage and writer entity id.  Only SPDP is
\* shown whatever it carries; "data" stands for flag D with a payload.
HandleRtps(pkt) ==
    \/ pkt.kind = "SPDP" /\ line' = (IF g_print_mode = "traffic" THEN Nothing
                                     ELSE Line("SPDP", pkt.from, Unknown))
                         /\ UNCHANGED learnt
    \/ pkt.kind = "SEDP" /\ "data" \in pkt.has /\ DecodeSedp(pkt)
    \/ pkt.kind \in {"DATA", "PMD"} /\ "data" \in pkt.has /\ UserData(pkt.from)
    \/ pkt.kind \notin {"SPDP", "HB"} /\ "data" \notin pkt.has
        /\ line' = Nothing /\ UNCHANGED learnt
    \/ pkt.kind = "HB" /\ line' = (IF DOMAIN g_endpoints = {} /\ g_print_mode # "traffic"
                                     THEN Line("MISSED", pkt.from, Unknown) ELSE Nothing)
                       /\ UNCHANGED learnt

\* pcap_dispatch on one interface.
Dispatch(i) ==
    /\ wire[i] # <<>>
    /\ HandleRtps(Head(wire[i]))
    /\ wire' = [wire EXCEPT ![i] = Tail(@)]
    /\ UNCHANGED <<traffic, handles, missed>>

Next ==
    /\ \/ \E p \in Parts : Spdp(p) \/ Heartbeat(p) \/ Pmd(p) \/ \E q \in Parts : Match(p, q)
       \/ \E e \in Endpoints : Create(e) \/ Close(e) \/ Retransmit(e) \/ Data(e)
       \/ StartCapture
       \/ \E i \in Ifaces : Lose(i) \/ Dispatch(i)
    /\ UNCHANGED g_print_mode

Spec == Init /\ [][Next]_vars

--------------------------------------------------------------------------------
(* Properties.                                                               *)

\* Every variable has its type; the map is keyed by the GUIDs of user endpoints.
TypeOK ==
    /\ g_print_mode \in Modes
    /\ created \in SUBSET Endpoints
    /\ closed \in SUBSET created
    /\ peers \in [Parts -> SUBSET Parts]
    /\ \A i \in Ifaces : Len(wire[i]) <= MaxWire
    /\ handles \in SUBSET Ifaces
    /\ missed \in SUBSET Endpoints
    /\ heard \in SUBSET Endpoints
    /\ DOMAIN g_endpoints \subseteq Endpoints

\* A line of user data names the topic its writer publishes, as soon as one
\* announcement of that writer has been dispatched, and never a wrong one, in
\* whatever order the interfaces are emptied, whatever was lost, and also when
\* the writer's deletion was overtaken by its last samples (inspector.cpp:372-374).
TopicsResolved ==
    line.kind = "DATA" /\ line.from \in Endpoints =>
        /\ line.topic \in {Topic[line.from], Unknown}
        /\ line.from \in heard => line.topic = Topic[line.from]

\* NEW (inspector.cpp:205) is printed exactly once for each endpoint an
\* announcement has been dispatched of, however often it is repeated, captured
\* on two interfaces or overtaken by the endpoint's deletion.
NewOnce ==
    \A e \in Endpoints :
        news[e] = IF e \in heard /\ g_print_mode # "traffic" THEN 1 ELSE 0

\* inspector.cpp:15: "--traffic: print only user-data DDS messages".
UserDataOnly ==
    g_print_mode = "traffic" /\ line.kind = "DATA" => line.from \in Endpoints

\* inspector.cpp:397-398: "SEDP DATA was missed. Inspector started after
\* discovery completed."
MissedIsTrue == line.kind = "MISSED" => missed # {}
================================================================================
