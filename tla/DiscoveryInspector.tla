--------------------------- MODULE DiscoveryInspector ---------------------------
(***************************************************************************)
(* bazel-dds/inspector.cpp: the inspector that is a DDS participant itself.   *)
(* It mirrors the builtin topics of CycloneDDS in a map of endpoints and      *)
(* echoes the samples of the user topics it has readers for.                  *)
(*                                                                           *)
(* CycloneDDS serves the builtin topics from its entity index: a new entity   *)
(* is indexed, written as alive and then matched; one that goes is written    *)
(* as dead, removed from the index and, by the garbage collector, unmatched.  *)
(* A reader that is opened in the middle of this is given what the index      *)
(* holds.  Threads of CycloneDDS do the former, the program's thread the      *)
(* latter.  The waitset is a set of readers here: WaitSet has the detail and  *)
(* implements what Wait and Fairness assume.                                  *)
(***************************************************************************)
EXTENDS Integers, Sequences, FiniteSets

CONSTANTS
    Entities,     \* GUIDs of participants and endpoints
    Kind,         \* "par", "pub" or "sub"
    Topic,        \* the topic of an endpoint
    Own,          \* the inspector's own readers of user topics
    MaxTake,      \* N, the length of the arrays given to dds_take (16)
    MaxLives,     \* bound: how often each entity appears
    MaxMessages,  \* bound: user samples that arrive at a reader
    Nobody        \* no entity

ASSUME DiscoveryAssumption ==
    /\ IsFiniteSet(Entities)
    /\ Kind \in [Entities -> {"par", "pub", "sub"}]
    /\ Own \subseteq {e \in Entities : Kind[e] = "sub"}
    /\ Nobody \notin Entities
    /\ MaxTake \in Nat \ {0}
    /\ MaxLives \in [Entities -> Nat \ {0}]

Builtin == <<"par", "pub", "sub">>
Kinds   == {"par", "pub", "sub"}
Remote  == Entities \ Own

VARIABLES
    index,        \* entities in gv->entity_index
    announcing,   \* indexed by a receive thread that has yet to write it as alive
    deleting,     \* written as dead by the owner of gv->lock, still indexed
    dropping,     \* removed from the index, with matches the gc has yet to drop
    life,         \* how often an entity has been indexed
    open,         \* builtin topics with a reader
    inst,         \* the instance of an entity in the builtin reader's cache
    queue,        \* by reader: instances with something to take, in order
    ghosts,       \* entities whose last word to the reader was a belated "alive"
    matches,      \* rd->writers: by own reader, the GUIDs of its writers
    box,          \* by own reader: its cache of one sample
    arrived,      \* by own reader: samples that have arrived
    pc, k,        \* where main is, and with which builtin reader
    pending,      \* entities the history of a new reader has yet to visit
    todo,         \* readers dds_waitset_wait has returned and not yet handled
    g_endpoints,  \* the map GUID -> topic, is_publisher
    hand,         \* the sample drain_msg has taken and not yet printed
    line,         \* the last line printed about a message
    echoed        \* by own reader: number of the last sample printed

ddsVars  == <<index, announcing, deleting, dropping, life>>
feedVars == <<inst, queue, ghosts>>
userVars == <<matches, box, arrived>>
outVars  == <<hand, line, echoed>>
vars     == <<ddsVars, open, feedVars, userVars, pc, k, pending, todo, g_endpoints, outVars>>

Nothing == [kind |-> "nothing"]
Notice  == [kind |-> "notice"]
Message(w, r, n) == [kind |-> "message", from |-> w, life |-> life[w], to |-> r, n |-> n]

Absent == [alive |-> FALSE, holds |-> "nothing"]

Init ==
    /\ index = {} /\ announcing = {} /\ deleting = Nobody /\ dropping = {}
    /\ life = [e \in Entities |-> 0]
    /\ open = {} /\ pending = {} /\ todo = {} /\ ghosts = {}
    /\ inst = [e \in Entities |-> Absent]
    /\ queue = [b \in Kinds |-> <<>>]
    /\ matches = [r \in Own |-> {}]
    /\ box = [r \in Own |-> Nothing]
    /\ arrived = [r \in Own |-> 0]
    /\ pc = "open" /\ k = 1
    /\ g_endpoints = <<>>
    /\ hand = Nothing /\ line = Nothing
    /\ echoed = [r \in Own |-> 0]

--------------------------------------------------------------------------------
(* The builtin reader's cache: one instance by GUID, a history of one.       *)

\* Slip: it queues up with every store.
PutAgain(e, i) ==
    /\ inst' = [inst EXCEPT ![e] = i]
    /\ queue' = IF i.holds # "nothing" THEN [queue EXCEPT ![Kind[e]] = Append(@, e)] ELSE queue

\* The instance of e becomes i and queues up unless it waits already.
Put(e, i) ==
    /\ inst' = [inst EXCEPT ![e] = i]
    /\ queue' = IF inst[e].holds = "nothing" /\ i.holds # "nothing"
                  THEN [queue EXCEPT ![Kind[e]] = Append(@, e)] ELSE queue

\* Slip: the key-only sample of an earlier death stays.
StoreAliveBeside(e) ==
    IF Kind[e] \notin open THEN UNCHANGED feedVars
    ELSE /\ Put(e, [alive |-> TRUE,
                    holds |-> IF inst[e].holds = "key" THEN "key" ELSE "data"])
         /\ ghosts' = IF e = deleting \/ e \notin index THEN ghosts \cup {e} ELSE ghosts \ {e}

\* dds_rhc_default_store of an "alive": the sample replaces whatever waits.
StoreAlive(e) ==
    IF Kind[e] \notin open THEN UNCHANGED feedVars
    ELSE /\ Put(e, [alive |-> TRUE, holds |-> "data"])
         /\ ghosts' = IF e = deleting \/ e \notin index THEN ghosts \cup {e} ELSE ghosts \ {e}

\* Slip: an instance with nothing to take stays out of the queue when it dies.
StoreDeadQuietly(e) ==
    IF Kind[e] \notin open THEN UNCHANGED feedVars
    ELSE /\ Put(e, [alive |-> FALSE, holds |-> inst[e].holds])
         /\ ghosts' = ghosts \ {e}

\* dds_rhc_default_store of a dispose with unregister: it has no data, so a
\* sample that waits stays, and an empty instance gets a key-only sample.
StoreDead(e) ==
    IF Kind[e] \notin open THEN UNCHANGED feedVars
    ELSE /\ IF inst[e].holds # "nothing"
              THEN Put(e, [inst[e] EXCEPT !.alive = FALSE])
              ELSE Put(e, [alive |-> FALSE, holds |-> "key"])
         /\ ghosts' = ghosts \ {e}

--------------------------------------------------------------------------------
(* CycloneDDS: remote entities come and go.                                  *)

\* connect_proxy_writer_with_reader finds that the two match.
Connects(w, r) == Kind[w] = "pub" /\ Topic[w] = Topic[r]

\* Slip: no deleted participant is remembered.
NeverRemembered(e) == FALSE

\* deleted_participants: a participant is remembered at least until the last of
\* its endpoints is freed, and until then nothing under its GUIDs is let in.
Remembered(e) == e \in dropping

\* ddsi_new_proxy_writer and its like, first part: also again under the same
\* GUID, when a lease has expired though its program lives.
Index(e) ==
    /\ e \in Remote \ (index \cup announcing) /\ ~Remembered(e)
    /\ life[e] < MaxLives[e]
    /\ life' = [life EXCEPT ![e] = @ + 1]
    /\ index' = index \cup {e}
    /\ announcing' = announcing \cup {e}
    /\ UNCHANGED <<deleting, dropping, feedVars, userVars>>

\* Second part: builtintopic_write_endpoint (..., true), which the lock of the
\* entity keeps before any match; then the readers there are are matched.  A
\* match is a GUID: one that is still there is left as it is.
Announce(e) ==
    /\ e \in announcing
    /\ announcing' = announcing \ {e}
    /\ StoreAlive(e)
    /\ matches' = [r \in Own |-> IF r \in index /\ Connects(e, r)
                                   THEN matches[r] \cup {e} ELSE matches[r]]
    /\ UNCHANGED <<index, deleting, dropping, life, box, arrived>>

\* ddsi_delete_proxy_writer and its like, first part: under gv->lock.
Dispose(e) ==
    /\ deleting = Nobody /\ e \in Remote \cap index
    /\ deleting' = e
    /\ StoreDead(e)
    /\ UNCHANGED <<index, announcing, dropping, life, userVars>>

\* Second part: entidx_remove_*, and a request to the garbage collector.
Unindex(e) ==
    /\ deleting = e
    /\ deleting' = Nobody
    /\ index' = index \ {e}
    /\ dropping' = dropping \cup {e}
    /\ UNCHANGED <<announcing, life, feedVars, userVars>>

\* gc_delete_proxy_writer and its like, when every thread that was awake at the
\* request has moved on: reader_drop_connection takes the match out by its GUID
\* and unregisters the writer, of which a reader with nothing to take is given
\* notice if no other writer is registered with it.
Drop(e) ==
    /\ e \in dropping \ announcing
    /\ dropping' = dropping \ {e}
    /\ matches' = [r \in Own |-> matches[r] \ {e}]
    /\ \E told \in SUBSET {r \in Own : e \in matches[r] /\ box[r] = Nothing} :
         box' = [r \in Own |-> IF r \in told THEN Notice ELSE box[r]]
    /\ UNCHANGED <<index, announcing, deleting, life, feedVars, arrived>>

\* A user sample, into a history of one; the delivery queue of a writer is
\* emptied before its matches are dropped, not before it leaves the index.
Arrive(w, r) ==
    /\ w \in matches[r]
    /\ arrived[r] < MaxMessages
    /\ arrived' = [arrived EXCEPT ![r] = @ + 1]
    /\ box' = [box EXCEPT ![r] = Message(w, r, arrived[r] + 1)]
    /\ UNCHANGED <<ddsVars, feedVars, matches>>

Dds == /\ \/ \E e \in Entities : \/ Index(e) \/ Announce(e)
                                 \/ Dispose(e) \/ Unindex(e) \/ Drop(e)
          \/ \E w \in Entities, r \in Own : Arrive(w, r)
       /\ UNCHANGED <<open, pc, k, pending, todo, g_endpoints, outVars>>

--------------------------------------------------------------------------------
(* main: set-up.                                                             *)

\* On to the next builtin reader, or to the next part of main after the last.
Advance(again, next) ==
    IF k < Len(Builtin) THEN k' = k + 1 /\ pc' = again ELSE k' = 1 /\ pc' = next

\* dds_create_reader of a builtin topic: from now on it is written to, and
\* the index has to be visited for what was there before.
Open ==
    /\ pc = "open"
    /\ open' = open \cup {Builtin[k]}
    /\ pending' = {e \in Entities : Kind[e] = Builtin[k]}
    /\ pc' = "history"
    /\ UNCHANGED <<ddsVars, feedVars, userVars, k, todo, g_endpoints, outVars>>

\* ddsi_deliver_historical_data, at one place of the index.
History(e) ==
    /\ pc = "history" /\ e \in pending
    /\ pending' = pending \ {e}
    /\ IF e \in index THEN StoreAlive(e) ELSE UNCHANGED feedVars
    /\ UNCHANGED <<ddsVars, open, userVars, pc, k, todo, g_endpoints, outVars>>

EndHistory ==
    /\ pc = "history" /\ pending = {}
    /\ Advance("open", "readers")
    /\ UNCHANGED <<ddsVars, open, feedVars, userVars, pending, todo, g_endpoints, outVars>>

\* make_rd: an own reader is an entity like any other, and is matched with the
\* writers there are; the lock of one being announced leaves it to Announce.
MakeRd(r) ==
    /\ pc = "readers" /\ r \in Own \ index
    /\ index' = index \cup {r}
    /\ life' = [life EXCEPT ![r] = @ + 1]
    /\ Put(r, [alive |-> TRUE, holds |-> "data"])
    /\ matches' = [matches EXCEPT ![r] = @ \cup {w \in index \ announcing : Connects(w, r)}]
    /\ pc' = IF Own \subseteq index \cup {r} THEN "drain" ELSE pc
    /\ UNCHANGED <<announcing, deleting, dropping, open, ghosts, box, arrived, k, pending, todo,
                   g_endpoints, outVars>>

--------------------------------------------------------------------------------
(* The drain functions.                                                      *)

\* Slip: whatever is taken is registered.
RegisteredAll(took) == took

\* g_endpoints[guid] = ... in the "alive" branch, erase in the other.
Registered(took) == {e \in took : inst[e].alive}

\* drain_participants and drain_endpoints: at most N instances are taken and
\* registered or erased.  Only endpoints are kept; a key-only sample has no
\* topic name.
DrainEndpoints(b) ==
    LET n    == IF Len(queue[b]) < MaxTake THEN Len(queue[b]) ELSE MaxTake
        took == {queue[b][i] : i \in 1..n}
        seen == IF b = "par" THEN {} ELSE Registered(took)
    IN  /\ queue' = [queue EXCEPT ![b] = SubSeq(@, n + 1, Len(@))]
        /\ inst' = [e \in Entities |->
                      IF e \in took THEN [inst[e] EXCEPT !.holds = "nothing"] ELSE inst[e]]
        /\ g_endpoints' =
             [e \in (DOMAIN g_endpoints \ took) \cup seen |->
                IF e \in seen THEN [topic |-> IF inst[e].holds = "data" THEN Topic[e] ELSE "",
                                    is_publisher |-> b = "pub"]
                ELSE g_endpoints[e]]
        /\ UNCHANGED ghosts

\* Slip: what is cached before the waitset is used is left to it.
NoInitialDrain ==
    /\ pc = "drain"
    /\ Advance("drain", "wait")
    /\ UNCHANGED <<ddsVars, open, feedVars, userVars, pending, todo, g_endpoints, outVars>>

\* "Drain any state already cached".
InitialDrain ==
    /\ pc = "drain"
    /\ DrainEndpoints(Builtin[k])
    /\ Advance("drain", "wait")
    /\ UNCHANGED <<ddsVars, open, userVars, pending, todo, outVars>>

--------------------------------------------------------------------------------
(* The event loop.                                                           *)

Ready == {b \in Kinds : queue[b] # <<>>} \cup {r \in Own : box[r] # Nothing}

\* dds_waitset_wait: readers that have something, not always all of them.
Wait(r) ==
    /\ pc = "wait"
    /\ todo' \in SUBSET Ready /\ r \in todo'
    /\ pc' = "handle"
    /\ UNCHANGED <<ddsVars, open, feedVars, userVars, k, pending, g_endpoints, outVars>>

\* Back to the head of the loop after the last attachment.
Handled(r) == /\ todo' = todo \ {r}
              /\ pc' = IF todo \subseteq {r} THEN "wait" ELSE "handle"

\* case 0, 1, 2 of the switch.
HandleBuiltin(b) ==
    /\ pc = "handle" /\ b \in todo
    /\ DrainEndpoints(b)
    /\ Handled(b)
    /\ UNCHANGED <<ddsVars, open, userVars, k, pending, outVars>>

\* drain_msg up to the test of valid_data: the take.
TakeMsg(r) ==
    /\ pc = "handle" /\ r \in todo
    /\ box' = [box EXCEPT ![r] = Nothing]
    /\ IF box[r].kind = "message"
         THEN hand' = box[r] /\ pc' = "echo" /\ todo' = todo \ {r}
         ELSE Handled(r) /\ UNCHANGED hand
    /\ UNCHANGED <<ddsVars, open, feedVars, matches, arrived, k, pending, g_endpoints, line, echoed>>

\* dds_get_matched_publication_data: of the writers in rd->writers that are in the
\* index the one with the instance handle the sample came with; a writer that
\* went and came back may have another one.
Matched(m) ==
    IF m.from \notin matches[m.to] \cap index THEN {FALSE}
    ELSE IF m.life < life[m.from] THEN BOOLEAN ELSE {TRUE}

\* The rest of drain_msg: who sent it is asked of CycloneDDS now, who else
\* reads the topic is looked up in the map.
Echo ==
    /\ pc = "echo"
    /\ \E known \in Matched(hand) :
         line' = [kind |-> "message", from |-> hand.from, life |-> hand.life, to |-> hand.to,
                  known |-> known,
                  receivers |-> {e \in DOMAIN g_endpoints :
                                   /\ ~g_endpoints[e].is_publisher
                                   /\ g_endpoints[e].topic = Topic[hand.to]}]
    /\ echoed' = [echoed EXCEPT ![hand.to] = hand.n]
    /\ hand' = Nothing
    /\ pc' = IF todo = {} THEN "wait" ELSE "handle"
    /\ UNCHANGED <<ddsVars, open, feedVars, userVars, k, pending, todo, g_endpoints>>

AppStep ==
    \/ Open \/ EndHistory \/ InitialDrain \/ Echo
    \/ \E e \in Entities : History(e)
    \/ \E r \in Own : MakeRd(r) \/ TakeMsg(r)
    \/ \E b \in Kinds : HandleBuiltin(b)
    \/ \E r \in Kinds \cup Own : Wait(r)

Next == Dds \/ AppStep

\* Threads are scheduled.  A reader that has something is returned by
\* dds_waitset_wait sooner or later: the scan finds it the next time.
\* Nothing makes an entity come or go or a sample arrive.
Fairness ==
    /\ WF_vars(AppStep)
    /\ \A r \in Kinds \cup Own : SF_vars(Wait(r))
    /\ WF_vars(Dds /\ \E e \in Entities : e \in announcing \ announcing')
    /\ WF_vars(Dds /\ \E e \in Entities : e \in index \ index')

Spec == Init /\ [][Next]_vars /\ Fairness

--------------------------------------------------------------------------------
(* Properties.                                                               *)

InLoop == pc \in {"wait", "handle", "echo"}
Endpoints == {e \in Entities : Kind[e] # "par"}

\* Every variable has its type; an instance queues up exactly once, and only
\* while it has something to take.
TypeOK ==
    /\ index \in SUBSET Entities /\ announcing \in SUBSET Remote
    /\ deleting \in (index \ Own) \cup {Nobody} /\ dropping \in SUBSET Remote
    /\ matches \in [Own -> SUBSET Remote]
    /\ \A e \in Entities : life[e] \in 0..MaxLives[e]
    /\ open \in SUBSET Kinds /\ pending \in SUBSET Entities
    /\ inst \in [Entities -> [alive : BOOLEAN, holds : {"nothing", "key", "data"}]]
    /\ \A b \in Kinds :
         LET waits == {e \in Entities : Kind[e] = b /\ inst[e].holds # "nothing"}
         IN  {queue[b][i] : i \in DOMAIN queue[b]} = waits /\ Len(queue[b]) = Cardinality(waits)
    /\ ghosts \in SUBSET Remote
    /\ pc \in {"open", "history", "readers", "drain", "wait", "handle", "echo"}
    /\ k \in DOMAIN Builtin
    /\ todo \in SUBSET (Kinds \cup Own)
    /\ DOMAIN g_endpoints \subseteq Endpoints
    /\ pc = "echo" <=> hand # Nothing

\* The key-only sample that tells of a death (inspector.cpp:84: its topic_name
\* is NULL) never becomes an entry, whatever was overwritten, revived or
\* only partly taken: an entry has the endpoint's topic and role.
EntriesTrue ==
    \A e \in DOMAIN g_endpoints :
        g_endpoints[e] = [topic |-> Topic[e], is_publisher |-> Kind[e] = "pub"]

\* The map of the event loop and the entity index of CycloneDDS differ only by
\* what still waits in a builtin reader or is being written to it, and by
\* endpoints that died while the reader was being opened.
InSync ==
    InLoop => \A e \in Endpoints :
        (e \in DOMAIN g_endpoints) # (e \in index) =>
            \/ inst[e].holds # "nothing"
            \/ e \in announcing \cup {deleting} \cup ghosts

\* A message is never printed with "(none discovered yet)": the inspector's own
\* reader is among the receivers, because the caches are drained before
\* the loop (inspector.cpp:252-255) and it is in reach of that drain.
ListsItself ==
    Cardinality({e \in Entities : Kind[e] = "sub"}) <= MaxTake =>
        (line.kind = "message" => line.to \in line.receivers)

\* "(unknown)" is printed for a sender (inspector.cpp:121-131) only if it has
\* gone by then: a writer that is back in time is matched, though the match of
\* its earlier life has the same GUID and is dropped late, by another thread
\* (deleted_participants keeps it out until then).
UnknownOnlyIfGone ==
    line.kind = "message" /\ ~line.known =>
        line.from \notin index \/ line.life < life[line.from]

\* What comes is listed and what goes is erased, eventually, by takes of N at
\* a time and however often readers are skipped; a ghost stays.
Converges ==
    \A e \in Endpoints :
        /\ e \in index ~> e \in DOMAIN g_endpoints \/ e \notin index
        /\ e \notin index ~> e \notin DOMAIN g_endpoints \/ e \in index \cup ghosts

\* inspector.cpp:1-2: it "echoes every message on every user topic".
EchoesEvery == [][\A r \in Own : echoed'[r] \in {echoed[r], echoed[r] + 1}]_vars
================================================================================
