------------------------ MODULE DiscoveryInspectorProofs ------------------------
(***************************************************************************)
(* The map of the participating inspector follows the entity index of         *)
(* CycloneDDS, for any entities, readers and lengths of a take.               *)
(*                                                                           *)
(* Two comparisons carry the argument.  The instance in a builtin reader is    *)
(* alive as its entity is in the index, but for what is being announced or     *)
(* disposed of and for ghosts (Followed).  And the map has an endpoint as its   *)
(* instance is alive, but for what waits to be taken (Mapped).                *)
(*                                                                           *)
(* That a sender is found depends on its match: while its entity is in the    *)
(* index no garbage collection of an earlier life is under way (Typed), so    *)
(* the match that let the message in is still there (Matching).               *)
(***************************************************************************)
EXTENDS DiscoveryInspector, FiniteSetTheorems, TLAPS

Typed ==
    /\ index \in SUBSET Entities /\ announcing \in SUBSET Remote
    /\ deleting \in (index \ Own) \cup {Nobody}
    /\ dropping \in SUBSET (Remote \ index)
    /\ life \in [Entities -> Nat] /\ \A e \in Entities : life[e] <= MaxLives[e]
    /\ open \in SUBSET Kinds /\ pending \in SUBSET Entities
    /\ inst \in [Entities -> [alive : BOOLEAN, holds : {"nothing", "key", "data"}]]
    /\ queue \in [Kinds -> Seq(Entities)]
    /\ ghosts \in SUBSET Remote
    /\ pc \in {"open", "history", "readers", "drain", "wait", "handle", "echo"}
    /\ k \in 1..3
    /\ todo \in SUBSET (Kinds \cup Own)
    /\ DOMAIN g_endpoints \subseteq Endpoints
    /\ DOMAIN box = Own
    /\ matches \in [Own -> SUBSET Remote]

\* What main has set up so far.
SetUp ==
    /\ \A j \in 1..3 : \/ pc = "open" /\ j >= k
                       \/ pc = "history" /\ j > k
                       \/ Builtin[j] \in open
    /\ pc \in {"open", "history"} => Own \cap index = {}
    /\ pc \notin {"open", "history", "readers"} => Own \subseteq index
    /\ \A r \in Own \ index : life[r] = 0

\* A queue is an enumeration of the instances with something to take.
Queued(b) ==
    /\ \A i \in DOMAIN queue[b] : /\ Kind[queue[b][i]] = b
                                  /\ inst[queue[b][i]].holds # "nothing"
    /\ \A i, j \in DOMAIN queue[b] : queue[b][i] = queue[b][j] => i = j
    /\ \A e \in Entities : Kind[e] = b /\ inst[e].holds # "nothing" =>
         \E i \in DOMAIN queue[b] : queue[b][i] = e

\* The history of a new reader has yet to visit e.
Unvisited(e) == pc = "history" /\ e \in pending

Followed ==
    /\ \A e \in Entities : Kind[e] \notin open => inst[e] = Absent
    /\ \A e \in Entities : inst[e].alive => e \in index \cup ghosts
    /\ \A e \in index \ (announcing \cup {deleting}) :
         Kind[e] \in open /\ ~Unvisited(e) => inst[e].alive
    /\ deleting # Nobody /\ inst[deleting].alive => deleting \in ghosts

\* A key-only sample is that of a dead instance.
KeyIsDead == \A e \in Entities : inst[e].holds = "key" => ~inst[e].alive

Mapped == \A e \in Endpoints : inst[e].holds = "nothing" =>
    (e \in DOMAIN g_endpoints <=> inst[e].alive)

\* One take empties the reader of subscriptions.
Reachable == Cardinality({e \in Entities : Kind[e] = "sub"}) <= MaxTake

Listed == Reachable /\ InLoop => Own \subseteq DOMAIN g_endpoints

\* m is a message from this or an earlier life of a writer.
Authentic(m) == /\ m.from \in Remote
                /\ m.life \in Nat /\ m.life <= life[m.from]

Messages ==
    /\ \A r \in Own : box[r].kind = "message" => Authentic(box[r]) /\ box[r].to = r
    /\ pc = "echo" => hand.kind = "message" /\ Authentic(hand) /\ hand.to \in Own
    /\ pc # "echo" => hand = Nothing
    /\ line.kind = "message" => Authentic(line)

\* If the writer of m has not gone, it is matched with the reader of m.
Reached(m) == m.from \in index /\ m.life = life[m.from] => m.from \in matches[m.to]

\* This holds of the messages that are still to be printed.
Matching == /\ \A r \in Own : box[r].kind = "message" => Reached(box[r])
            /\ pc = "echo" => Reached(hand)

IInv == /\ Typed /\ SetUp /\ (\A b \in Kinds : Queued(b))
        /\ Followed /\ KeyIsDead /\ Mapped /\ EntriesTrue
        /\ Listed /\ Messages /\ Matching /\ ListsItself /\ UnknownOnlyIfGone
--------------------------------------------------------------------------------
(* The readers' caches.                                                      *)

Instances == [alive : BOOLEAN, holds : {"nothing", "key", "data"}]

\* A queue is not disturbed by what leaves its instances to be taken.
LEMMA QueuedStays ==
    ASSUME NEW b, Queued(b), queue[b] \in Seq(Entities), queue'[b] = queue[b],
           \A x \in Entities : Kind[x] = b =>
             (inst'[x].holds = "nothing" <=> inst[x].holds = "nothing")
    PROVE  Queued(b)'
<1> DEFINE q == queue[b]
<1>1. \A i \in DOMAIN q : q[i] \in Entities
    OBVIOUS
<1> HIDE DEF q
<1>2. queue'[b] = q /\ queue[b] = q
    BY DEF q
<1>3. \A i \in DOMAIN q : Kind[q[i]] = b /\ inst'[q[i]].holds # "nothing"
    BY <1>1, <1>2 DEF Queued
<1>4. \A x \in Entities : Kind[x] = b /\ inst'[x].holds # "nothing" => \E i \in DOMAIN q : q[i] = x
    BY <1>2 DEF Queued
<1> QED  BY <1>2, <1>3, <1>4 DEF Queued

\* What Put makes of the caches: an instance with something to take waits once.
LEMMA PutFacts ==
    ASSUME Typed, \A b \in Kinds : Queued(b),
           NEW e \in Entities, NEW i \in Instances, i.holds # "nothing", Put(e, i)
    PROVE  /\ inst' \in [Entities -> Instances] /\ queue' \in [Kinds -> Seq(Entities)]
           /\ inst' = [inst EXCEPT ![e] = i]
           /\ \A b \in Kinds : Queued(b)'
<1>1. /\ inst \in [Entities -> Instances] /\ queue \in [Kinds -> Seq(Entities)]
      /\ Kind[e] \in Kinds
    BY DiscoveryAssumption DEF Typed, Instances, Kinds
<1>2. inst' = [inst EXCEPT ![e] = i] /\ inst' \in [Entities -> Instances]
    BY <1>1 DEF Put
<1>3. \A x \in Entities : inst'[x] = IF x = e THEN i ELSE inst[x]
    BY <1>1, <1>2
<1>4. CASE inst[e].holds # "nothing"
  <2>1. queue' = queue
      BY <1>4 DEF Put
  <2>2. ASSUME NEW b \in Kinds PROVE Queued(b)'
      BY <1>1, <1>3, <1>4, <2>1, <2>2, QueuedStays
  <2> QED  BY <1>1, <1>2, <2>1, <2>2
<1>5. CASE inst[e].holds = "nothing"
  <2>1. queue' = [queue EXCEPT ![Kind[e]] = Append(@, e)]
      BY <1>5 DEF Put
  <2>2. queue' \in [Kinds -> Seq(Entities)]
      BY <1>1, <2>1
  <2>3. ASSUME NEW b \in Kinds PROVE Queued(b)'
    <3>1. CASE b # Kind[e]
      <4>1. queue'[b] = queue[b]
          BY <1>1, <2>1, <3>1
      <4>2. \A x \in Entities : Kind[x] = b => inst'[x] = inst[x]
          BY <1>3, <3>1
      <4> QED  BY <1>1, <2>3, <4>1, <4>2, QueuedStays
    <3>2. CASE b = Kind[e]
      <4> DEFINE q == queue[b]
      <4>1. q \in Seq(Entities) /\ queue'[b] = Append(q, e)
          BY <1>1, <2>1, <3>2
      <4>2. /\ DOMAIN q = 1..Len(q) /\ DOMAIN queue'[b] = 1..Len(q)+1 /\ Len(q) \in Nat
            /\ \A j \in DOMAIN q : queue'[b][j] = q[j]
            /\ queue'[b][Len(q) + 1] = e
            /\ \A j \in DOMAIN queue'[b] : j \in DOMAIN q \/ j = Len(q) + 1
            /\ \A j \in DOMAIN q : q[j] \in Entities /\ j # Len(q) + 1 /\ j \in 1..Len(q)+1
          BY <4>1
      <4>3. \A j \in DOMAIN q : q[j] # e
          BY <1>5 DEF Queued
      <4> HIDE DEF q
      <4>4. \A j \in DOMAIN queue'[b] : /\ Kind[queue'[b][j]] = b
                                        /\ inst'[queue'[b][j]].holds # "nothing"
          BY <1>3, <3>2, <4>2, <4>3 DEF Queued, q
      <4>5. \A j, l \in DOMAIN queue'[b] : queue'[b][j] = queue'[b][l] => j = l
          BY <4>2, <4>3 DEF Queued, q
      <4>6. \A x \in Entities : Kind[x] = b /\ inst'[x].holds # "nothing" =>
              \E j \in DOMAIN queue'[b] : queue'[b][j] = x
          BY <1>3, <4>2 DEF Queued, q
      <4> QED  BY <4>4, <4>5, <4>6 DEF Queued
    <3> QED  BY <3>1, <3>2
  <2> QED  BY <1>2, <2>2, <2>3
<1> QED  BY <1>4, <1>5

LEMMA KindFacts ==
    /\ \A e \in Entities : Kind[e] \in Kinds
    /\ \A r \in Own : r \in Entities /\ Kind[r] = "sub" /\ r \in Endpoints
    /\ Remote \subseteq Entities /\ Remote \cap Own = {}
    /\ Nobody \notin Entities
BY DiscoveryAssumption DEF Kinds, Remote, Endpoints

\* What a sample written to a builtin topic changes: nothing, if it has no reader.
Fed(e, i) == IF Kind[e] \in open THEN Put(e, i) ELSE UNCHANGED <<inst, queue>>
AliveNow(e) == [alive |-> TRUE, holds |-> "data"]
DeadNow(e)  == IF inst[e].holds # "nothing" THEN [inst[e] EXCEPT !.alive = FALSE]
               ELSE [alive |-> FALSE, holds |-> "key"]

LEMMA StoreAliveFacts ==
    ASSUME NEW e \in Entities, StoreAlive(e)
    PROVE  /\ Fed(e, AliveNow(e))
           /\ ghosts' = IF Kind[e] \notin open THEN ghosts
                        ELSE IF e = deleting \/ e \notin index THEN ghosts \cup {e}
                        ELSE ghosts \ {e}
BY DEF StoreAlive, Fed, AliveNow, feedVars

LEMMA StoreDeadFacts ==
    ASSUME Typed, NEW e \in Entities, StoreDead(e)
    PROVE  /\ Fed(e, DeadNow(e))
           /\ ghosts' = IF Kind[e] \notin open THEN ghosts ELSE ghosts \ {e}
BY DEF StoreDead, Fed, DeadNow, feedVars

LEMMA NowFacts ==
    ASSUME Typed, NEW e \in Entities
    PROVE  /\ AliveNow(e) \in Instances /\ AliveNow(e).holds = "data" /\ AliveNow(e).alive
           /\ DeadNow(e) \in Instances /\ DeadNow(e).holds # "nothing" /\ ~DeadNow(e).alive
<1>1. inst[e] \in Instances
    BY DEF Typed, Instances
<1>2. [inst[e] EXCEPT !.alive = FALSE] \in Instances
    BY <1>1 DEF Instances
<1>3. [inst[e] EXCEPT !.alive = FALSE].holds = inst[e].holds
    BY <1>1 DEF Instances
<1>4. ~[inst[e] EXCEPT !.alive = FALSE].alive
    BY <1>1 DEF Instances
<1> QED  BY <1>1, <1>2, <1>3, <1>4 DEF AliveNow, DeadNow, Instances

\* What is fed keeps the queues.
LEMMA FedFacts ==
    ASSUME Typed, \A b \in Kinds : Queued(b),
           NEW e \in Entities, NEW i \in Instances, i.holds # "nothing", Fed(e, i)
    PROVE  /\ inst' \in [Entities -> Instances] /\ queue' \in [Kinds -> Seq(Entities)]
           /\ \A x \in Entities : inst'[x] = IF x = e /\ Kind[e] \in open THEN i ELSE inst[x]
           /\ \A b \in Kinds : Queued(b)'
<1>1. inst \in [Entities -> Instances] /\ queue \in [Kinds -> Seq(Entities)]
    BY DEF Typed, Instances
<1>2. CASE Kind[e] \in open
  <2>1. Put(e, i)
      BY <1>2 DEF Fed
  <2> QED  BY <1>1, <1>2, <2>1, PutFacts
<1>3. CASE Kind[e] \notin open
  <2>1. inst' = inst /\ queue' = queue
      BY <1>3 DEF Fed
  <2>2. \A b \in Kinds : Queued(b)'
      BY <2>1 DEF Queued
  <2> QED  BY <1>1, <1>3, <2>1, <2>2
<1> QED  BY <1>2, <1>3

\* What a take removes and leaves of a queue.
LEMMA TakeFacts ==
    ASSUME NEW q \in Seq(Entities), NEW n \in Nat, n <= Len(q)
    PROVE  /\ SubSeq(q, n + 1, Len(q)) \in Seq(Entities)
           /\ DOMAIN SubSeq(q, n + 1, Len(q)) = 1..Len(q)-n
           /\ \A i \in 1..Len(q)-n : SubSeq(q, n + 1, Len(q))[i] = q[i + n]
           /\ \A i \in 1..Len(q)-n : i + n \in DOMAIN q /\ i + n \notin 1..n
           /\ \A i \in 1..n : i \in DOMAIN q
           /\ \A i \in DOMAIN q : i \in 1..n \/ (i - n \in 1..Len(q)-n /\ (i - n) + n = i)
<1>1. Len(q) \in Nat /\ DOMAIN q = 1..Len(q) /\ Len(q) - n \in Nat
    OBVIOUS
<1>2. SubSeq(q, n + 1, Len(q)) = [i \in 1..Len(q)-n |-> q[i + n]]
  <2>1. SubSeq(q, n + 1, Len(q)) = [i \in 1..(1 + Len(q) - (n + 1)) |-> q[n + 1 + i - 1]]
      BY <1>1
  <2>2. 1 + Len(q) - (n + 1) = Len(q) - n /\ \A i \in 1..Len(q)-n : n + 1 + i - 1 = i + n
      BY <1>1
  <2> QED  BY <2>1, <2>2
<1>3. \A i \in 1..Len(q)-n : i + n \in DOMAIN q /\ i + n \notin 1..n
    BY <1>1
<1>4. SubSeq(q, n + 1, Len(q)) \in Seq(Entities)
  <2>1. \A i \in 1..Len(q)-n : q[i + n] \in Entities
      BY <1>1, <1>3
  <2> QED  BY <1>1, <1>2, <2>1
<1> QED  BY <1>1, <1>2, <1>3, <1>4

\* The n first instances of q.
Taken(q, n) == {q[i] : i \in 1..n}

\* The instances in "took" are taken and registered or erased.
Drained(b, took) ==
    /\ took \subseteq {e \in Entities : Kind[e] = b /\ inst[e].holds # "nothing"}
    /\ Len(queue[b]) <= MaxTake =>
         took = {e \in Entities : Kind[e] = b /\ inst[e].holds # "nothing"}
    /\ inst' = [e \in Entities |->
                  IF e \in took THEN [inst[e] EXCEPT !.holds = "nothing"] ELSE inst[e]]
    /\ queue' \in [Kinds -> Seq(Entities)] /\ \A c \in Kinds : Queued(c)'
    /\ LET seen == IF b = "par" THEN {} ELSE {e \in took : inst[e].alive}
       IN  g_endpoints' =
             [e \in (DOMAIN g_endpoints \ took) \cup seen |->
                IF e \in seen THEN [topic |-> IF inst[e].holds = "data" THEN Topic[e] ELSE "",
                                   is_publisher |-> b = "pub"]
                ELSE g_endpoints[e]]
    /\ ghosts' = ghosts

LEMMA DrainFacts ==
    ASSUME Typed, \A c \in Kinds : Queued(c), NEW b \in Kinds, DrainEndpoints(b)
    PROVE  \E took : Drained(b, took)
<1> DEFINE q == queue[b]
           n == IF Len(q) < MaxTake THEN Len(q) ELSE MaxTake
           took == Taken(q, n)
<1>1. /\ queue \in [Kinds -> Seq(Entities)] /\ q \in Seq(Entities) /\ Len(q) \in Nat
      /\ MaxTake \in Nat
    BY DiscoveryAssumption DEF Typed
<1>2. n \in Nat /\ n <= Len(q) /\ (Len(q) <= MaxTake => n = Len(q))
    BY <1>1
<1>3. /\ queue' = [queue EXCEPT ![b] = SubSeq(q, n + 1, Len(q))]
      /\ inst' = [e \in Entities |->
                    IF e \in took THEN [inst[e] EXCEPT !.holds = "nothing"] ELSE inst[e]]
      /\ ghosts' = ghosts
    BY DEF DrainEndpoints, Taken
<1>4. LET seen == IF b = "par" THEN {} ELSE {e \in took : inst[e].alive}
      IN  g_endpoints' =
            [e \in (DOMAIN g_endpoints \ took) \cup seen |->
               IF e \in seen THEN [topic |-> IF inst[e].holds = "data" THEN Topic[e] ELSE "",
                                  is_publisher |-> b = "pub"]
               ELSE g_endpoints[e]]
    BY DEF DrainEndpoints, Registered, Taken
<1> HIDE DEF q, n
<1>5. /\ \A x : x \in took <=> \E i \in 1..n : q[i] = x
      /\ \A i \in DOMAIN q : q[i] \in Entities
    BY <1>1 DEF Taken
<1> HIDE DEF took
<1>6. /\ \A i \in DOMAIN q : Kind[q[i]] = b /\ inst[q[i]].holds # "nothing"
      /\ \A i, j \in DOMAIN q : q[i] = q[j] => i = j
      /\ \A e \in Entities : Kind[e] = b /\ inst[e].holds # "nothing" =>
           \E i \in DOMAIN q : q[i] = e
    BY DEF Queued, q
<1>7. took \subseteq {e \in Entities : Kind[e] = b /\ inst[e].holds # "nothing"}
    BY <1>1, <1>2, <1>5, <1>6, TakeFacts
<1>8. ASSUME Len(q) <= MaxTake
      PROVE  took = {e \in Entities : Kind[e] = b /\ inst[e].holds # "nothing"}
  <2>1. DOMAIN q = 1..n
      BY <1>1, <1>2, <1>8
  <2> QED  BY <1>5, <1>6, <1>7, <2>1
<1>9. queue' \in [Kinds -> Seq(Entities)]
    BY <1>1, <1>2, <1>3, TakeFacts
<1>10. \A x \in Entities : inst'[x].holds = IF x \in took THEN "nothing" ELSE inst[x].holds
  <2>1. inst \in [Entities -> Instances]
      BY DEF Typed, Instances
  <2> QED  BY <1>3, <2>1 DEF Instances
<1>11. ASSUME NEW c \in Kinds PROVE Queued(c)'
  <2>1. CASE c # b
    <3>1. queue'[c] = queue[c] /\ queue[c] \in Seq(Entities)
        BY <1>1, <1>3, <2>1
    <3>2. \A x \in Entities : Kind[x] = c => inst'[x].holds = inst[x].holds
        BY <1>7, <1>10, <2>1
    <3> QED  BY <3>1, <3>2, QueuedStays
  <2>2. CASE c = b
    <3> DEFINE r == SubSeq(q, n + 1, Len(q))
    <3>1. /\ DOMAIN r = 1..Len(q)-n
          /\ \A i \in DOMAIN r : r[i] = q[i + n] /\ i + n \in DOMAIN q /\ i + n \notin 1..n
          /\ \A i \in 1..n : i \in DOMAIN q
          /\ \A i \in DOMAIN q : i \in 1..n \/ (i - n \in DOMAIN r /\ (i - n) + n = i)
        BY <1>1, <1>2, TakeFacts
    <3>2. queue'[c] = r
        BY <1>1, <1>3, <2>2
    <3> HIDE DEF r
    <3>3. \A i \in DOMAIN r : r[i] \in Entities /\ Kind[r[i]] = b /\ r[i] \notin took
        BY <1>5, <1>6, <3>1
    <3>4. \A i \in DOMAIN r : Kind[r[i]] = b /\ inst'[r[i]].holds # "nothing"
        BY <1>6, <1>10, <3>1, <3>3
    <3>5. \A i, j \in DOMAIN r : r[i] = r[j] => i = j
      <4> SUFFICES ASSUME NEW i \in DOMAIN r, NEW j \in DOMAIN r, r[i] = r[j] PROVE i = j
          OBVIOUS
      <4>1. i + n = j + n
          BY <1>6, <3>1
      <4> QED  BY <1>1, <1>2, <3>1, <4>1
    <3>6. \A x \in Entities : Kind[x] = b /\ inst'[x].holds # "nothing" =>
            \E i \in DOMAIN r : r[i] = x
      <4> SUFFICES ASSUME NEW x \in Entities, Kind[x] = b, inst'[x].holds # "nothing"
                   PROVE  \E i \in DOMAIN r : r[i] = x
          OBVIOUS
      <4>1. x \notin took /\ inst[x].holds # "nothing"
          BY <1>10
      <4>2. PICK i \in DOMAIN q : q[i] = x
          BY <1>6, <4>1
      <4>3. i - n \in DOMAIN r /\ (i - n) + n = i
          BY <1>5, <3>1, <4>1, <4>2
      <4> QED  BY <3>1, <4>2, <4>3
    <3> QED  BY <2>2, <3>2, <3>4, <3>5, <3>6 DEF Queued
  <2> QED  BY <2>1, <2>2
<1>12. Drained(b, took)
    BY <1>3, <1>4, <1>7, <1>8, <1>9, <1>11 DEF Drained, q
<1> QED  BY <1>12

\* The map after a take: right entries, for the instances that are alive.
LEMMA DrainedMap ==
    ASSUME Typed, KeyIsDead, Mapped, EntriesTrue, NEW b \in Kinds, NEW took, Drained(b, took)
    PROVE  /\ inst' \in [Entities -> Instances]
           /\ \A x \in Entities :
                /\ inst'[x].alive = inst[x].alive
                /\ inst'[x].holds = IF x \in took THEN "nothing" ELSE inst[x].holds
           /\ \A x \in DOMAIN g_endpoints' :
                (x \in DOMAIN g_endpoints /\ x \notin took) \/ (x \in took /\ inst[x].alive)
           /\ \A x \in DOMAIN g_endpoints :
                inst[x].alive \/ x \notin took => x \in DOMAIN g_endpoints'
           /\ DOMAIN g_endpoints' \subseteq Endpoints
           /\ KeyIsDead' /\ Mapped' /\ EntriesTrue'
<1>1. inst \in [Entities -> Instances]
    BY DEF Typed, Instances
<1>2. inst' = [e \in Entities |->
                 IF e \in took THEN [inst[e] EXCEPT !.holds = "nothing"] ELSE inst[e]]
    BY DEF Drained
<1>3. \A x \in Entities : [inst[x] EXCEPT !.holds = "nothing"] \in Instances
    BY <1>1 DEF Instances
<1>4. inst' \in [Entities -> Instances]
    BY <1>1, <1>2, <1>3
<1>5. \A x \in Entities :
        /\ inst'[x].alive = inst[x].alive
        /\ inst'[x].holds = IF x \in took THEN "nothing" ELSE inst[x].holds
  <2>1. \A i \in Instances : /\ [i EXCEPT !.holds = "nothing"].alive = i.alive
                             /\ [i EXCEPT !.holds = "nothing"].holds = "nothing"
      BY DEF Instances
  <2>2. \A x \in Entities :
          inst'[x] = IF x \in took THEN [inst[x] EXCEPT !.holds = "nothing"] ELSE inst[x]
      BY <1>2
  <2> SUFFICES ASSUME NEW x \in Entities
               PROVE  /\ inst'[x].alive = inst[x].alive
                      /\ inst'[x].holds = IF x \in took THEN "nothing" ELSE inst[x].holds
      OBVIOUS
  <2>3. inst[x] \in Instances
      BY <1>1
  <2> QED  BY <2>1, <2>2, <2>3
<1> DEFINE seen == IF b = "par" THEN {} ELSE {e \in took : inst[e].alive}
<1>6. /\ took \subseteq {e \in Entities : Kind[e] = b /\ inst[e].holds # "nothing"}
      /\ g_endpoints' =
             [e \in (DOMAIN g_endpoints \ took) \cup seen |->
                IF e \in seen THEN [topic |-> IF inst[e].holds = "data" THEN Topic[e] ELSE "",
                                   is_publisher |-> b = "pub"]
                ELSE g_endpoints[e]]
    BY DEF Drained
<1>7. /\ \A e \in seen : e \in took /\ inst[e].alive /\ b # "par" /\ e \in Endpoints
      /\ \A e \in took : e \in Endpoints /\ inst[e].alive => e \in seen
    BY <1>6 DEF Endpoints
<1> HIDE DEF seen
<1>8. DOMAIN g_endpoints' = (DOMAIN g_endpoints \ took) \cup seen
    BY <1>6
<1>9. DOMAIN g_endpoints \subseteq Endpoints /\ Endpoints \subseteq Entities
    BY DEF Typed, Endpoints
<1>10. KeyIsDead'
    BY <1>5 DEF KeyIsDead
<1>11. Mapped'
    BY <1>5, <1>7, <1>8, <1>9 DEF Mapped, Endpoints
<1>12. EntriesTrue'
  <2> SUFFICES ASSUME NEW e \in DOMAIN g_endpoints'
               PROVE  g_endpoints'[e] = [topic |-> Topic[e], is_publisher |-> Kind[e] = "pub"]
      BY DEF EntriesTrue
  <2>1. CASE e \in seen
    <3>1. e \in Entities /\ Kind[e] = b /\ inst[e].holds # "nothing" /\ inst[e].alive
        BY <1>6, <1>7, <2>1
    <3>2. inst[e].holds = "data"
        BY <1>1, <3>1 DEF KeyIsDead, Instances
    <3> QED  BY <1>6, <2>1, <3>1, <3>2
  <2>2. CASE e \notin seen
      BY <1>6, <1>8, <2>2 DEF EntriesTrue
  <2> QED  BY <2>1, <2>2
<1> QED  BY <1>4, <1>5, <1>7, <1>8, <1>9, <1>10, <1>11, <1>12

--------------------------------------------------------------------------------
(* What each step leaves of the caches and of the map.                       *)

Caches == /\ inst \in [Entities -> Instances] /\ queue \in [Kinds -> Seq(Entities)]
          /\ DOMAIN g_endpoints \subseteq Endpoints
          /\ \A b \in Kinds : Queued(b)
          /\ KeyIsDead /\ Mapped /\ EntriesTrue

\* A sample in the cache of a builtin reader leaves the map to be corrected.
LEMMA FedKeeps ==
    ASSUME Typed, Caches, NEW e \in Entities, NEW i \in {AliveNow(e), DeadNow(e)},
           Fed(e, i), g_endpoints' = g_endpoints
    PROVE  Caches'
<1>1. i \in Instances /\ i.holds # "nothing" /\ (i.holds = "key" => ~i.alive)
    BY NowFacts
<1>2. \A b \in Kinds : Queued(b)
    BY DEF Caches
<1>3. /\ inst' \in [Entities -> Instances] /\ queue' \in [Kinds -> Seq(Entities)]
      /\ \A x \in Entities : inst'[x] = IF x = e /\ Kind[e] \in open THEN i ELSE inst[x]
      /\ \A b \in Kinds : Queued(b)'
    BY <1>1, <1>2, FedFacts
<1>4. KeyIsDead'
    BY <1>1, <1>3 DEF Caches, KeyIsDead
<1>5. Mapped'
    BY <1>1, <1>3 DEF Caches, Mapped, Endpoints
<1>6. EntriesTrue' /\ DOMAIN g_endpoints' \subseteq Endpoints
    BY DEF Caches, EntriesTrue
<1> QED  BY <1>3, <1>4, <1>5, <1>6 DEF Caches

LEMMA DrainKeeps ==
    ASSUME Typed, Caches, NEW b \in Kinds, DrainEndpoints(b)
    PROVE  Caches'
<1>1. PICK took : Drained(b, took)
    BY DrainFacts DEF Caches
<1>2. /\ inst' \in [Entities -> Instances]
      /\ DOMAIN g_endpoints' \subseteq Endpoints
      /\ KeyIsDead' /\ Mapped' /\ EntriesTrue'
    BY <1>1, DrainedMap DEF Caches
<1>3. queue' \in [Kinds -> Seq(Entities)] /\ \A c \in Kinds : Queued(c)'
    BY <1>1 DEF Drained
<1> QED  BY <1>2, <1>3 DEF Caches

LEMMA IdleKeeps ==
    ASSUME Caches, UNCHANGED <<inst, queue, g_endpoints>>
    PROVE  Caches'
<1>1. \A b \in Kinds : Queued(b)'
    BY DEF Caches, Queued
<1>2. KeyIsDead' /\ Mapped' /\ EntriesTrue'
    BY DEF Caches, KeyIsDead, Mapped, EntriesTrue
<1> QED  BY <1>1, <1>2 DEF Caches

\* make_rd is called when all builtin topics have their readers.
LEMMA MakeRdFacts ==
    ASSUME Typed, SetUp, NEW r \in Own, MakeRd(r)
    PROVE  Fed(r, AliveNow(r)) /\ Kind[r] \in open
<1>1. Builtin[3] \in open
    BY DEF SetUp, MakeRd
<1>2. Kind[r] \in open
    BY <1>1, KindFacts DEF Builtin
<1> QED  BY <1>2 DEF MakeRd, Fed, AliveNow

\* The steps of the program's thread and of those of CycloneDDS.
appVars == <<open, pc, k, pending, todo, g_endpoints, outVars>>

\* The builtin reader the program deals with.
LEMMA BuiltinFacts ==
    ASSUME k \in 1..3
    PROVE  Builtin[k] \in Kinds /\ Len(Builtin) = 3
BY DEF Builtin, Kinds

LEMMA CachesNext ==
    ASSUME Typed, SetUp, Caches, [Next]_vars
    PROVE  Caches'
<1>1. ASSUME NEW e \in Entities, Index(e), UNCHANGED appVars PROVE Caches'
    BY <1>1, IdleKeeps DEF Index, appVars, feedVars
<1>2. ASSUME NEW e \in Entities, Announce(e), UNCHANGED appVars PROVE Caches'
    BY <1>2, StoreAliveFacts, FedKeeps DEF Announce, appVars
<1>3. ASSUME NEW e \in Entities, Dispose(e), UNCHANGED appVars PROVE Caches'
    BY <1>3, StoreDeadFacts, FedKeeps DEF Dispose, appVars
<1>4. ASSUME NEW e \in Entities, Unindex(e) \/ Drop(e), UNCHANGED appVars PROVE Caches'
    BY <1>4, IdleKeeps DEF Unindex, Drop, appVars, feedVars
<1>5. ASSUME NEW w \in Entities, NEW r \in Own, Arrive(w, r), UNCHANGED appVars PROVE Caches'
    BY <1>5, IdleKeeps DEF Arrive, appVars, feedVars
<1>6. CASE Open
    BY <1>6, IdleKeeps DEF Open, feedVars
<1>7. CASE EndHistory
    BY <1>7, IdleKeeps DEF EndHistory, feedVars
<1>8. CASE InitialDrain
  <2>1. Builtin[k] \in Kinds
      BY BuiltinFacts DEF Typed
  <2> QED  BY <1>8, <2>1, DrainKeeps DEF InitialDrain
<1>9. CASE Echo
    BY <1>9, IdleKeeps DEF Echo, feedVars
<1>10. ASSUME NEW e \in Entities, History(e) PROVE Caches'
  <2>1. CASE e \in index
      BY <1>10, <2>1, StoreAliveFacts, FedKeeps DEF History
  <2>2. CASE e \notin index
      BY <1>10, <2>2, IdleKeeps DEF History, feedVars
  <2> QED  BY <2>1, <2>2
<1>11. ASSUME NEW r \in Own, MakeRd(r) PROVE Caches'
    BY <1>11, MakeRdFacts, KindFacts, FedKeeps DEF MakeRd
<1>12. ASSUME NEW r \in Own, TakeMsg(r) PROVE Caches'
    BY <1>12, IdleKeeps DEF TakeMsg, feedVars
<1>13. ASSUME NEW b \in Kinds, HandleBuiltin(b) PROVE Caches'
    BY <1>13, DrainKeeps DEF HandleBuiltin
<1>14. ASSUME NEW r \in Kinds \cup Own, Wait(r) PROVE Caches'
    BY <1>14, IdleKeeps DEF Wait, feedVars
<1>15. CASE UNCHANGED vars
    BY <1>15, IdleKeeps DEF vars, feedVars
<1> QED  BY <1>1, <1>2, <1>3, <1>4, <1>5, <1>6, <1>7, <1>8, <1>9, <1>10, <1>11, <1>12, <1>13,
            <1>14, <1>15 DEF Next, Dds, AppStep, appVars

--------------------------------------------------------------------------------
(* Types and set-up.                                                         *)

\* What Typed says beside the caches and the map.
Rest == /\ index \in SUBSET Entities /\ announcing \in SUBSET Remote
        /\ deleting \in (index \ Own) \cup {Nobody}
        /\ dropping \in SUBSET (Remote \ index)
        /\ life \in [Entities -> Nat] /\ \A e \in Entities : life[e] <= MaxLives[e]
        /\ open \in SUBSET Kinds /\ pending \in SUBSET Entities
        /\ ghosts \in SUBSET Remote
        /\ pc \in {"open", "history", "readers", "drain", "wait", "handle", "echo"}
        /\ k \in 1..3
        /\ todo \in SUBSET (Kinds \cup Own)
        /\ DOMAIN box = Own
        /\ matches \in [Own -> SUBSET Remote]

LEMMA TypedParts ==
    ASSUME Rest', DOMAIN g_endpoints' \subseteq Endpoints,
           inst' \in [Entities -> Instances], queue' \in [Kinds -> Seq(Entities)]
    PROVE  Typed'
BY DEF Typed, Rest, Instances, Endpoints

LEMMA AdvanceFacts ==
    ASSUME k \in 1..3, NEW again, NEW next, Advance(again, next)
    PROVE  \/ k \in 1..2 /\ k' = k + 1 /\ k' \in 1..3 /\ pc' = again
           \/ k = 3 /\ k' = 1 /\ pc' = next
BY BuiltinFacts DEF Advance

LEMMA TypedNext ==
    ASSUME Typed, SetUp, Caches, [Next]_vars
    PROVE  Typed'
<1>0. Rest
    BY DEF Typed, Rest
<1>1. ASSUME NEW e \in Entities, Index(e), UNCHANGED appVars PROVE Rest'
  <2>1. /\ \A x \in Entities : life'[x] = IF x = e THEN life[x] + 1 ELSE life[x]
        /\ life' \in [Entities -> Nat]
      BY <1>1 DEF Typed, Index
  <2>2. \A x \in Entities : life'[x] <= MaxLives[x]
    <3>1. \A m, n \in Nat : n < m => n + 1 <= m
        OBVIOUS
    <3>2. life[e] \in Nat /\ MaxLives[e] \in Nat
        BY DiscoveryAssumption DEF Typed
    <3> QED  BY <1>1, <2>1, <3>1, <3>2 DEF Typed, Index
  <2> QED  BY <1>1, <2>1, <2>2 DEF Typed, Rest, Index, Remembered, appVars, feedVars, userVars
<1>2. ASSUME NEW e \in Entities, Announce(e), UNCHANGED appVars PROVE Rest'
  <2>1. e \in Remote /\ StoreAlive(e)
      BY <1>2 DEF Typed, Announce
  <2>2. ghosts' \in SUBSET Remote
      BY <2>1, StoreAliveFacts DEF Typed
  <2>3. matches' \in [Own -> SUBSET Remote]
      BY <1>2, <2>1 DEF Typed, Announce
  <2> QED  BY <1>2, <2>2, <2>3 DEF Typed, Rest, Announce, appVars
<1>3. ASSUME NEW e \in Entities, Dispose(e), UNCHANGED appVars PROVE Rest'
  <2>1. ghosts' \in SUBSET Remote
      BY <1>3, StoreDeadFacts DEF Typed, Dispose
  <2> QED  BY <1>3, <2>1 DEF Typed, Rest, Dispose, Remote, appVars, userVars
<1>4. ASSUME NEW e \in Entities, Unindex(e) \/ Drop(e), UNCHANGED appVars PROVE Rest'
  <2>1. CASE Unindex(e)
    <3>1. e \in Remote
        BY <2>1, KindFacts DEF Typed, Unindex, Remote
    <3>2. dropping' \in SUBSET (Remote \ index')
        BY <2>1, <3>1 DEF Typed, Unindex
    <3>3. deleting' \in (index' \ Own) \cup {Nobody}
        BY <2>1 DEF Unindex
    <3> QED  BY <1>4, <2>1, <3>2, <3>3 DEF Typed, Rest, Unindex, appVars, feedVars, userVars
  <2>2. CASE Drop(e)
    <3>1. matches' \in [Own -> SUBSET Remote] /\ DOMAIN box' = Own
        BY <2>2 DEF Typed, Drop
    <3> QED  BY <1>4, <2>2, <3>1 DEF Typed, Rest, Drop, appVars, feedVars
  <2> QED  BY <1>4, <2>1, <2>2
<1>5. ASSUME NEW w \in Entities, NEW r \in Own, Arrive(w, r), UNCHANGED appVars PROVE Rest'
    BY <1>5 DEF Typed, Rest, Arrive, appVars, ddsVars, feedVars
<1>6. ASSUME Open PROVE Rest'
    BY <1>6, BuiltinFacts DEF Typed, Rest, Open, ddsVars, feedVars, userVars
<1>7. ASSUME EndHistory PROVE Rest'
    BY <1>7, AdvanceFacts DEF Typed, Rest, EndHistory, ddsVars, feedVars, userVars
<1>8. ASSUME InitialDrain PROVE Rest'
  <2>1. ghosts' = ghosts
      BY <1>8 DEF InitialDrain, DrainEndpoints
  <2>2. k' \in 1..3 /\ pc' \in {"drain", "wait"}
      BY <1>8, AdvanceFacts DEF Typed, InitialDrain
  <2>3. UNCHANGED <<ddsVars, open, userVars, pending, todo>>
      BY <1>8 DEF InitialDrain
  <2> QED  BY <1>0, <2>1, <2>2, <2>3 DEF Rest, ddsVars, userVars
<1>9. ASSUME Echo PROVE Rest'
    BY <1>9 DEF Typed, Rest, Echo, ddsVars, feedVars, userVars
<1>10. ASSUME NEW e \in Entities, History(e) PROVE Rest'
  <2>1. ghosts' \in SUBSET Remote
    <3>1. CASE e \in index
        BY <1>10, <3>1, StoreAliveFacts, KindFacts DEF Typed, History, Remote
    <3>2. CASE e \notin index
        BY <1>10, <3>2 DEF Typed, History, feedVars
    <3> QED  BY <3>1, <3>2
  <2> QED  BY <1>10, <2>1 DEF Typed, Rest, History, ddsVars, userVars
<1>11. ASSUME NEW r \in Own, MakeRd(r) PROVE Rest'
  <2>1. /\ \A x \in Entities : life'[x] = IF x = r THEN 1 ELSE life[x]
        /\ life' \in [Entities -> Nat]
      BY <1>11, KindFacts DEF Typed, SetUp, MakeRd
  <2>2. \A x \in Entities : life'[x] <= MaxLives[x]
    <3>1. \A m \in Nat \ {0} : 1 <= m
        OBVIOUS
    <3> QED  BY <2>1, <3>1, DiscoveryAssumption DEF Typed
  <2>3. matches' \in [Own -> SUBSET Remote]
    <3>1. {w \in index \ announcing : Connects(w, r)} \subseteq Remote
        BY KindFacts DEF Typed, Connects, Remote
    <3> QED  BY <1>11, <3>1 DEF Typed, MakeRd
  <2> QED  BY <1>11, <2>1, <2>2, <2>3, KindFacts DEF Typed, Rest, MakeRd
<1>12. ASSUME NEW r \in Own, TakeMsg(r) PROVE Rest'
    BY <1>12 DEF Typed, Rest, TakeMsg, Handled, ddsVars, feedVars
<1>13. ASSUME NEW b \in Kinds, HandleBuiltin(b) PROVE Rest'
  <2>1. ghosts' = ghosts
      BY <1>13 DEF HandleBuiltin, DrainEndpoints
  <2> QED  BY <1>13, <2>1 DEF Typed, Rest, HandleBuiltin, Handled, ddsVars, userVars
<1>14. ASSUME NEW r \in Kinds \cup Own, Wait(r) PROVE Rest'
  <2>1. todo' \in SUBSET (Kinds \cup Own)
      BY <1>14 DEF Wait, Ready
  <2> QED  BY <1>14, <2>1 DEF Typed, Rest, Wait, ddsVars, feedVars, userVars
<1>15. ASSUME UNCHANGED vars PROVE Rest'
    BY <1>15 DEF Typed, Rest, vars, ddsVars, feedVars, userVars
<1>16. Rest'
    BY <1>1, <1>2, <1>3, <1>4, <1>5, <1>6, <1>7, <1>8, <1>9, <1>10, <1>11, <1>12, <1>13,
       <1>14, <1>15 DEF Next, Dds, AppStep, appVars
<1>17. Caches'
    BY CachesNext
<1>18. /\ inst' \in [Entities -> Instances]
       /\ queue' \in [Kinds -> Seq(Entities)]
       /\ DOMAIN g_endpoints' \subseteq Endpoints
    BY <1>17 DEF Caches, Endpoints
<1> QED  BY <1>16, <1>18, TypedParts

LEMMA SetUpNext ==
    ASSUME Typed, SetUp, [Next]_vars
    PROVE  SetUp'
<1> USE KindFacts DEF SetUp
<1>1. ASSUME NEW e \in Entities, Index(e), UNCHANGED appVars PROVE SetUp'
    BY <1>1 DEF Typed, Index, Remote, appVars
<1>2. ASSUME NEW e \in Entities, Announce(e), UNCHANGED appVars PROVE SetUp'
    BY <1>2 DEF Announce, appVars
<1>3. ASSUME NEW e \in Entities, Dispose(e), UNCHANGED appVars PROVE SetUp'
    BY <1>3 DEF Dispose, appVars
<1>4. ASSUME NEW e \in Entities, Unindex(e) \/ Drop(e), UNCHANGED appVars PROVE SetUp'
    BY <1>4 DEF Typed, Unindex, Drop, appVars
<1>5. ASSUME NEW w \in Entities, NEW r \in Own, Arrive(w, r), UNCHANGED appVars PROVE SetUp'
    BY <1>5 DEF Arrive, ddsVars, appVars
<1>6. CASE Open
  <2>1. \A j \in 1..3 : j >= k => j > k \/ j = k
      BY DEF Typed
  <2> QED  BY <1>6, <2>1 DEF Open, ddsVars
<1>7. CASE EndHistory
  <2>1. \A j \in 1..3 : /\ k \in 1..2 /\ j > k => j >= k + 1
                        /\ ~(j > 3)
      BY DEF Typed
  <2>2. \/ k \in 1..2 /\ k' = k + 1 /\ pc' = "open"
        \/ k = 3 /\ k' = 1 /\ pc' = "readers"
      BY <1>7, AdvanceFacts DEF Typed, EndHistory
  <2> QED  BY <1>7, <2>1, <2>2 DEF EndHistory, ddsVars
<1>8. CASE InitialDrain
    BY <1>8, AdvanceFacts DEF Typed, InitialDrain, ddsVars
<1>9. CASE Echo
    BY <1>9 DEF Echo, ddsVars
<1>10. ASSUME NEW e \in Entities, History(e) PROVE SetUp'
    BY <1>10 DEF History, ddsVars
<1>11. ASSUME NEW r \in Own, MakeRd(r) PROVE SetUp'
    BY <1>11 DEF Typed, MakeRd
<1>12. ASSUME NEW r \in Own, TakeMsg(r) PROVE SetUp'
    BY <1>12 DEF TakeMsg, Handled, ddsVars
<1>13. ASSUME NEW b \in Kinds, HandleBuiltin(b) PROVE SetUp'
    BY <1>13 DEF HandleBuiltin, Handled, ddsVars
<1>14. ASSUME NEW r \in Kinds \cup Own, Wait(r) PROVE SetUp'
    BY <1>14 DEF Wait, ddsVars
<1>15. CASE UNCHANGED vars
    BY <1>15 DEF vars, ddsVars
<1> QED  BY <1>1, <1>2, <1>3, <1>4, <1>5, <1>6, <1>7, <1>8, <1>9, <1>10, <1>11, <1>12, <1>13,
            <1>14, <1>15 DEF Next, Dds, AppStep, appVars

--------------------------------------------------------------------------------
(* The instances follow the entity index.                                    *)

\* How a step moves the instances: those of S come alive, those of D die.
Moves(S, D) ==
    /\ \A x \in Entities : Kind[x] \notin open => inst'[x] = inst[x]
    /\ \A x \in Entities : inst'[x].alive <=> x \in S \/ (inst[x].alive /\ x \notin D)

LEMMA StoreAliveMoves ==
    ASSUME Typed, Caches, NEW e \in Entities, StoreAlive(e)
    PROVE  /\ Moves(IF Kind[e] \in open THEN {e} ELSE {}, {})
           /\ ghosts' = IF Kind[e] \notin open THEN ghosts
                        ELSE IF e = deleting \/ e \notin index THEN ghosts \cup {e}
                        ELSE ghosts \ {e}
<1>1. \A x \in Entities : inst'[x] = IF x = e /\ Kind[e] \in open THEN AliveNow(e) ELSE inst[x]
    BY StoreAliveFacts, NowFacts, FedFacts DEF Caches
<1> QED  BY <1>1, StoreAliveFacts, NowFacts DEF Moves

LEMMA StoreDeadMoves ==
    ASSUME Typed, Caches, NEW e \in Entities, StoreDead(e)
    PROVE  /\ Moves({}, IF Kind[e] \in open THEN {e} ELSE {})
           /\ ghosts' = IF Kind[e] \notin open THEN ghosts ELSE ghosts \ {e}
<1>1. \A x \in Entities : inst'[x] = IF x = e /\ Kind[e] \in open THEN DeadNow(e) ELSE inst[x]
    BY StoreDeadFacts, NowFacts, FedFacts DEF Caches
<1> QED  BY <1>1, StoreDeadFacts, NowFacts DEF Moves

LEMMA DrainMoves ==
    ASSUME Typed, Caches, Followed, NEW b \in Kinds, DrainEndpoints(b)
    PROVE  Moves({}, {}) /\ ghosts' = ghosts
<1>1. PICK took : Drained(b, took)
    BY DrainFacts DEF Caches
<1>2. \A x \in Entities : inst'[x].alive = inst[x].alive
    BY <1>1, DrainedMap DEF Caches
<1>3. \A x \in Entities : Kind[x] \notin open => x \notin took
  <2>1. Absent.holds = "nothing"
      BY DEF Absent
  <2> QED  BY <1>1, <2>1 DEF Drained, Followed
<1>4. \A x \in Entities : Kind[x] \notin open => inst'[x] = inst[x]
    BY <1>1, <1>3 DEF Drained
<1> QED  BY <1>1, <1>2, <1>4 DEF Drained, Moves

LEMMA IdleMoves ==
    ASSUME inst' = inst
    PROVE  Moves({}, {})
BY DEF Moves

LEMMA FollowedNext ==
    ASSUME Typed, SetUp, Caches, Followed, [Next]_vars
    PROVE  Followed'
<1> USE DEF Followed
<1>1. ~Absent.alive
    BY DEF Absent
<1>2. \A e \in Entities : Kind[e] \notin open => ~inst[e].alive
    BY <1>1
<1>3. /\ index \subseteq Entities /\ announcing \subseteq Remote
      /\ deleting \in (index \ Own) \cup {Nobody}
      /\ ghosts \subseteq Remote /\ Remote \subseteq Entities
      /\ Remote \cap Own = {} /\ Nobody \notin Entities
    BY KindFacts DEF Typed
<1>4. ASSUME NEW e \in Entities, Index(e), UNCHANGED appVars PROVE Followed'
  <2>1. UNCHANGED <<inst, ghosts, deleting, open, pc, pending>>
      BY <1>4 DEF Index, feedVars, appVars
  <2>2. index' = index \cup {e} /\ announcing' = announcing \cup {e} /\ e \notin index
      BY <1>4 DEF Index
  <2> QED  BY <1>3, <2>1, <2>2 DEF Unvisited
<1>5. ASSUME NEW e \in Entities, Announce(e), UNCHANGED appVars PROVE Followed'
  <2>1. UNCHANGED <<index, deleting, open, pc, pending>> /\ announcing' = announcing \ {e}
      BY <1>5 DEF Announce, appVars
  <2>2. StoreAlive(e)
      BY <1>5 DEF Announce
  <2> QED  BY <1>2, <1>3, <2>1, <2>2, StoreAliveMoves DEF Unvisited, Moves
<1>6. ASSUME NEW e \in Entities, Dispose(e), UNCHANGED appVars PROVE Followed'
  <2>1. /\ UNCHANGED <<index, announcing, open, pc, pending>>
        /\ deleting = Nobody /\ deleting' = e
      BY <1>6 DEF Dispose, appVars
  <2>2. StoreDead(e)
      BY <1>6 DEF Dispose
  <2> QED  BY <1>2, <1>3, <2>1, <2>2, StoreDeadMoves DEF Unvisited, Moves
<1>7. ASSUME NEW e \in Entities, Unindex(e), UNCHANGED appVars PROVE Followed'
  <2>1. /\ UNCHANGED <<announcing, open, inst, ghosts, pc, pending>>
        /\ deleting = e /\ deleting' = Nobody /\ index' = index \ {e}
      BY <1>7 DEF Unindex, feedVars, appVars
  <2> QED  BY <1>3, <2>1 DEF Unvisited
<1>8. ASSUME \/ \E e \in Entities : Drop(e)
             \/ \E w \in Entities, r \in Own : Arrive(w, r),
             UNCHANGED appVars
      PROVE  Followed'
    BY <1>8 DEF Drop, Arrive, ddsVars, feedVars, appVars, Unvisited
<1>9. CASE Open
  <2>1. /\ UNCHANGED <<index, announcing, deleting, inst, ghosts>>
        /\ open' = open \cup {Builtin[k]} /\ pending' = {e \in Entities : Kind[e] = Builtin[k]}
        /\ pc = "open" /\ pc' = "history"
      BY <1>9 DEF Open, ddsVars, feedVars
  <2> QED  BY <1>3, <2>1 DEF Unvisited
<1>10. CASE EndHistory
  <2>1. UNCHANGED <<index, announcing, deleting, inst, ghosts, open>> /\ pending = {}
      BY <1>10 DEF EndHistory, ddsVars, feedVars
  <2> QED  BY <1>3, <2>1 DEF Unvisited
<1>11. ASSUME UNCHANGED <<index, announcing, deleting, open>>, pc # "history", pc' # "history",
              Moves({}, {}), ghosts' = ghosts
       PROVE  Followed'
    BY <1>3, <1>11 DEF Moves, Unvisited
<1>12. CASE InitialDrain
  <2>1. UNCHANGED <<index, announcing, deleting, open>> /\ pc = "drain"
      BY <1>12 DEF InitialDrain, ddsVars
  <2>2. Builtin[k] \in Kinds /\ DrainEndpoints(Builtin[k])
      BY <1>12, BuiltinFacts DEF Typed, InitialDrain
  <2>3. pc' # "history"
      BY <1>12, AdvanceFacts DEF Typed, InitialDrain
  <2> QED  BY <1>11, <2>1, <2>2, <2>3, DrainMoves
<1>13. CASE Echo
    BY <1>11, <1>13, IdleMoves DEF Echo, ddsVars, feedVars
<1>14. ASSUME NEW e \in Entities, History(e) PROVE Followed'
  <2>1. /\ UNCHANGED <<index, announcing, deleting, open, pc>>
        /\ pending' = pending \ {e} /\ pc = "history"
      BY <1>14 DEF History, ddsVars
  <2>2. CASE e \in index
    <3>1. StoreAlive(e)
        BY <1>14, <2>2 DEF History
    <3> QED  BY <1>2, <1>3, <2>1, <3>1, StoreAliveMoves DEF Unvisited, Moves
  <2>3. CASE e \notin index
    <3>1. UNCHANGED <<inst, ghosts>>
        BY <1>14, <2>3 DEF History, feedVars
    <3> QED  BY <1>3, <2>1, <2>3, <3>1 DEF Unvisited
  <2> QED  BY <2>2, <2>3
<1>15. ASSUME NEW r \in Own, MakeRd(r) PROVE Followed'
  <2>1. /\ UNCHANGED <<announcing, deleting, open, ghosts, pending>>
        /\ index' = index \cup {r} /\ r \notin index /\ pc = "readers" /\ pc' # "history"
      BY <1>15 DEF MakeRd
  <2>2. /\ r \in Entities /\ Kind[r] \in open
        /\ \A x \in Entities : inst'[x] = IF x = r THEN AliveNow(r) ELSE inst[x]
      BY <1>15, MakeRdFacts, KindFacts, NowFacts, FedFacts DEF Caches
  <2> QED  BY <1>3, <2>1, <2>2, NowFacts DEF Unvisited
<1>16. ASSUME NEW r \in Own, TakeMsg(r) PROVE Followed'
    BY <1>11, <1>16, IdleMoves DEF TakeMsg, Handled, ddsVars, feedVars
<1>17. ASSUME NEW b \in Kinds, HandleBuiltin(b) PROVE Followed'
  <2>1. UNCHANGED <<index, announcing, deleting, open>> /\ pc = "handle" /\ pc' # "history"
      BY <1>17 DEF HandleBuiltin, Handled, ddsVars
  <2>2. DrainEndpoints(b)
      BY <1>17 DEF HandleBuiltin
  <2> QED  BY <1>11, <2>1, <2>2, DrainMoves
<1>18. ASSUME NEW r \in Kinds \cup Own, Wait(r) PROVE Followed'
    BY <1>11, <1>18, IdleMoves DEF Wait, ddsVars, feedVars
<1>19. CASE UNCHANGED vars
    BY <1>19 DEF vars, ddsVars, feedVars, Unvisited
<1> QED  BY <1>4, <1>5, <1>6, <1>7, <1>8, <1>9, <1>10, <1>12, <1>13, <1>14, <1>15, <1>16,
            <1>17, <1>18, <1>19 DEF Next, Dds, AppStep, appVars

--------------------------------------------------------------------------------
(* The inspector's own readers are in the map of the loop.                   *)

\* A queue is as long as there are instances with something to take.
LEMMA QueueLength ==
    ASSUME Typed, NEW b \in Kinds, Queued(b)
    PROVE  LET waits == {e \in Entities : Kind[e] = b /\ inst[e].holds # "nothing"}
           IN  /\ {queue[b][i] : i \in DOMAIN queue[b]} = waits
               /\ IsFiniteSet(waits) /\ Len(queue[b]) = Cardinality(waits)
<1> DEFINE q == queue[b]
           waits == {e \in Entities : Kind[e] = b /\ inst[e].holds # "nothing"}
<1>1. q \in Seq(Entities) /\ Len(q) \in Nat /\ DOMAIN q = 1..Len(q)
    BY DEF Typed
<1>2. /\ \A i \in DOMAIN q : q[i] \in waits
      /\ \A i, j \in DOMAIN q : q[i] = q[j] => i = j
      /\ \A e \in waits : \E i \in DOMAIN q : q[i] = e
    BY <1>1 DEF Queued
<1> HIDE DEF q, waits
<1>3. IsFiniteSet(1..Len(q)) /\ Cardinality(1..Len(q)) = Len(q)
  <2>1. \A n \in Nat : IsFiniteSet(1..n) /\ Cardinality(1..n) = n
      BY FS_Interval
  <2> QED  BY <1>1, <2>1
<1>4. q \in Bijection(1..Len(q), waits)
  <2>1. q \in [1..Len(q) -> waits]
    <3>1. q = [i \in 1..Len(q) |-> q[i]]
        BY <1>1
    <3> QED  BY <1>1, <1>2, <3>1
  <2> QED  BY <1>1, <1>2, <2>1 DEF Bijection, Injection, Surjection, IsInjective
<1>5. IsFiniteSet(waits) /\ Cardinality(waits) = Len(q)
    BY <1>3, <1>4, FS_Bijection DEF ExistsBijection
<1>6. {q[i] : i \in DOMAIN q} = waits
    BY <1>2
<1> QED  BY <1>5, <1>6 DEF q, waits

\* One take of N is enough for the readers, if they are no more than N.
LEMMA OneTake ==
    ASSUME Typed, Reachable, Queued("sub")
    PROVE  Len(queue["sub"]) <= MaxTake
<1> DEFINE subs  == {e \in Entities : Kind[e] = "sub"}
           waits == {e \in Entities : Kind[e] = "sub" /\ inst[e].holds # "nothing"}
<1>1. Len(queue["sub"]) = Cardinality(waits) /\ IsFiniteSet(waits)
    BY QueueLength DEF Kinds
<1>2. IsFiniteSet(subs)
    BY DiscoveryAssumption, FS_Subset
<1>3. waits \subseteq subs
    OBVIOUS
<1>4. Cardinality(subs) <= MaxTake
    BY DEF Reachable
<1> HIDE DEF subs, waits
<1>5. Cardinality(waits) <= Cardinality(subs) /\ Cardinality(subs) \in Nat
    BY <1>2, <1>3, FS_Subset, FS_CardinalityType
<1>6. Cardinality(waits) \in Nat /\ MaxTake \in Nat
    BY <1>1, FS_CardinalityType, DiscoveryAssumption
<1> QED  BY <1>1, <1>4, <1>5, <1>6

\* Own readers are alive once the readers of the builtin topics are open.
LEMMA OwnAlive ==
    ASSUME Typed, SetUp, Followed, pc \notin {"open", "history", "readers"}, NEW r \in Own
    PROVE  inst[r].alive
<1>1. r \in index /\ Builtin[3] \in open
    BY DEF SetUp
<1>2. Kind[r] \in open /\ r \in Entities /\ r \notin Remote
    BY <1>1, KindFacts DEF Builtin
<1>3. r \notin announcing \cup {deleting}
    BY <1>2, KindFacts DEF Typed
<1> QED  BY <1>1, <1>2, <1>3 DEF Followed, Unvisited

LEMMA ListedNext ==
    ASSUME Typed, SetUp, Caches, Followed, Listed, [Next]_vars
    PROVE  Listed'
<1>1. Reachable' <=> Reachable
    BY DEF Reachable
<1>2. ASSUME NEW b \in Kinds, DrainEndpoints(b), InLoop PROVE Listed'
  <2>1. PICK took : Drained(b, took)
      BY <1>2, DrainFacts DEF Caches
  <2>2. \A r \in Own : inst[r].alive
      BY <1>2, OwnAlive DEF InLoop
  <2>3. \A x \in DOMAIN g_endpoints : inst[x].alive => x \in DOMAIN g_endpoints'
      BY <2>1, DrainedMap DEF Caches
  <2> QED  BY <1>1, <1>2, <2>2, <2>3 DEF Listed
<1>3. ASSUME InitialDrain PROVE Listed'
  <2> SUFFICES ASSUME Reachable, InLoop', NEW r \in Own PROVE r \in DOMAIN g_endpoints'
      BY <1>1 DEF Listed
  <2>1. k = 3 /\ Builtin[k] = "sub" /\ "sub" \in Kinds
      BY <1>3, AdvanceFacts DEF Typed, InitialDrain, InLoop, Builtin, Kinds
  <2>2. DrainEndpoints("sub")
      BY <1>3, <2>1 DEF InitialDrain
  <2>3. PICK took : Drained("sub", took)
      BY <2>1, <2>2, DrainFacts DEF Caches
  <2>4. Len(queue["sub"]) <= MaxTake
      BY <2>1, OneTake DEF Caches
  <2>5. r \in Entities /\ Kind[r] = "sub" /\ r \in Endpoints
      BY KindFacts
  <2>6. inst[r].holds # "nothing" => r \in took
      BY <2>3, <2>4, <2>5 DEF Drained
  <2>7. /\ inst'[r].alive = inst[r].alive
        /\ inst'[r].holds = IF r \in took THEN "nothing" ELSE inst[r].holds
        /\ Mapped'
      BY <2>1, <2>3, <2>5, DrainedMap DEF Caches
  <2>8. inst[r].alive
      BY <1>3, OwnAlive DEF InitialDrain
  <2> QED  BY <2>5, <2>6, <2>7, <2>8 DEF Mapped, Endpoints
<1>4. ASSUME g_endpoints' = g_endpoints, InLoop' => InLoop PROVE Listed'
    BY <1>1, <1>4 DEF Listed
<1>5. CASE UNCHANGED appVars
    BY <1>4, <1>5 DEF appVars, InLoop
<1>6. CASE Open
    BY <1>4, <1>6 DEF Open, InLoop
<1>7. CASE EndHistory
    BY <1>4, <1>7, AdvanceFacts DEF Typed, EndHistory, InLoop
<1>8. CASE Echo
    BY <1>4, <1>8 DEF Echo, InLoop
<1>9. ASSUME NEW e \in Entities, History(e) PROVE Listed'
    BY <1>4, <1>9 DEF History, InLoop
<1>10. ASSUME NEW r \in Own, MakeRd(r) PROVE Listed'
    BY <1>4, <1>10 DEF MakeRd, InLoop
<1>11. ASSUME NEW r \in Own, TakeMsg(r) PROVE Listed'
    BY <1>4, <1>11 DEF TakeMsg, Handled, InLoop
<1>12. ASSUME NEW b \in Kinds, HandleBuiltin(b) PROVE Listed'
    BY <1>2, <1>12 DEF HandleBuiltin, InLoop
<1>13. ASSUME NEW r \in Kinds \cup Own, Wait(r) PROVE Listed'
    BY <1>4, <1>13 DEF Wait, InLoop
<1>14. CASE UNCHANGED vars
    BY <1>5, <1>14 DEF vars, appVars, outVars
<1> QED  BY <1>3, <1>5, <1>6, <1>7, <1>8, <1>9, <1>10, <1>11, <1>12, <1>13, <1>14
         DEF Next, Dds, AppStep, appVars

--------------------------------------------------------------------------------
(* What is printed about a message.                                          *)

\* Authentic(m)', of a message of before.
Still(m) == m.from \in Remote /\ m.life \in Nat /\ m.life <= life'[m.from]

\* A message stays one of a life the index knows of.
LEMMA AuthenticStays ==
    ASSUME \A x \in Entities : life[x] \in Nat /\ life'[x] \in Nat /\ life[x] <= life'[x],
           NEW m, Authentic(m)
    PROVE  Still(m)
<1>1. m.from \in Entities /\ m.from \in Remote /\ m.life \in Nat /\ m.life <= life[m.from]
    BY KindFacts DEF Authentic
<1>2. \A a, b, c \in Nat : a <= b /\ b <= c => a <= c
    OBVIOUS
<1> QED  BY <1>1, <1>2 DEF Still

\* Lives are counted up, and only those of what enters the index.
Counted ==
    /\ \A x \in Entities : life[x] \in Nat /\ life'[x] \in Nat /\ life[x] <= life'[x]
    /\ \A x \in Remote : \/ life'[x] = life[x] /\ (x \in index' => x \in index)
                         \/ life'[x] = life[x] + 1

LEMMA LifeGrows ==
    ASSUME Typed, SetUp, [Next]_vars
    PROVE  Counted
<1>1. /\ life \in [Entities -> Nat] /\ Remote \cap Own = {} /\ Remote \subseteq Entities
      /\ Own \subseteq Entities
    BY KindFacts DEF Typed
<1>2. ASSUME life' = life, \A x \in Remote : x \in index' => x \in index PROVE Counted
    BY <1>1, <1>2 DEF Counted
<1>3. ASSUME NEW e \in Entities, Index(e) PROVE Counted
    BY <1>1, <1>3 DEF Index, Counted
<1>4. ASSUME NEW r \in Own, MakeRd(r) PROVE Counted
    BY <1>1, <1>4 DEF MakeRd, Counted
<1>5. ASSUME UNCHANGED ddsVars PROVE Counted
    BY <1>2, <1>5 DEF ddsVars
<1>6. ASSUME NEW e \in Entities, Announce(e) \/ Dispose(e) \/ Unindex(e) \/ Drop(e)
      PROVE  Counted
    BY <1>2, <1>6 DEF Announce, Dispose, Unindex, Drop
<1>7. ASSUME NEW w \in Entities, NEW r \in Own, Arrive(w, r) PROVE Counted
    BY <1>5, <1>7 DEF Arrive
<1>8. ASSUME Open \/ EndHistory \/ InitialDrain \/ Echo PROVE Counted
    BY <1>5, <1>8 DEF Open, EndHistory, InitialDrain, Echo
<1>9. ASSUME NEW e \in Entities, History(e) PROVE Counted
    BY <1>5, <1>9 DEF History
<1>10. ASSUME NEW r \in Own, TakeMsg(r) PROVE Counted
    BY <1>5, <1>10 DEF TakeMsg
<1>11. ASSUME NEW b \in Kinds, HandleBuiltin(b) PROVE Counted
    BY <1>5, <1>11 DEF HandleBuiltin
<1>12. ASSUME NEW r \in Kinds \cup Own, Wait(r) PROVE Counted
    BY <1>5, <1>12 DEF Wait
<1>13. CASE UNCHANGED vars
    BY <1>5, <1>13 DEF vars
<1> QED  BY <1>3, <1>4, <1>6, <1>7, <1>8, <1>9, <1>10, <1>11, <1>12, <1>13
       DEF Next, Dds, AppStep

LEMMA MessageFacts ==
    ASSUME NEW w, NEW r, NEW n
    PROVE  /\ Message(w, r, n).kind = "message" /\ Message(w, r, n).from = w
           /\ Message(w, r, n).to = r /\ Message(w, r, n).life = life[w]
           /\ Notice.kind = "notice" /\ Nothing.kind = "nothing"
BY DEF Message, Notice, Nothing

\* The parts of Messages', for what a step leaves and what it makes of them.
Boxes == \A r \in Own : box'[r].kind = "message" => Still(box'[r]) /\ box'[r].to = r
Hand  == /\ pc' = "echo" => hand'.kind = "message" /\ Still(hand') /\ hand'.to \in Own
         /\ pc' # "echo" => hand' = Nothing
Line  == line'.kind = "message" => Still(line')

LEMMA MessagesParts ==
    ASSUME Boxes, Hand, Line
    PROVE  Messages'
BY DEF Boxes, Hand, Line, Messages, Authentic, Still

LEMMA MessagesNext ==
    ASSUME Typed, SetUp, Messages, [Next]_vars
    PROVE  Messages'
<1>1. \A m : Authentic(m) => Still(m)
    BY LifeGrows, AuthenticStays DEF Counted
<1>2. ASSUME box' = box PROVE Boxes
    BY <1>1, <1>2 DEF Messages, Boxes
<1>3. ASSUME UNCHANGED <<pc, hand>> PROVE Hand
    BY <1>1, <1>3 DEF Messages, Hand
<1>4. ASSUME hand' = hand, pc # "echo", pc' # "echo" PROVE Hand
    BY <1>4 DEF Messages, Hand
<1>5. ASSUME line' = line PROVE Line
    BY <1>1, <1>5 DEF Messages, Line
<1>6. ASSUME UNCHANGED <<box, hand, line>>, pc # "echo", pc' # "echo" PROVE Messages'
    BY <1>2, <1>4, <1>5, <1>6, MessagesParts
<1>7. ASSUME UNCHANGED <<box, hand, line, pc>> PROVE Messages'
    BY <1>2, <1>3, <1>5, <1>7, MessagesParts
<1>8. ASSUME NEW e \in Entities, Index(e) \/ Announce(e) \/ Dispose(e) \/ Unindex(e),
             UNCHANGED appVars
      PROVE  Messages'
    BY <1>7, <1>8 DEF Index, Announce, Dispose, Unindex, userVars, appVars, outVars
<1>9. ASSUME NEW e \in Entities, Drop(e), UNCHANGED appVars PROVE Messages'
  <2>1. UNCHANGED <<pc, hand, line>>
      BY <1>9 DEF appVars, outVars
  <2>2. \A r \in Own : box'[r] = Notice \/ box'[r] = box[r]
      BY <1>9 DEF Drop
  <2>3. Notice.kind = "notice"
      BY DEF Notice
  <2>4. Boxes
      BY <1>1, <2>2, <2>3 DEF Messages, Boxes
  <2> QED  BY <1>3, <1>5, <2>1, <2>4, MessagesParts
<1>10. ASSUME NEW w \in Entities, NEW r \in Own, Arrive(w, r), UNCHANGED appVars
       PROVE  Messages'
  <2>1. UNCHANGED <<pc, hand, line>>
      BY <1>10 DEF appVars, outVars
  <2>2. \A x \in Own : box'[x] = IF x = r THEN Message(w, r, arrived[r] + 1) ELSE box[x]
      BY <1>10 DEF Typed, Arrive
  <2>3. w \in Remote
      BY <1>10 DEF Typed, Arrive
  <2>4. Authentic(Message(w, r, arrived[r] + 1)) /\ Message(w, r, arrived[r] + 1).to = r
      BY <1>10, <2>3, MessageFacts DEF Typed, Authentic
  <2>5. Boxes
      BY <1>1, <2>2, <2>4 DEF Messages, Boxes
  <2> QED  BY <1>3, <1>5, <2>1, <2>5, MessagesParts
<1>11. CASE Open
    BY <1>6, <1>11 DEF Open, userVars, outVars
<1>12. CASE EndHistory
  <2>1. pc' # "echo"
      BY <1>12, AdvanceFacts DEF Typed, EndHistory
  <2> QED  BY <1>6, <1>12, <2>1 DEF EndHistory, userVars, outVars
<1>13. CASE InitialDrain
  <2>1. pc' # "echo"
      BY <1>13, AdvanceFacts DEF Typed, InitialDrain
  <2> QED  BY <1>6, <1>13, <2>1 DEF InitialDrain, userVars, outVars
<1>14. CASE Echo
  <2>1. PICK known \in Matched(hand) :
          line' = [kind |-> "message", from |-> hand.from, life |-> hand.life, to |-> hand.to,
                   known |-> known,
                   receivers |-> {e \in DOMAIN g_endpoints :
                                    /\ ~g_endpoints[e].is_publisher
                                    /\ g_endpoints[e].topic = Topic[hand.to]}]
      BY <1>14 DEF Echo
  <2>2. line'.from = hand.from /\ line'.life = hand.life
      BY <2>1
  <2>3. Line
      BY <1>1, <1>14, <2>2 DEF Messages, Authentic, Still, Line, Echo
  <2>4. Hand
      BY <1>14 DEF Echo, Hand
  <2>5. box' = box
      BY <1>14 DEF Echo, userVars
  <2> QED  BY <1>2, <2>3, <2>4, <2>5, MessagesParts
<1>15. ASSUME NEW e \in Entities, History(e) PROVE Messages'
    BY <1>7, <1>15 DEF History, userVars, outVars
<1>16. ASSUME NEW r \in Own, MakeRd(r) PROVE Messages'
    BY <1>6, <1>16 DEF MakeRd, userVars, outVars
<1>17. ASSUME NEW r \in Own, TakeMsg(r) PROVE Messages'
  <2>1. \A x \in Own : box'[x] = IF x = r THEN Nothing ELSE box[x]
      BY <1>17 DEF Typed, TakeMsg
  <2>2. Nothing.kind = "nothing"
      BY DEF Nothing
  <2>3. Boxes
      BY <1>1, <2>1, <2>2 DEF Messages, Boxes
  <2>4. Hand
    <3>1. CASE box[r].kind = "message"
        BY <1>1, <1>17, <3>1 DEF TakeMsg, Messages, Hand
    <3>2. CASE box[r].kind # "message"
        BY <1>4, <1>17, <3>2 DEF TakeMsg, Handled
    <3> QED  BY <3>1, <3>2
  <2>5. Line
      BY <1>5, <1>17 DEF TakeMsg
  <2> QED  BY <2>3, <2>4, <2>5, MessagesParts
<1>18. ASSUME NEW b \in Kinds, HandleBuiltin(b) PROVE Messages'
    BY <1>6, <1>18 DEF HandleBuiltin, Handled, userVars, outVars
<1>19. ASSUME NEW r \in Kinds \cup Own, Wait(r) PROVE Messages'
    BY <1>6, <1>19 DEF Wait, userVars, outVars
<1>20. CASE UNCHANGED vars
    BY <1>7, <1>20 DEF vars, userVars, outVars
<1> QED  BY <1>8, <1>9, <1>10, <1>11, <1>12, <1>13, <1>14, <1>15, <1>16, <1>17, <1>18, <1>19,
            <1>20 DEF Next, Dds, AppStep, appVars

LEMMA ListsItselfNext ==
    ASSUME Typed, Caches, Listed, Messages, ListsItself, [Next]_vars
    PROVE  ListsItself'
<1>1. ASSUME line' = line PROVE ListsItself'
    BY <1>1 DEF ListsItself
<1>2. CASE Echo
  <2> SUFFICES ASSUME Reachable PROVE line'.to \in line'.receivers
      BY DEF ListsItself, Reachable
  <2>1. PICK known \in Matched(hand) :
          line' = [kind |-> "message", from |-> hand.from, life |-> hand.life, to |-> hand.to,
                   known |-> known,
                   receivers |-> {e \in DOMAIN g_endpoints :
                                    /\ ~g_endpoints[e].is_publisher
                                    /\ g_endpoints[e].topic = Topic[hand.to]}]
      BY <1>2 DEF Echo
  <2>2. /\ line'.to = hand.to
        /\ line'.receivers = {e \in DOMAIN g_endpoints :
                                /\ ~g_endpoints[e].is_publisher
                                /\ g_endpoints[e].topic = Topic[hand.to]}
      BY <2>1
  <2>3. hand.to \in Own /\ Own \subseteq DOMAIN g_endpoints
      BY <1>2 DEF Echo, Messages, Listed, InLoop
  <2>4. g_endpoints[hand.to] = [topic |-> Topic[hand.to], is_publisher |-> Kind[hand.to] = "pub"]
      BY <2>3 DEF Caches, EntriesTrue
  <2>5. Kind[hand.to] = "sub"
      BY <2>3, KindFacts
  <2>6. g_endpoints[hand.to].topic = Topic[hand.to] /\ ~g_endpoints[hand.to].is_publisher
    <3>1. \A t, p : /\ [topic |-> t, is_publisher |-> p].topic = t
                    /\ [topic |-> t, is_publisher |-> p].is_publisher = p
        OBVIOUS
    <3>2. (Kind[hand.to] = "pub") = FALSE
        BY <2>5
    <3>3. g_endpoints[hand.to] = [topic |-> Topic[hand.to], is_publisher |-> FALSE]
        BY <2>4, <3>2
    <3> QED  BY <3>1, <3>3
  <2> QED  BY <2>2, <2>3, <2>6
<1> QED  BY <1>1, <1>2 DEF Next, Dds, AppStep, outVars, vars, Open, EndHistory, InitialDrain,
            History, MakeRd, TakeMsg, HandleBuiltin, Wait

\* Reached(m)', of a message of before.
StillReached(m) == m.from \in index' /\ m.life = life'[m.from] => m.from \in matches'[m.to]

\* Matches come, and go only with what has left the index.
Kept == \A r \in Own, w \in Remote \cap index : w \in matches[r] => w \in matches'[r]

LEMMA ReachedStays ==
    ASSUME Counted, Kept, NEW m, Authentic(m), m.to \in Own, Reached(m)
    PROVE  StillReached(m)
<1>1. m.from \in Remote /\ m.life \in Nat /\ m.life <= life[m.from] /\ m.from \in Entities
    BY KindFacts DEF Authentic
<1>2. \A a, b \in Nat : a <= b => a # b + 1
    OBVIOUS
<1>3. SUFFICES ASSUME m.from \in index', m.life = life'[m.from] PROVE m.from \in matches'[m.to]
    BY DEF StillReached
<1>4. life'[m.from] = life[m.from] /\ m.from \in index
    BY <1>1, <1>2, <1>3 DEF Counted
<1> QED  BY <1>1, <1>3, <1>4 DEF Kept, Reached

LEMMA MatchesKept ==
    ASSUME Typed, SetUp, [Next]_vars
    PROVE  Kept
<1>1. ASSUME matches' = matches PROVE Kept
    BY <1>1 DEF Kept
<1>2. ASSUME NEW e \in Entities, Announce(e) PROVE Kept
    BY <1>2 DEF Announce, Kept
<1>3. ASSUME NEW e \in Entities, Drop(e) PROVE Kept
  <2>1. e \notin index
      BY <1>3 DEF Typed, Drop
  <2> QED  BY <1>3, <2>1 DEF Drop, Kept
<1>4. ASSUME NEW r \in Own, MakeRd(r) PROVE Kept
  <2>1. \A x \in Own : matches[x] \subseteq matches'[x]
      BY <1>4 DEF Typed, MakeRd
  <2> QED  BY <2>1 DEF Kept
<1>5. CASE UNCHANGED userVars
    BY <1>1, <1>5 DEF userVars
<1>6. ASSUME NEW e \in Entities, Index(e) \/ Dispose(e) \/ Unindex(e) PROVE Kept
    BY <1>5, <1>6 DEF Index, Dispose, Unindex
<1>7. ASSUME NEW w \in Entities, NEW r \in Own, Arrive(w, r) PROVE Kept
    BY <1>1, <1>7 DEF Arrive
<1>8. ASSUME Open \/ EndHistory \/ InitialDrain \/ Echo PROVE Kept
    BY <1>5, <1>8 DEF Open, EndHistory, InitialDrain, Echo
<1>9. ASSUME NEW e \in Entities, History(e) PROVE Kept
    BY <1>5, <1>9 DEF History
<1>10. ASSUME NEW r \in Own, TakeMsg(r) PROVE Kept
    BY <1>1, <1>10 DEF TakeMsg
<1>11. ASSUME NEW b \in Kinds, HandleBuiltin(b) PROVE Kept
    BY <1>5, <1>11 DEF HandleBuiltin
<1>12. ASSUME NEW r \in Kinds \cup Own, Wait(r) PROVE Kept
    BY <1>5, <1>12 DEF Wait
<1>13. CASE UNCHANGED vars
    BY <1>5, <1>13 DEF vars
<1> QED  BY <1>2, <1>3, <1>4, <1>6, <1>7, <1>8, <1>9, <1>10, <1>11, <1>12, <1>13
       DEF Next, Dds, AppStep

\* The parts of Matching', for what a step leaves and what it makes of them.
BoxesReach == \A r \in Own : box'[r].kind = "message" => StillReached(box'[r])
HandReach  == pc' = "echo" => StillReached(hand')

LEMMA MatchingParts ==
    ASSUME BoxesReach, HandReach
    PROVE  Matching'
BY DEF BoxesReach, HandReach, Matching, Reached, StillReached

LEMMA MatchingNext ==
    ASSUME Typed, SetUp, Messages, Matching, [Next]_vars
    PROVE  Matching'
<1>1. \A m : Authentic(m) /\ m.to \in Own /\ Reached(m) => StillReached(m)
    BY LifeGrows, MatchesKept, ReachedStays
<1>2. ASSUME \A r \in Own : box'[r] = box[r] \/ box'[r].kind # "message" PROVE BoxesReach
  <2> SUFFICES ASSUME NEW r \in Own, box'[r].kind = "message" PROVE StillReached(box'[r])
      BY DEF BoxesReach
  <2>1. box'[r] = box[r] /\ box[r].kind = "message"
      BY <1>2
  <2>2. Authentic(box[r]) /\ box[r].to \in Own /\ Reached(box[r])
      BY <2>1 DEF Messages, Matching
  <2> QED  BY <1>1, <2>1, <2>2
<1>3. ASSUME pc' = "echo" => pc = "echo" /\ hand' = hand PROVE HandReach
  <2> SUFFICES ASSUME pc' = "echo" PROVE StillReached(hand')
      BY DEF HandReach
  <2>1. Authentic(hand) /\ hand.to \in Own /\ Reached(hand)
      BY <1>3 DEF Messages, Matching
  <2> QED  BY <1>1, <1>3, <2>1
<1>4. ASSUME box' = box, pc' = "echo" => pc = "echo" /\ hand' = hand PROVE Matching'
    BY <1>2, <1>3, <1>4, MatchingParts
<1>5. ASSUME NEW e \in Entities, Index(e) \/ Announce(e) \/ Dispose(e) \/ Unindex(e),
             UNCHANGED appVars
      PROVE  Matching'
    BY <1>4, <1>5 DEF Index, Announce, Dispose, Unindex, userVars, appVars, outVars
<1>6. ASSUME NEW e \in Entities, Drop(e), UNCHANGED appVars PROVE Matching'
  <2>1. \A r \in Own : box'[r] = Notice \/ box'[r] = box[r]
      BY <1>6 DEF Drop
  <2>2. Notice.kind # "message"
      BY DEF Notice
  <2>3. BoxesReach
      BY <1>2, <2>1, <2>2
  <2>4. HandReach
      BY <1>3, <1>6 DEF appVars, outVars
  <2> QED  BY <2>3, <2>4, MatchingParts
<1>7. ASSUME NEW w \in Entities, NEW r \in Own, Arrive(w, r), UNCHANGED appVars
      PROVE  Matching'
  <2> DEFINE new == Message(w, r, arrived[r] + 1)
  <2>1. \A x \in Own : box'[x] = IF x = r THEN new ELSE box[x]
      BY <1>7 DEF Typed, Arrive
  <2>2. new.from = w /\ new.to = r
      BY MessageFacts
  <2> HIDE DEF new
  <2>3. StillReached(new)
      BY <1>7, <2>2 DEF Arrive, StillReached
  <2>4. BoxesReach
    <3>1. \A x \in Own \ {r} : box[x].kind = "message" => StillReached(box[x])
        BY <1>1 DEF Messages, Matching
    <3> QED  BY <2>1, <2>3, <3>1 DEF BoxesReach
  <2>5. HandReach
      BY <1>3, <1>7 DEF appVars, outVars
  <2> QED  BY <2>4, <2>5, MatchingParts
<1>8. CASE Open
    BY <1>4, <1>8 DEF Open, userVars
<1>9. CASE EndHistory
  <2>1. pc' # "echo"
      BY <1>9, AdvanceFacts DEF Typed, EndHistory
  <2> QED  BY <1>4, <1>9, <2>1 DEF EndHistory, userVars
<1>10. CASE InitialDrain
  <2>1. pc' # "echo"
      BY <1>10, AdvanceFacts DEF Typed, InitialDrain
  <2> QED  BY <1>4, <1>10, <2>1 DEF InitialDrain, userVars
<1>11. CASE Echo
    BY <1>4, <1>11 DEF Echo, userVars
<1>12. ASSUME NEW e \in Entities, History(e) PROVE Matching'
    BY <1>4, <1>12 DEF History, userVars
<1>13. ASSUME NEW r \in Own, MakeRd(r) PROVE Matching'
    BY <1>4, <1>13 DEF MakeRd
<1>14. ASSUME NEW r \in Own, TakeMsg(r) PROVE Matching'
  <2>1. \A x \in Own : box'[x] = IF x = r THEN Nothing ELSE box[x]
      BY <1>14 DEF Typed, TakeMsg
  <2>2. Nothing.kind # "message"
      BY DEF Nothing
  <2>3. BoxesReach
      BY <1>2, <2>1, <2>2
  <2>4. HandReach
    <3>1. CASE box[r].kind = "message"
      <4>1. hand' = box[r]
          BY <1>14, <3>1 DEF TakeMsg
      <4>2. Authentic(box[r]) /\ box[r].to \in Own /\ Reached(box[r])
          BY <3>1 DEF Messages, Matching
      <4> QED  BY <1>1, <4>1, <4>2 DEF HandReach
    <3>2. CASE box[r].kind # "message"
        BY <1>3, <1>14, <3>2 DEF TakeMsg, Handled
    <3> QED  BY <3>1, <3>2
  <2> QED  BY <2>3, <2>4, MatchingParts
<1>15. ASSUME NEW b \in Kinds, HandleBuiltin(b) PROVE Matching'
    BY <1>4, <1>15 DEF HandleBuiltin, Handled, userVars
<1>16. ASSUME NEW r \in Kinds \cup Own, Wait(r) PROVE Matching'
    BY <1>4, <1>16 DEF Wait, userVars
<1>17. CASE UNCHANGED vars
    BY <1>4, <1>17 DEF vars, userVars, outVars
<1> QED  BY <1>5, <1>6, <1>7, <1>8, <1>9, <1>10, <1>11, <1>12, <1>13, <1>14, <1>15, <1>16,
            <1>17 DEF Next, Dds, AppStep, appVars

LEMMA UnknownNext ==
    ASSUME Typed, SetUp, Messages, Matching, UnknownOnlyIfGone, [Next]_vars
    PROVE  UnknownOnlyIfGone'
<1>1. Counted
    BY LifeGrows
<1>2. ASSUME line' = line PROVE UnknownOnlyIfGone'
  <2> SUFFICES ASSUME line.kind = "message", ~line.known
               PROVE  line.from \notin index' \/ line.life < life'[line.from]
      BY <1>2 DEF UnknownOnlyIfGone
  <2>1. /\ line.from \in Remote /\ line.from \in Entities
        /\ line.life \in Nat /\ line.life <= life[line.from]
      BY KindFacts DEF Messages, Authentic
  <2>2. line.from \notin index \/ line.life < life[line.from]
      BY DEF UnknownOnlyIfGone
  <2>3. \A a, b, c \in Nat : /\ a <= b => a < b + 1
                             /\ a < b /\ b <= c => a < c
      OBVIOUS
  <2> QED  BY <1>1, <2>1, <2>2, <2>3 DEF Counted
<1>3. CASE Echo
  <2>1. PICK known \in Matched(hand) :
          line' = [kind |-> "message", from |-> hand.from, life |-> hand.life, to |-> hand.to,
                   known |-> known,
                   receivers |-> {e \in DOMAIN g_endpoints :
                                    /\ ~g_endpoints[e].is_publisher
                                    /\ g_endpoints[e].topic = Topic[hand.to]}]
      BY <1>3 DEF Echo
  <2>2. line'.from = hand.from /\ line'.life = hand.life /\ line'.known = known
      BY <2>1
  <2>3. UNCHANGED <<index, life>>
      BY <1>3 DEF Echo, ddsVars
  <2>4. hand.life \in Nat /\ life[hand.from] \in Nat /\ hand.life <= life[hand.from]
      BY <1>1, <1>3, KindFacts DEF Echo, Messages, Authentic, Counted
  <2>5. Reached(hand)
      BY <1>3 DEF Echo, Matching
  <2>6. known \/ hand.from \notin index \/ hand.life < life[hand.from]
    <3>1. CASE hand.from \in matches[hand.to] \cap index /\ ~(hand.life < life[hand.from])
      <4>1. Matched(hand) = {TRUE}
          BY <3>1 DEF Matched
      <4> QED  BY <2>1, <4>1
    <3>2. CASE hand.from \in index /\ hand.from \notin matches[hand.to]
      <4>1. \A a, b \in Nat : a <= b /\ a # b => a < b
          OBVIOUS
      <4> QED  BY <2>4, <2>5, <3>2, <4>1 DEF Reached
    <3> QED  BY <3>1, <3>2
  <2> QED  BY <2>2, <2>3, <2>6 DEF UnknownOnlyIfGone
<1> QED  BY <1>2, <1>3 DEF Next, Dds, AppStep, outVars, vars, Open, EndHistory, InitialDrain,
            History, MakeRd, TakeMsg, HandleBuiltin, Wait

--------------------------------------------------------------------------------
(* The theorems.                                                             *)

\* The invariant holds to start with.
LEMMA InvInit ==
    ASSUME Init
    PROVE  IInv
<1> USE DEF Init
<1>1. Absent \in Instances /\ Absent.holds = "nothing" /\ ~Absent.alive
    BY DEF Absent, Instances
<1>2. inst \in [Entities -> Instances] /\ \A e \in Entities : inst[e] = Absent
    BY <1>1
<1>3. /\ queue \in [Kinds -> Seq(Entities)] /\ \A b \in Kinds : queue[b] = << >>
      /\ DOMAIN << >> = {}
    OBVIOUS
<1>4. DOMAIN g_endpoints = {}
    OBVIOUS
<1>5. \A e \in Entities : life[e] \in Nat /\ life[e] <= MaxLives[e]
    BY DiscoveryAssumption
<1>6. Typed
    BY <1>2, <1>3, <1>4, <1>5, KindFacts DEF Typed, Instances
<1>7. SetUp
    BY KindFacts DEF SetUp
<1>8. \A b \in Kinds : Queued(b)
    BY <1>1, <1>2, <1>3 DEF Queued
<1>9. Followed
    BY <1>1, <1>2 DEF Followed
<1>10. KeyIsDead /\ Mapped /\ EntriesTrue
    BY <1>1, <1>2, <1>4 DEF KeyIsDead, Mapped, EntriesTrue, Endpoints
<1>11. Listed
    BY DEF Listed, InLoop
<1>12. Messages /\ Matching /\ ListsItself /\ UnknownOnlyIfGone
    BY DEF Messages, Matching, ListsItself, UnknownOnlyIfGone, Nothing
<1> QED  BY <1>6, <1>7, <1>8, <1>9, <1>10, <1>11, <1>12 DEF IInv

\* Every step keeps the invariant.
LEMMA InvNext ==
    ASSUME IInv, [Next]_vars
    PROVE  IInv'
<1>1. /\ Typed /\ SetUp /\ Followed /\ Listed /\ Caches
      /\ Messages /\ Matching /\ ListsItself /\ UnknownOnlyIfGone
    BY DEF IInv, Caches, Typed, Instances
<1>2. Caches'
    BY <1>1, CachesNext
<1>3. Typed' /\ SetUp' /\ Followed'
    BY <1>1, TypedNext, SetUpNext, FollowedNext
<1>4. Listed' /\ Messages' /\ Matching' /\ ListsItself' /\ UnknownOnlyIfGone'
    BY <1>1, ListedNext, MessagesNext, MatchingNext, ListsItselfNext, UnknownNext
<1> QED  BY <1>2, <1>3, <1>4 DEF IInv, Caches

LEMMA Invariance == Spec => []IInv
BY InvInit, InvNext, PTL DEF Spec

\* Each builtin reader has an instance in its queue exactly once, and only while
\* there is something to take (the nonempty list of dds_rhc_default), whatever is
\* written, disposed of, revived and only partly taken.
THEOREM Types == Spec => []TypeOK
<1>1. ASSUME IInv PROVE TypeOK
  <2>1. Typed /\ Messages /\ \A b \in Kinds : Queued(b)
      BY <1>1 DEF IInv
  <2>2. \A e \in Entities : life[e] \in 0..MaxLives[e]
      BY <2>1, DiscoveryAssumption DEF Typed
  <2>3. \A b \in Kinds :
          LET waits == {e \in Entities : Kind[e] = b /\ inst[e].holds # "nothing"}
          IN  {queue[b][i] : i \in DOMAIN queue[b]} = waits /\ Len(queue[b]) = Cardinality(waits)
      BY <2>1, QueueLength
  <2>4. DOMAIN Builtin = 1..3
      BY DEF Builtin
  <2>5. pc = "echo" <=> hand # Nothing
      BY <2>1 DEF Messages, Nothing
  <2> QED  BY <2>1, <2>2, <2>3, <2>4, <2>5 DEF TypeOK, Typed
<1> QED  BY <1>1, Invariance, PTL

\* drain_endpoints (inspector.cpp:84) registers endpoints with their own topic and
\* role only: the key-only sample of a death never becomes an entry.
THEOREM TrueEntries == Spec => []EntriesTrue
<1>1. IInv => EntriesTrue
    BY DEF IInv
<1> QED  BY <1>1, Invariance, PTL

\* In the event loop, g_endpoints differs from the entity index by what waits to be
\* taken, by what is being written, and by ghosts.
THEOREM Synchrony == Spec => []InSync
<1>1. ASSUME IInv PROVE InSync
  <2> SUFFICES ASSUME InLoop, NEW e \in Endpoints, inst[e].holds = "nothing",
                      e \notin announcing \cup {deleting} \cup ghosts
               PROVE  e \in DOMAIN g_endpoints <=> e \in index
      BY DEF InSync
  <2>1. e \in Entities /\ Kind[e] \in Kinds
      BY KindFacts DEF Endpoints
  <2>2. Kind[e] \in open /\ ~Unvisited(e)
    <3>1. \A j \in 1..3 : Builtin[j] \in open
        BY <1>1 DEF IInv, SetUp, InLoop
    <3>2. \A b \in Kinds : \E j \in 1..3 : Builtin[j] = b
        BY DEF Kinds, Builtin
    <3> QED  BY <2>1, <3>1, <3>2 DEF InLoop, Unvisited
  <2>3. e \in DOMAIN g_endpoints <=> inst[e].alive
      BY <1>1 DEF IInv, Mapped
  <2>4. inst[e].alive <=> e \in index
      BY <1>1, <2>1, <2>2 DEF IInv, Followed
  <2> QED  BY <2>3, <2>4
<1> QED  BY <1>1, Invariance, PTL

\* drain_msg finds the inspector's own reader among the receivers of every message,
\* if the drain before the loop (inspector.cpp:252-255) can reach all readers.
THEOREM SelfListed == Spec => []ListsItself
<1>1. IInv => ListsItself
    BY DEF IInv
<1> QED  BY <1>1, Invariance, PTL

\* drain_msg prints "(unknown)" only for a sender that has gone: the match of a
\* writer that is in the index is there (dds_matched.c:206-215), however often the
\* writer has come back and however late gc_delete_proxy_writer has run.
THEOREM GoneIfUnknown == Spec => []UnknownOnlyIfGone
<1>1. IInv => UnknownOnlyIfGone
    BY DEF IInv
<1> QED  BY <1>1, Invariance, PTL

================================================================================
