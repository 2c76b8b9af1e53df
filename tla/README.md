# ddsplayground: TLA+ models, model-checking runs and proofs

`ddsplayground` is four small programs that talk through CycloneDDS 0.10.5 and
two that watch them, one on the wire and one as a DDS participant. This directory holds TLA+ modules of
the programs and of the parts of CycloneDDS they lean on, the TLC runs over
them, and theorems checked by TLAPS. `PROJECT.json` lists components, runs,
mutants, the source lines of every definition, findings and hazards; this file
says how it all hangs together.

CycloneDDS lives under
`src/bazel-dds/external/+cyclonedds_repository+cyclonedds/src/core/`. Below,
`ddsc/…` and `ddsi/…` mean that directory's `ddsc/src/…` and `ddsi/src/…`.

## 1. The system

```
 ping --PingPongTopic(int)--> pong --PongBazTopic(int)--> baz
   |                            ^                          |
   +--PingPongTopic--> hoge     +---BazPongTopic(string)---+

 src/inspector.cpp:           captures lo0 and en0 with libpcap, reads along
 src/bazel-dds/inspector.cpp: a participant; asks CycloneDDS who there is, and subscribes
```

`src/bazel-dds/` also holds copies of `ping.cpp`, `pong.cpp`, `baz.cpp` and
`hoge.cpp`, identical to those in `src/`; only its inspector is another program,
below the *discovery inspector*.

| part | state | operations | talks to |
|---|---|---|---|
| `ping.cpp` | loop counter `i` | poll for a match every 200 ms, then write `i` every second | CycloneDDS writer |
| `pong.cpp` | none between iterations; one waitset, two read conditions | wait, take, print, forward integers | two readers, one writer |
| `baz.cpp` | as pong, one reader | wait, take, print, reply `"baz:<i>"` | one reader, one writer |
| `hoge.cpp` | as baz, no writer | wait, take, print | one reader |
| `inspector.cpp` | `g_endpoints` (GUID to topic), print mode | dispatch the interfaces in turn, take packets apart, learn from SEDP, print | the wire |
| discovery inspector, `bazel-dds/inspector.cpp` | `g_endpoints` (GUID to topic and role) | drain the builtin readers and the user readers in turn, print | three builtin readers, one reader per user topic, waitset |
| reader history cache, `ddsc/dds_rhc_default.c` | instance, samples, invalid sample, writer registrations, counters, `m_trigger` | store, unregister writer, take, add read condition | delivering threads, program, waitset |
| waitset, `ddsc/dds_waitset.c`, `dds_entity.c`, `dds_readcond.c` | attached entities with a triggered prefix, observers of a condition | attach, wait, observer callback | program thread, delivering threads |
| writer and its cache, `ddsi/q_transmit.c`, `ddsc/dds_whc.c` | sequence numbers, unacknowledged samples (keep last 1), matched readers | write, retransmit, heartbeat | network |
| receive path, `ddsi/q_receive.c`, `q_radmin.c` | reorder buffers by writer | DATA, HEARTBEAT, ACKNACK, GAP | reader caches |
| builtin topics, `ddsc/dds_whc_builtintopic.c`, `ddsi/ddsi_proxy_endpoint.c` | the entity index | write an entity as alive or dead, visit the index for a new reader | the discovery inspector |
| discovery and leases, `ddsi/q_ddsi_discovery.c`, `ddsi_entity_match.c`, `q_lease.c`, `q_xevent.c` | proxies of remote participants and endpoints | SPDP, SEDP, match, lease expiry, liveliness | everything above |

The programs call CycloneDDS; its receive and lease threads fill the reader
caches and signal read conditions; the waitset wakes the program. Between
processes there are only RTPS messages. Nothing is persisted: a program that
is restarted begins anew with another GUID.

What is hard here, and what should be true (every item is in the hazards of
`PROJECT.json`, at its line):

* *Threads.* The waitset reads the triggers while deliverers change them, under
  three kinds of locks. No wake-up may be lost, none should be empty.
* *Redundant state.* The reader cache keeps a writer in one of two places and
  seven counters up to date step by step, and its self-check is compiled out of
  a release build. The cache has to be what it promises: keep-last, with
  notice of the last writer's death.
* *Discovery.* The two ends of a link find each other independently, and topics
  are volatile: what is written before a match is gone. ping starts to count on
  any match.
* *The wire.* Packets are lost, repeated and overtake each other, while samples
  have to come out in order, none of them twice, the newest for certain.
* *Crashes.* A dead program is noticed when its lease expires, and until then
  what it has sent may still arrive, even after what its successor sends.
* *Keep-last 1.* It is the default the programs do not change: whatever is not
  taken in time is overwritten, in the writer's cache and in the reader's.
* *The inspector* sees several interfaces one after the other, may start late
  and lose packets, and must not read outside a packet, whatever is in it.
* *The discovery inspector* mirrors an index that changes while it opens its
  readers, and looks a sender up only after it has taken the sample.

## 2. The modules

| module | models | composed with |
|---|---|---|
| `SampleCache` | abstract: what a keyless keep-last reader promises | implemented by `ReaderCache` |
| `ReaderCache` | `dds_rhc_default.c` | |
| `ReaderCacheProofs` | theorems about it | |
| `KeepLastLink` | abstract: some of what is written arrives, in order, nothing twice | implemented by `ReliableLink` |
| `ReliableLink` | DATA, HEARTBEAT, ACKNACK and GAP between one writer and one reader, over a network that loses, repeats and reorders | |
| `ReliableLinkProofs` | theorems about it | |
| `SortedSets` | a set of numbers in ascending order, without an operator for an argument | used by `ReliableLink` |
| `SortedSetsProofs` | lemmas about it | |
| `TakeLoop` | abstract: what arrives is taken, by the program, eventually | implemented by `WaitSet` |
| `WaitSet` | set-up and loop of pong with `dds_waitset.c` and its locks, against delivering threads | |
| `WaitSetProofs` | theorems about it | |
| `PingPongMesh` | the four programs and the links between them, with crashes | its cache of depth 1 is `SampleCache`, its fair `Take` is `TakeLoop`, its `net` with `Lose` and `Deliver` is `KeepLastLink` |
| `PingPongMeshProofs` | theorems about it | |
| `Inspector` | `inspector.cpp` by message, with the CycloneDDS traffic it sees | |
| `InspectorProofs` | theorems about it | |
| `PacketWalk` | `inspector.cpp` by byte range | |
| `PacketWalkProofs` | theorems about it | |
| `DiscoveryInspector` | `bazel-dds/inspector.cpp` with the entity index and builtin topics it follows | its `Wait` is `WaitSet` |
| `DiscoveryInspectorProofs` | theorems about it | |
| `MC*` | values of the constants for TLC | |

The layers meet at small interfaces. `ReaderCache` shows that `m_trigger`
follows what the cache holds (`TriggerExact`), which `WaitSet` takes for
granted by reducing a cache to "holds something". `WaitSet` shows that the
program takes whatever arrives (`Implements`), which `PingPongMesh` takes for
granted by giving `Take` weak fairness. `ReliableLink` shows that a matched
reader gets samples in order, nothing twice (`InOrder`), and the newest for
certain (`NewestArrives`), which `PingPongMesh` takes for granted in `Lose` and
in the fairness of `Deliver`.

Operators whose comment begins with `Slip:` are not part of a specification.
They are plausible mistakes; substituting one for the definition after it has
to break the property it is paired with in `PROJECT.json`.

### ReaderCache

One instance (the topics have no key), so the table of instances is `present`;
`samples` is the circular list `inst->latest`, oldest first; `wrcount`,
`wr_iid`, `wr_iid_islive` and `registrations` are the fields of that name, and
the counters are those of `struct dds_rhc_default`. Every operation runs under
`rhc->lock`, hence one action each: `Store` (`dds_rhc_default_store`, with its
register paths as `Register*`), `UnregisterWr`, `Take`, `AddReadCondition`.
Counters are changed by the increments of the code, not recomputed: that they
agree with the instance is `CountsExact`. Arithmetic of the counters is on
`Nat`; `CountsExact` bounds each by the size of the history, far from 2^32.

### WaitSet

A critical section is one action unless another thread can look into it. The
scan of `dds_waitset_wait_impl` reads one atomic `m_trigger` per step, keeping
`wait_lock`. A delivery is three steps because the signal needs two more locks:
`Deliver` (rhc->lock taken), `Signal` (m_observers_lock), `Notify` (wait_lock,
then all released). `dds_waitset_attach` is two: the entity enters the waitset
(`Attach`), then the waitset becomes its observer (`Link`). The condition
variable may wake up for no reason.

### ReliableLink

The writer's end (`seq`, `seq_xmit`, `whc`, what each reader has acknowledged),
the reader's end (the two reorder buffers, `in_sync`, `last_seq`), and `net`, the
set of packets under way. A handler is one action, for each of them runs under
the lock of the writer or of the proxy writer; writing and transmitting are two,
because a heartbeat can go out in between, and because `dds_write` gives the
lock up. A packet in `net` may arrive any number of times and in any order, and
`Send` may drop any packet, so loss, repetition and reordering need no actions
of their own.

The reader's end is the intricate one. A reader that is found late must not be
given old samples it has missed, while others of the same process may be far
ahead; so the proxy writer has a reorder buffer for those that are in sync and
a reader that is not has one of its own, and `maybe_set_reader_in_sync` decides
when it changes over. A first heartbeat sets the shared buffer to the end of
what the writer has, the reader's own to the beginning.

Left out: fragments (every sample of the programs fits a packet), the limits of
the reorder buffers and the count filters that reject repeated heartbeats and
acknowledgments; without the filters more packets are accepted than by the
code, which only adds behaviour. A second reader of the same writer (ping has
pong and hoge) is seen through its match, its acknowledgments and its reply to a
heartbeat, until which the writer owes it one as it does the first reader
(`replied`). The history is one deep, as in all programs.

Four things the model taught, none a contradiction of any promise in the code.
(a) The pre-emptive acknowledgment a new reader sends passes for the reply to a
heartbeat if the writer has written nothing yet (`q_receive.c:846, 931`): the
writer then falls silent towards a reader that has heard no heartbeat. `Settles`
holds all the same, because the reader repeats it until it has heard one.
(b) `handle_one_gap` gives the reader's own buffer nothing once the state is
`TLCATCHUP`; samples that a gap releases from it would be lost. With a history of
one this state never lasts (`NeverBetween`). (c) When nothing later is cached
`grow_gap_to_next_seq` ends a gap one too early, sometimes an empty one;
the next heartbeat makes up for it. (d) A heartbeat on the way of a sample may
count the sample before it is out; hence `KeptUntilGiven` and `NothingDisowned`
speak of `whc`, not of what has been transmitted.

### PingPongMesh

A link is a pair of programs. By link there are: the reader incarnations the
writer has matched and the reverse, the samples under way from each writer
incarnation (in order: the reliability protocol puts them in order before they
reach the cache), the reader's cache of one sample, the writers its instance
knows, and the invalid sample. `printed` records every line a program prints
about a sample. Each message carries the incarnations it comes from, which the
properties need and the programs cannot see.

A sample under way is lost for good only if a newer one of the same writer has
replaced it in the writer's cache, or the writer is dead (`Lose`); otherwise
the writer repeats it. Crashes are those of whole processes; the programs
handle no signals and never leave their loops. A lease expires only for a
program that is not running.

Two things the model taught, neither a contradiction of any promise in the
code. After pong is restarted, a straggler of the old pong can reach baz after
a sample of the new one; (a) pong may then print replies to its predecessor's
integers, out of order with its own, which is why `InOrder` compares messages
of one origin; (b) the straggler replaces the newer sample in baz's history of
one, and the newest integer is lost. So `LatestArrives` and `RoundTrip` have
the premise `Settled`: no dead predecessor of the writer is still matched.

### Inspector and PacketWalk

`Inspector` has one action per message CycloneDDS may send and one for
`pcap_dispatch` taking a packet from an interface; `line` is what the last
dispatched packet made it print. It captures the interfaces in `handles`: `main`
skips those it cannot open, and ends when none is left. A GUID is never used
twice. `created` and `closed` are CycloneDDS's side: the cache of a SEDP writer
holds an endpoint's announcement or, later, the sample of its deletion, and
sends either again. The announcements sent before the capture began or dropped
from it are recorded in `missed`; `news` counts how often an endpoint was called
new. A packet's bytes are reduced to `has`, what the code asks of them: data
(flag D), and in a parameter list the endpoint's GUID and its topic. The sample of
a deletion is the key alone with flag K (`write_and_fini_plist`), so `has_data`
keeps it from `decode_sedp`, and the map keeps its entry. Without a topic
`decode_sedp` learns nothing and without a GUID it files under the sender's
writer; CycloneDDS never sends such an announcement, so neither happens here, nor
the return for less than four bytes (167), which `PacketWalk` has. A packet has one
submessage: several are handled like packets that follow one another on the same
interface, which the interleavings include.

`PacketWalk` keeps no bytes: every field read from the packet may have any
value, and an action records how far the read goes (`hi`). A length field is
any member of `Lengths`, so the 16- and 32-bit fields of the code are covered
by any set of naturals. `size_t` is 64 bits wide here: sums of an offset and a
32-bit length do not overflow. On a 32-bit target the sum in `cdr_string`
(inspector.cpp:154) could, and the theorems would not apply.

### DiscoveryInspector

CycloneDDS first: `index` is the entity index; `Index` and `Announce` are the two
halves of creating a proxy entity (it is in the index before its builtin sample
is written), `Dispose` and `Unindex` those of deleting one (written as dead, still
in the index). Between the halves the program's thread may run. `matches` is
`rd->writers` of the inspector's readers, a set of GUIDs: `Announce` and `MakeRd`
add to it, and the garbage collector takes out of it (`Drop`) some time after
`Unindex`, when the reader may also be given notice. Until then the writer is in
`dropping`, and CycloneDDS remembers its participant as deleted and lets nothing in
under its GUIDs (`Remembered`). The two are needed together: with one match for
the old life and the new, a late `Drop` would unmatch a live writer. `inst` and
`queue` are the caches of the three builtin readers, by instance: "key" is the
sample without data that tells of a death. Then the program: `Open`, `History`
(`ddsi_deliver_historical_data`, which visits the index while it changes),
`MakeRd`, `InitialDrain`, and the loop `Wait`, `HandleBuiltin`, `TakeMsg`, `Echo`;
`TakeMsg` and `Echo` are two actions because the sender may vanish between the
take and the lookup (`dds_get_matched_publication_data`, which goes through the
reader's matches and resolves each in the index). `N` of the source, the
16 samples of one `dds_take`, is `MaxTake`.

A reader that is opened while an entity is being deleted can be handed the
entity by the visit of the index after its death has been written: the death
is lost and the entry stays for ever. These are `ghosts`; `InSync` and
`Converges` except them, and nothing else. That an own reader is listed from the
first message on (`ListsItself`) has the premise that one drain reaches all
subscriptions, that is that there are no more of them than `N`. Participants
are printed and not kept (`drain_participants`), so the run has none; the
argument `domain_id` of `build_filter` in the other inspector is not used.

## 3. The runs

| run | instance | states | shows |
|---|---|---|---|
| `reader_cache` | 3 writers, 2 values, depth 2, take 1, autodispose | 554 | all properties of `ReaderCache`, with full histories and partial takes |
| `waitset` | 2 readers, 2 deliverers | 784 | pong: no lost wake-up, no empty take, refinement of `TakeLoop` with liveness |
| `reliable_link` | 2 samples, 2 packets under way, another reader | 82 583 | the reliability protocol: refinement of `KeepLastLink`, the newest arrives, silence in the end |
| `mesh_loop` | 4 programs, no crash, 2 integers | 8 831 | delivery of the newest sample and the round trip |
| `mesh_crash` | ping, pong or baz dies, 1 crash, 2 integers | 109 973 | causality, order, round trip across a restart |
| `mesh_hoge` | one hoge, 3 integers | violation | finding 1 |
| `inspector` | 2 participants, 3 endpoints, 2 interfaces, 1 packet waiting on each | 1 337 174 | topics and NEW lines |
| `inspector_traffic` | the same | violation | finding 2 |
| `inspector_missed` | the same | violation | finding 3 |
| `discovery` | 2 remote writers, one of them twice, 1 own reader, take 1 | 106 131 | the mirror of the entity index, the echo's sender and receivers |
| `discovery_echo` | the same, 2 samples | violation | finding 4 |
| `packet_walk` | captures cut at 10 places, 6 lengths, 3 header sizes | 359 772 | bounds and termination of the parser |

*Why these bounds are enough to be of interest.* Three writers give the
transitions between no, one and several registrations in each direction, with
the cached writer among the survivors or not; depth 2 with takes of one gives
full, half-full and empty histories and takes that leave something behind. The
theorems cover any number of writers and any depth, the programs' one included.
Two readers are what pong has; two deliverers can be at the same and at
different readers. Two samples are needed for overwriting, order, and a reader
that is found before, between or after them; two packets for one to overtake the
other and for an answer to cross the next heartbeat. Two integers are needed for
overwriting and order, three (`mesh_hoge`) for a gap; two starts give one dead
and one live incarnation, and one crash is enough for the mixtures of section 2.
One packet per interface is enough for one interface to overtake the other; of
the three endpoints two share a topic and two a participant. A
writer that appears twice gives the revival of an instance whose death has not
been taken yet; takes of one leave instances behind. Captures end inside every
header; the lengths are 0, below a parameter header, a GUID, the fixed part of
DATA, and far too long.

Bounds are the constants `MaxStarts`, `MaxCrashes`, `MaxValue`, `MaxSeq`, `MaxNet`,
`MaxLives`, `MaxMessages` and `MaxWire`; `MaxTake` is a parameter of the code.
Without deadlock checking run only `mesh_*`, `reliable_link` and `discovery*`:
there the system comes to rest when ping has used up its integers, all is
acknowledged, or nobody comes or goes any more.

*Fairness.* `WaitSet`: the program's thread and a thread that holds a lock are
scheduled; nothing makes data arrive. `PingPongMesh`: discovery repeats its
messages until both ends have matched; a live reliable writer repeats its newest
sample until it is acknowledged (`Deliver` of a running writer); leases of dead
writers expire; the loops run. Starts, crashes, losses, and what a dead writer
has left in the network have no fairness. `ReliableLink`: the heartbeat and
acknowledgment timers of both ends fire while they are armed (`q_xevent.c`), and
of a packet that is sent again and again one arrives now and then (strong
fairness of its reception); a sample or an acknowledgment that is sent once may
be lost, and so may every pre-emptive one but some. `DiscoveryInspector`: threads
are scheduled, an entity that has been indexed is announced and one that has been
written as dead is removed, and a reader that has something is in the end
among those the waitset returns: `WaitSet` refines that. Nothing makes entities
come or go or samples arrive. `PacketWalk`: code runs. `Inspector` claims no
liveness.

### Findings

1. *hoge.cpp:1* says hoge "prints every integer from ping". It asks for
   reliability but leaves the history at keep-last 1, at both ends, so one that
   is not taken before the next is written is overwritten (`mesh_hoge`).
2. *inspector.cpp:15* says `--traffic` prints "only user-data DDS messages". All
   DATA not of SPDP or SEDP counts as user data (line 367), the participant
   liveliness messages of builtin writer `0x200c2` included, which CycloneDDS
   writes from the start. The property speaks of that mode alone, and the trace
   of `inspector_traffic` is one of it.
3. *inspector.cpp:397-398* says "SEDP DATA was missed. Inspector started after
   discovery completed" on any SEDP heartbeat while no endpoint is known.
   CycloneDDS sends such heartbeats 1 ms after a match, with or without SEDP
   samples (`ddsi_entity_match.c:744-766`), to an inspector that has missed
   nothing (`inspector_missed`).
4. *bazel-dds/inspector.cpp:1-3* says the program "echoes every message on every
   user topic". Its readers keep the default history of one (196), so a message
   that arrives while another reader's is printed is overwritten by the next
   (`discovery_echo`).

## 4. The proofs

`ReaderCacheProofs`: for every set of writers and values, every depth and take
size, with or without autodispose (assumption `ConstantsAssumption`),
`Spec => []TypeOK`, `[]RegistrationsConsistent`, `[]CountsExact`,
`[]TriggerExact`, `[]NoOrphan`, and `Spec => SC!Spec`, the refinement of
`SampleCache` with `writers <- Registered`, `queue <- samples` and
`notice <- inv_exists`. The inductive invariant `IInv` is the conjunction of
these properties and of what they need of each other: a cached writer is a
writer; an instance that is disposed has no writers; an invalid sample exists
only beside an empty history; an absent instance is not new. Registrations are the core:
`wrcount` is the cardinality of `Registered`, a set that is read from the cache
or from the table depending on `wrcount` itself, so `RegisterFacts` and
`UnregisterManyFacts` settle each path once. Counters then follow from the
change of the one instance, the trigger from `Empty`, and the
refinement from the same facts.

`PacketWalkProofs`: for all capture lengths, header lengths and length fields
(`LengthsAssumption`), `[]TypeOK` (no unsigned difference wraps around),
`[]ReadsInside`, `[]PayloadInside`. They are inductive together with one more
conjunct, `LimitInside`: while a DATA submessage is worked on its end is inside
the message.

`WaitSetProofs`: for any number of readers, in any order of attachment, and any
number of delivering threads (`OrderAssumption`, `ThreadsAssumption`), `[]TypeOK`,
`[]AttachedOnce`, `[]NoEmptyTake`, `[]NoLostWakeup`, and that every step is a step
of `TakeLoop` or none. The inductive invariant adds: what the set-up phase has
reached (`SetUp`); that the entities are the attached conditions, each once
(`Held`), for which a lemma on swapping two entries is proved once; that a
condition is triggered exactly while its reader holds something, and that a
locked reader holds something (`Triggers`); that what the scan has left behind
untriggered holds nothing or has its reader locked by a thread that has yet to
signal (`Noticed`); and that returned readers differ (`Returned`), without which
the second take of a reader would find it empty. `m_observers_lock` turns out to
play no part in these safety properties: a signal that comes between the two
halves of an attach is made up for by the scan.

`InspectorProofs`: for any programs, endpoints, interfaces and queue lengths
(`InspectorAssumption`), `[]TypeOK`, `[]TopicsResolved` and `[]NewOnce`. The
strengthening says that only entitled senders' packets wait on an interface,
topics only with the GUID of their endpoint (`Captured`), and that the map is
exactly what announcements have been dispatched of (`Known`).

`PingPongMeshProofs`: for any number of integers, hoges, starts and crashes of any
programs (`MeshAssumption`), `[]TypeOK`, `[]Causal` and `InOrder`. A message
*flows* over a link: it is under way, then in the reader's history, then
printed. The inductive invariant says of every link that what flows has a cause
(`LinkCaused`: an incarnation of `pong` or `baz` writes only what that incarnation
has printed), names a start there has been (`LinkBounded`), and keeps ping's
order, from the newest under way down to what is printed (`LinkOrdered`); and
that what the running writer writes next is newer than all that flows from it
(`LinkFed`). `LinkFed` is what ties the links together: of `ping` it says that
`next_i` is ahead; of `pong` and `baz`, that the sample in hand is newer than all
they have answered, which holds because it was newer than all they had printed
(`TakeFeeds`). A message names the incarnation that has written it
(`WriterOfMessage`), so a restarted program is a new origin and its predecessor's
stragglers break no order. One lemma each says what losing, sending, delivering
and taking does to a link (`LinkShrinks`, `LinkGrows`, `LinkDelivers`,
`LinkTakes`); the lemmas on the actions choose between them.

`DiscoveryInspectorProofs`: for any finite set of entities of any kinds, any own
readers among the subscriptions, any number of lives and any length of a take
(`DiscoveryAssumption`), `[]TypeOK`, `[]EntriesTrue`, `[]InSync`, `[]ListsItself`
and `[]UnknownOnlyIfGone`. Two comparisons carry the argument. `Followed`: the
instance in a builtin reader is alive as its entity is in the index, but for what
is being announced, being disposed of, or yet to be visited by the history of a
reader just opened, and for ghosts. `Mapped`: the map has an endpoint as its
instance is alive, but for what waits to be taken. `InSync` is their composition
once all three readers are open (`SetUp`). `Queued`, every instance with something
to take waits exactly once in the queue of its reader, keeps `Mapped` true through a
take cut off after `MaxTake`; `KeyIsDead` is what makes `EntriesTrue` inductive. For
`ListsItself` the queue of the subscriptions is no longer than there are
subscriptions, so that the first drain empties it (`Listed`); for
`UnknownOnlyIfGone` a message carries a life its sender has had (`Messages`), and
the match that let it in is still there when it waits or is in hand, as long as
its sender is in the index in that life (`Reached`, `Matching`): `Drop` takes matches
of entities only that are not in the index (`Typed`, by `Remembered`).

`ReliableLinkProofs`: for any number of samples and of packets under way
(`LinkAssumption`), `[]TypeOK`, `[]KeptUntilGiven`, `[]NothingDisowned`,
`[]NeverBetween`, and `Spec => InOrder`, the refinement of `KeepLastLink`: a step
that gives the reader samples is a `Give`, `Write` is `Write`, every other step
changes neither. None of the properties is inductive; they hold one another up in
a circle through both ends and the network. As long as the reader is due the last
sample, neither of its buffers has passed it or takes it for lost
(`StillAwaited`). Hence no acknowledgment covers it, neither one under way
(`Honest`) nor one processed (`Unacknowledged`). Hence the writer keeps it
(`Cached`, with a history of one nothing else). Hence no heartbeat and no gap
denies it (`Honest` again; `ResendHonest` for gaps that grow over what is not
cached). Hence no buffer gives it up. Gaps that were
honest stay so when a newer sample is written, since all that is under way is
about earlier numbers (`Packet`, `WriteStep`). For `NeverBetween` and the order across
the switch of buffers, `Phases`: a reader out of sync knows nothing in its own
buffer that the primary one does not know, its own is behind and past the end of
the old samples, so when the two meet the samples delivered reach that end and
the reader is in sync at once. What a sample or a gap does to a single buffer is
proved once (`SampleMoves`, `GapMoves`, in terms of `Moved`). `IInv` was
checked by TLC with 2 and with 3 samples before it was proved. `SortedSetsProofs`
has the facts about least elements and about `Sorted`, which stands in for
`SetToSortSeq` of the community modules, an operator with an operator for an
argument.

Only model-checked: the liveness properties (`LatestArrives`, `RoundTrip`,
`NewestArrives`, `Settles`, `Converges`, `Terminates`, and of `Implements` of
`WaitSet` the fairness; that its steps are those of `TakeLoop` is proved). Liveness
under fairness, and ENABLED, are beyond the prover, as is induction over data.
Every invariant, and every property of the passing runs that is not about
liveness, is a theorem. No module has a RECURSIVE operator.

## 5. Not modelled, and why

* Fragments, the reorder and defragmentation limits, the delivery queue,
  best-effort and transient-local readers, histories deeper than one on the
  wire: not used by the programs. The count filters of the protocol: see
  section 2.
* dispose, explicit unregister, read without take, query conditions, keys (but
  for the builtin topics), lifespan, deadline, exclusive ownership, finite waits,
  detach: not used by the programs.
* Errors of CycloneDDS calls. In the default configuration a keep-last write
  never waits for space; the programs end when an entity cannot be created.
* A sample that is multicast for one reader and also taken by another one that
  its writer has not matched yet: `PingPongMesh` gives a sample to the readers
  matched when it is written.
* A lease that expires though its program lives (a network outage longer than
  the lease), except in `DiscoveryInspector`, where an entity may come back under
  its GUID.
* Serialization, type system, configuration, transports, security, shared
  memory: third-party infrastructure without state of this system.
* Generated code, IDL, Bazel files: no behaviour.
* Layout and wording of what is printed, `--verbose`, command-line parsing.

## 6. Plan

1. Lease expiry (`q_lease.c`): renewal by a receive thread racing the check of
   the lease thread; then false expiry and rediscovery in `PingPongMesh`.
2. `ReaderCache`: dispose and explicit unregister with keys, which would replace
   the caches of the builtin readers in `DiscoveryInspector`; `read`.
3. `ReliableLink` with a history of any depth, where the state `TLCATCHUP` lasts.
