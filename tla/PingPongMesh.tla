------------------------------ MODULE PingPongMesh ------------------------------
(***************************************************************************)
(* The four programs and the DDS links between them:                         *)
(*                                                                           *)
(*   ping --PingPongTopic--> pong --PongBazTopic--> baz --BazPongTopic--> pong *)
(*   ping --PingPongTopic--> hoge (any number of them)                       *)
(*                                                                           *)
(* A link has the QoS the programs ask for: reliable, volatile and, by        *)
(* default, keep-last 1 on both sides.  Its two ends discover each other      *)
(* independently.  Programs start in any order, may crash and start again;    *)
(* start number n of a program is its n-th incarnation.                      *)
(***************************************************************************)
EXTENDS Integers, Sequences, FiniteSets

CONSTANTS
    ping, pong, baz, \* the programs
    Hoges,           \* instances of hoge
    Mortal,          \* programs that may crash
    MaxStarts,       \* bound: how often a program is started
    MaxCrashes,      \* bound: how often a program dies
    MaxValue         \* bound: ping publishes 0 .. MaxValue - 1

ASSUME MeshAssumption ==
    /\ Cardinality({ping, pong, baz}) = 3
    /\ Hoges \cap {ping, pong, baz} = {}
    /\ Mortal \subseteq {ping, pong, baz} \cup Hoges
    /\ MaxStarts \in Nat \ {0}
    /\ MaxCrashes \in Nat
    /\ MaxValue \in Nat \ {0}

Programs == {ping, pong, baz} \cup Hoges

\* A link is its writer's and its reader's program.
Links == {<<ping, pong>>, <<pong, baz>>, <<baz, pong>>} \cup {<<ping, h>> : h \in Hoges}
From(L) == L[1]
To(L)   == L[2]

Starts == 1..MaxStarts
StartsOf(p) == IF p \in Mortal THEN Starts ELSE {1}

\* What travels: the integer i of ping, or baz's string for it.  The properties
\* need to know where it comes from: src is the incarnation of ping, via the
\* incarnation of pong that has forwarded it (0: none).
Msg(kind, vias) == [kind : {kind}, src : StartsOf(ping), via : vias, i : 0..MaxValue-1]
Msgs(L) == IF From(L) = ping THEN Msg("int", {0})
           ELSE Msg(IF From(L) = baz THEN "text" ELSE "int", StartsOf(pong))

VARIABLES
    up,           \* programs that run
    inc,          \* their incarnation, 0 before the first start
    polling,      \* ping has not yet seen a matching subscriber
    next_i,       \* ping's loop variable
    pubMatched,   \* reader incarnations the writer of a link has matched
    subMatched,   \* writer incarnations the reader of a link has matched
    net,          \* by link and writer incarnation: samples under way, in order
    cache,        \* the reader's history: at most one sample and its writer
    known,        \* writers the reader's instance knows
    notice,       \* the reader holds the invalid sample "no writers left"
    hand,         \* samples a program has taken and printed, not yet answered
    printed       \* every sample printed, with the incarnations of both ends

linkVars == <<pubMatched, subMatched, net, cache, known, notice>>
pingVars == <<polling, next_i>>
vars     == <<up, inc, pingVars, linkVars, hand, printed>>

Silence == [n \in Starts |-> <<>>]

Init ==
    /\ up = {}
    /\ inc = [p \in Programs |-> 0]
    /\ polling = TRUE
    /\ next_i = 0
    /\ pubMatched = [L \in Links |-> {}]
    /\ subMatched = [L \in Links |-> {}]
    /\ net = [L \in Links |-> Silence]
    /\ cache = [L \in Links |-> <<>>]
    /\ known = [L \in Links |-> {}]
    /\ notice = [L \in Links |-> FALSE]
    /\ hand = [p \in Programs |-> <<>>]
    /\ printed = [L \in Links |-> {}]

\* Incarnation n of program p is running.
Running(p, n) == p \in up /\ inc[p] = n

--------------------------------------------------------------------------------
(* Programs come and go.                                                     *)

\* main: participant, readers and writers are created; nothing is known yet.
Start(p) ==
    /\ p \notin up
    /\ inc[p] < MaxStarts
    /\ up' = up \cup {p}
    /\ inc' = [inc EXCEPT ![p] = @ + 1]
    /\ UNCHANGED <<pingVars, linkVars, hand, printed>>

\* Incarnations that are no more.
Crashed == {pn \in Programs \X Starts : pn[2] <= inc[pn[1]] /\ ~Running(pn[1], pn[2])}

\* The process dies (none of the programs ever leaves its loop or handles a
\* signal).  Its peers notice nothing yet; what it sent may still arrive.
Crash(p) ==
    LET gone(f, empty, Side(_)) == [L \in Links |-> IF Side(L) = p THEN empty ELSE f[L]]
    IN  /\ p \in up \cap Mortal
        /\ Cardinality(Crashed) < MaxCrashes
        /\ up' = up \ {p}
        /\ polling' = (polling \/ p = ping)
        /\ next_i' = IF p = ping THEN 0 ELSE next_i
        /\ pubMatched' = gone(pubMatched, {}, From)
        /\ subMatched' = gone(subMatched, {}, To)
        /\ net' = gone(net, Silence, To)
        /\ cache' = gone(cache, <<>>, To)
        /\ known' = gone(known, {}, To)
        /\ notice' = gone(notice, FALSE, To)
        /\ hand' = [hand EXCEPT ![p] = <<>>]
        /\ UNCHANGED <<inc, printed>>

--------------------------------------------------------------------------------
(* CycloneDDS: discovery, transport, the reader's cache (depth 1).           *)

\* writer_add_connection: from now on the writer sends to this reader.
WriterMatches(L) ==
    /\ {From(L), To(L)} \subseteq up
    /\ inc[To(L)] \notin pubMatched[L]
    /\ pubMatched' = [pubMatched EXCEPT ![L] = @ \cup {inc[To(L)]}]
    /\ UNCHANGED <<up, inc, pingVars, subMatched, net, cache, known, notice, hand, printed>>

\* proxy_writer_add_connection: from now on the reader accepts its data.
ReaderMatches(L) ==
    /\ {From(L), To(L)} \subseteq up
    /\ inc[From(L)] \notin subMatched[L]
    /\ subMatched' = [subMatched EXCEPT ![L] = @ \cup {inc[From(L)]}]
    /\ UNCHANGED <<up, inc, pingVars, pubMatched, net, cache, known, notice, hand, printed>>

\* The lease of a reader's program has expired.
WriterForgets(L, ri) ==
    /\ ri \in pubMatched[L]
    /\ ~Running(To(L), ri)
    /\ pubMatched' = [pubMatched EXCEPT ![L] = @ \ {ri}]
    /\ UNCHANGED <<up, inc, pingVars, subMatched, net, cache, known, notice, hand, printed>>

\* The lease of a writer's program has expired: what it sent no longer comes,
\* and an instance with neither writer nor sample gets an invalid sample.
ReaderForgets(L, wi) ==
    /\ wi \in subMatched[L]
    /\ ~Running(From(L), wi)
    /\ subMatched' = [subMatched EXCEPT ![L] = @ \ {wi}]
    /\ net' = [net EXCEPT ![L][wi] = <<>>]
    /\ known' = [known EXCEPT ![L] = @ \ {wi}]
    /\ notice' = [notice EXCEPT ![L] = @ \/ (known[L] = {wi} /\ cache[L] = <<>>)]
    /\ UNCHANGED <<up, inc, pingVars, pubMatched, cache, hand, printed>>

\* dds_write: a sample for every reader the writer has matched by now.
Write(p, m) ==
    net' = [L \in Links |->
              IF From(L) = p /\ To(L) \in up /\ inc[To(L)] \in pubMatched[L]
                THEN [net[L] EXCEPT ![inc[p]] = Append(@, m)] ELSE net[L]]

\* Slip: best effort instead of reliable.
LoseAny(L, wi) ==
    /\ net[L][wi] # <<>>
    /\ net' = [net EXCEPT ![L][wi] = Tail(@)]
    /\ UNCHANGED <<up, inc, pingVars, pubMatched, subMatched, cache, known, notice, hand, printed>>

\* A sample is lost for good: the packet was, and the writer cannot send it
\* again, as a newer one has replaced it in its keep-last cache (whc_default
\* _insert) or the writer is no more.
Lose(L, wi) ==
    /\ net[L][wi] # <<>>
    /\ Len(net[L][wi]) > 1 \/ ~Running(From(L), wi)
    /\ net' = [net EXCEPT ![L][wi] = Tail(@)]
    /\ UNCHANGED <<up, inc, pingVars, pubMatched, subMatched, cache, known, notice, hand, printed>>

\* Slip: keep-all.
PutBehind(L, e) == Append(cache[L], e)

\* add_sample in a full history of depth 1.
Put(L, e) == <<e>>

\* The next sample of a writer reaches the reader's cache.
Deliver(L, wi) ==
    /\ wi \in subMatched[L]
    /\ net[L][wi] # <<>>
    /\ net' = [net EXCEPT ![L][wi] = Tail(@)]
    /\ cache' = [cache EXCEPT ![L] = Put(L, [m |-> Head(net[L][wi]), wi |-> wi])]
    /\ known' = [known EXCEPT ![L] = @ \cup {wi}]
    /\ notice' = [notice EXCEPT ![L] = FALSE]
    /\ UNCHANGED <<up, inc, pingVars, pubMatched, subMatched, hand, printed>>

--------------------------------------------------------------------------------
(* ping.cpp                                                                  *)

\* The poll every 200 ms: any matched reader will do, a dead one included.
PollMatched ==
    /\ ping \in up /\ polling
    /\ \E L \in Links : From(L) = ping /\ pubMatched[L] # {}
    /\ polling' = FALSE
    /\ UNCHANGED <<up, inc, next_i, linkVars, hand, printed>>

\* One round of the publish loop.  i advances even if nobody is there.
Publish ==
    /\ ping \in up /\ ~polling
    /\ next_i < MaxValue
    /\ Write(ping, [kind |-> "int", src |-> inc[ping], via |-> 0, i |-> next_i])
    /\ next_i' = next_i + 1
    /\ UNCHANGED <<up, inc, polling, pubMatched, subMatched, cache, known, notice, hand, printed>>

--------------------------------------------------------------------------------
(* pong.cpp, baz.cpp, hoge.cpp                                               *)

\* The links whose samples are answered: pong forwards, baz replies.
Answered == {<<ping, pong>>, <<pong, baz>>}

\* Slip: valid_data is not looked at; an invalid sample reads as zero.
TakeInvalid(L) ==
    /\ To(L) \in up /\ hand[To(L)] = <<>>
    /\ cache[L] # <<>> \/ notice[L]
    /\ LET e == IF cache[L] # <<>> THEN Head(cache[L])
                ELSE [m |-> [kind |-> IF From(L) = baz THEN "text" ELSE "int",
                             src |-> inc[ping], i |-> 0,
                             via |-> IF From(L) = ping THEN 0 ELSE inc[pong]],
                      wi |-> inc[From(L)]]
       IN  /\ printed' = [printed EXCEPT ![L] = @ \cup {[m |-> e.m, wi |-> e.wi, ri |-> inc[To(L)]]}]
           /\ hand' = [hand EXCEPT ![To(L)] = IF L \in Answered THEN <<e.m>> ELSE <<>>]
    /\ cache' = [cache EXCEPT ![L] = <<>>]
    /\ notice' = [notice EXCEPT ![L] = FALSE]
    /\ UNCHANGED <<up, inc, pingVars, pubMatched, subMatched, net, known>>

\* dds_take and the loop over what it returned, up to the write: a sample is
\* printed, an invalid one (valid_data = false) is skipped.
Take(L) ==
    /\ To(L) \in up /\ hand[To(L)] = <<>>
    /\ cache[L] # <<>> \/ notice[L]
    /\ IF cache[L] # <<>>
         THEN LET e == Head(cache[L])
              IN  /\ printed' = [printed EXCEPT ![L] =
                                   @ \cup {[m |-> e.m, wi |-> e.wi, ri |-> inc[To(L)]]}]
                  /\ hand' = [hand EXCEPT ![To(L)] = IF L \in Answered THEN <<e.m>> ELSE <<>>]
         ELSE UNCHANGED <<printed, hand>>
    /\ cache' = [cache EXCEPT ![L] = <<>>]
    /\ notice' = [notice EXCEPT ![L] = FALSE]
    /\ UNCHANGED <<up, inc, pingVars, pubMatched, subMatched, net, known>>

\* Slip: the loop variable is used instead of the value received.
AnswerNext(p, m) ==
    IF p = baz THEN [m EXCEPT !.kind = "text", !.i = (m.i + 1) % MaxValue]
               ELSE [m EXCEPT !.via = inc[pong], !.i = (m.i + 1) % MaxValue]

\* pong forwards the integer itself, baz replies "baz:" and its digits.
Answer(p, m) == IF p = baz THEN [m EXCEPT !.kind = "text"]
                           ELSE [m EXCEPT !.via = inc[pong]]

\* Slip: what was taken is printed and not answered.
RespondNot(p) ==
    /\ hand[p] # <<>>
    /\ hand' = [hand EXCEPT ![p] = <<>>]
    /\ UNCHANGED <<up, inc, pingVars, linkVars, printed>>

\* dds_write of the answer; its result is not looked at.
Respond(p) ==
    /\ hand[p] # <<>>
    /\ Write(p, Answer(p, Head(hand[p])))
    /\ hand' = [hand EXCEPT ![p] = <<>>]
    /\ UNCHANGED <<up, inc, pingVars, pubMatched, subMatched, cache, known, notice, printed>>

--------------------------------------------------------------------------------
Next ==
    \/ \E p \in Programs : Start(p) \/ Crash(p) \/ Respond(p)
    \/ \E L \in Links : WriterMatches(L) \/ ReaderMatches(L) \/ Take(L)
    \/ \E L \in Links, n \in Starts :
         WriterForgets(L, n) \/ ReaderForgets(L, n) \/ Lose(L, n) \/ Deliver(L, n)
    \/ PollMatched
    \/ Publish

\* Discovery reaches whoever stays, a reliable writer repeats its newest sample
\* until it is acknowledged, the waitset loops take and answer (TakeLoop), and
\* ping's loop goes on.  Starts, crashes and losses are not fair.
Fairness ==
    /\ \A L \in Links : WF_vars(WriterMatches(L)) /\ WF_vars(ReaderMatches(L)) /\ WF_vars(Take(L))
    /\ \A L \in Links, n \in Starts :
         WF_vars(Running(From(L), n) /\ Deliver(L, n)) /\ WF_vars(ReaderForgets(L, n))
    /\ \A p \in Programs : WF_vars(Respond(p))
    /\ WF_vars(PollMatched) /\ WF_vars(Publish)

Spec == Init /\ [][Next]_vars /\ Fairness

--------------------------------------------------------------------------------
(* Properties.                                                               *)

\* Every variable has its type; a reader's history holds one sample at most.
TypeOK ==
    /\ up \in SUBSET Programs
    /\ inc \in [Programs -> 0..MaxStarts]
    /\ polling \in BOOLEAN
    /\ next_i \in 0..MaxValue
    /\ pubMatched \in [Links -> SUBSET Starts]
    /\ subMatched \in [Links -> SUBSET Starts]
    /\ \A L \in Links :
         /\ net[L] \in [Starts -> Seq(Msgs(L))]
         /\ cache[L] \in Seq([m : Msgs(L), wi : Starts]) /\ Len(cache[L]) <= 1
         /\ printed[L] \in SUBSET [m : Msgs(L), wi : Starts, ri : Starts]
    /\ known \in [Links -> SUBSET Starts]
    /\ notice \in [Links -> BOOLEAN]
    /\ \A p \in Programs : hand[p] \in Seq(Msg("int", Starts \cup {0}))

\* Messages of one origin that a program has from one incarnation of its writer.
SameOrigin(e, f) ==
    e.wi = f.wi /\ e.ri = f.ri /\ e.m.src = f.m.src /\ e.m.via = f.m.via

\* A running program has taken the sample in its reader's cache.
Taken(L) == cache[L] # <<>> /\ cache'[L] = <<>> /\ To(L) \in up'

\* A program prints what has one origin in the order ping counted, and nothing
\* twice, through losses, overwritten samples, invalid samples, and crashes and
\* restarts of any program.  (Replies to two incarnations of pong may be mixed:
\* what the first one sent can reach baz after what the second one sends.)
InOrder ==
    [][\A L \in Links :
         /\ Taken(L) => printed'[L] # printed[L]
         /\ \A e \in printed'[L] \ printed[L], f \in printed[L] :
              SameOrigin(e, f) => e.m.i > f.m.i]_vars

\* Nothing is printed out of thin air: baz prints what pong has printed, and
\* pong prints replies to what baz has printed, whichever of them died since.
Causal ==
    /\ \A e \in printed[<<pong, baz>>] : \E f \in printed[<<ping, pong>>] :
         e.m = [f.m EXCEPT !.via = e.wi] /\ f.ri = e.wi
    /\ \A e \in printed[<<baz, pong>>] : \E f \in printed[<<pong, baz>>] :
         e.m = [f.m EXCEPT !.kind = "text"] /\ f.ri = e.wi

\* The programs of the link run, and no dead predecessor of the writer is still
\* matched: a straggler of it could replace a newer sample in the reader's
\* history, and the newer one would be lost.
Settled(L) == {From(L), To(L)} \subseteq up /\ subMatched[L] \subseteq {inc[From(L)]}

\* m is the newest sample on its way to the reader.
Newest(L, m) ==
    LET q == net[L][inc[From(L)]] IN q # <<>> /\ q[Len(q)] = m

\* What is written for a matched reader is printed there, unless a newer sample
\* is written or one of the two programs dies.
LatestArrives ==
    \A L \in Links : \A m \in Msgs(L) :
        (Settled(L) /\ Newest(L, m))
          ~> \/ [m |-> m, wi |-> inc[From(L)], ri |-> inc[To(L)]] \in printed[L]
             \/ ~({From(L), To(L)} \subseteq up)
             \/ \E n \in Msgs(L) \ {m} : Newest(L, n)

\* A reply to m or to something later has been printed by pong.
HasReply(m) == \E e \in printed[<<baz, pong>>] :
    /\ e.wi = inc[baz] /\ e.ri = inc[pong]
    /\ e.m.src = m.src /\ e.m.i >= m.i

\* The round trip: an integer written for pong while pong and baz have found
\* each other comes back to pong as baz's reply, or a newer one does, unless
\* one of the three programs dies.
RoundTrip ==
    \A m \in Msgs(<<ping, pong>>) :
        ( /\ \A L \in {<<ping, pong>>, <<pong, baz>>, <<baz, pong>>} : Settled(L)
          /\ inc[baz] \in pubMatched[<<pong, baz>>]
          /\ inc[pong] \in pubMatched[<<baz, pong>>]
          /\ Newest(<<ping, pong>>, m) )
        ~> (HasReply(m) \/ ~({ping, pong, baz} \subseteq up))

\* hoge.cpp:1: "prints every integer from ping".  Once it prints, it would
\* then print consecutive integers.
PrintsEveryInteger ==
    \A h \in Hoges : \A e \in printed[<<ping, h>>] : \A j \in 0..e.m.i :
        \A f \in printed[<<ping, h>>] :
            (SameOrigin(e, f) /\ f.m.i < j /\ j < e.m.i) =>
               \E g \in printed[<<ping, h>>] : SameOrigin(e, g) /\ g.m.i = j
================================================================================
