--------------------------- MODULE PingPongMeshProofs ---------------------------
(***************************************************************************)
(* The programs print what has one origin in the order ping counted, nothing *)
(* twice and nothing that was never sent, for any number of integers,        *)
(* starts, crashes and hoges.                                                *)
(*                                                                           *)
(* A message flows over a link: it is under way, then cached, then printed.   *)
(* Whatever flows has a cause (LinkCaused) and flows in order (LinkOrdered);  *)
(* and what a program is about to write is newer than all it has written      *)
(* (LinkFed), because what it answers was newer than all it has printed.      *)
(***************************************************************************)
EXTENDS PingPongMesh, FiniteSetTheorems, TLAPS

PP == <<ping, pong>>
PB == <<pong, baz>>
BP == <<baz, pong>>

\* The link whose samples pong and baz answer.
InLink(p) == IF p = pong THEN PP ELSE PB

\* m is under way from incarnation n, cached, or printed.
OnWire(L, m, n)   == \E j \in DOMAIN net[L][n] : net[L][n][j] = m
Cached(L, m, n)   == cache[L] # <<>> /\ Head(cache[L]).m = m /\ Head(cache[L]).wi = n
WasPrinted(L, m, n) == \E e \in printed[L] : e.m = m /\ e.wi = n
Flows(L, m, n)    == OnWire(L, m, n) \/ Cached(L, m, n) \/ WasPrinted(L, m, n)

\* What incarnation n of p makes of m.
Made(p, m, n) == IF p = baz THEN [m EXCEPT !.kind = "text"] ELSE [m EXCEPT !.via = n]

Caused(L, m, n) ==
    IF From(L) = ping THEN m.src = n
    ELSE \E f \in printed[InLink(From(L))] : f.ri = n /\ m = Made(From(L), f.m, n)

\* Of one origin, m is older than n.
Below(m, n) == m.src = n.src /\ m.via = n.via => m.i < n.i

--------------------------------------------------------------------------------

LinkTyped(L) ==
    /\ net[L] \in [Starts -> Seq(Msgs(L))]
    /\ cache[L] \in Seq([m : Msgs(L), wi : Starts]) /\ Len(cache[L]) <= 1
    /\ printed[L] \in SUBSET [m : Msgs(L), wi : Starts, ri : Starts]

LinkCaused(L) == \A n \in Starts, m \in Msgs(L) : Flows(L, m, n) => Caused(L, m, n)

LinkBounded(L) ==
    /\ \A n \in Starts, m \in Msgs(L) : Flows(L, m, n) => n <= inc[From(L)]
    /\ \A e \in printed[L] : e.ri <= inc[To(L)]

LinkOrdered(L) == \A n \in Starts :
    /\ \A a, b \in DOMAIN net[L][n] : a < b => Below(net[L][n][a], net[L][n][b])
    /\ cache[L] # <<>> /\ Head(cache[L]).wi = n =>
         \A b \in DOMAIN net[L][n] : Below(Head(cache[L]).m, net[L][n][b])
    /\ \A f \in printed[L] : f.ri = inc[To(L)] /\ f.wi = n =>
         /\ \A b \in DOMAIN net[L][n] : Below(f.m, net[L][n][b])
         /\ cache[L] # <<>> /\ Head(cache[L]).wi = n => Below(f.m, Head(cache[L]).m)

\* All that flows from the running writer is older than what it writes next.
LinkFed(L) == \A n \in Starts, m \in Msgs(L) :
    Flows(L, m, n) /\ n = inc[From(L)] /\ From(L) \in up =>
        IF From(L) = ping THEN m.i < next_i
        ELSE hand[From(L)] # <<>> => Below(m, Answer(From(L), Head(hand[From(L)])))

LinkInv(L) == LinkTyped(L) /\ LinkCaused(L) /\ LinkBounded(L) /\ LinkOrdered(L) /\ LinkFed(L)

\* A program that is not allowed to crash is started once.
Started == \A p \in Programs : /\ p \in up => inc[p] \in StartsOf(p)
                               /\ p \notin up /\ p \notin Mortal => inc[p] = 0

\* A sample in hand has been printed by the program that has it.
Handed == \A p \in Programs : hand[p] # <<>> =>
    /\ p \in up /\ p \in {pong, baz}
    /\ \E f \in printed[InLink(p)] : hand[p] = <<f.m>> /\ f.ri = inc[p]

Base == /\ up \in SUBSET Programs
        /\ inc \in [Programs -> 0..MaxStarts]
        /\ polling \in BOOLEAN
        /\ next_i \in 0..MaxValue
        /\ pubMatched \in [Links -> SUBSET Starts]
        /\ subMatched \in [Links -> SUBSET Starts]
        /\ known \in [Links -> SUBSET Starts]
        /\ notice \in [Links -> BOOLEAN]
        /\ DOMAIN net = Links /\ DOMAIN cache = Links /\ DOMAIN printed = Links
        /\ DOMAIN hand = Programs

IInv == Base /\ Started /\ Handed /\ \A L \in Links : LinkInv(L)

--------------------------------------------------------------------------------
(* Links and messages.                                                       *)

LEMMA Distinct == ping # pong /\ ping # baz /\ pong # baz
<1>1. Cardinality({ping, pong, baz}) = 3
    BY MeshAssumption
<1>2. \A a, b : Cardinality({a, b}) <= 2
  <2> TAKE a, b
  <2>1. IsFiniteSet({}) /\ Cardinality({}) = 0
      BY FS_EmptySet
  <2>2. IsFiniteSet({} \cup {a}) /\ Cardinality({} \cup {a}) <= 1
      BY <2>1, FS_AddElement
  <2>3. {} \cup {a} = {a} /\ {a} \cup {b} = {a, b}
      OBVIOUS
  <2>4. IsFiniteSet({a}) /\ Cardinality({a}) <= 1 /\ Cardinality({a}) \in Nat
      BY <2>2, <2>3, FS_CardinalityType
  <2>5. Cardinality({a} \cup {b}) <= 2
      BY <2>4, FS_AddElement
  <2> QED  BY <2>3, <2>5
<1>3. ASSUME ping = pong PROVE FALSE
  <2>1. {ping, pong, baz} = {pong, baz}
      BY <1>3
  <2> QED  BY <1>1, <1>2, <2>1
<1>4. ASSUME ping = baz PROVE FALSE
  <2>1. {ping, pong, baz} = {pong, baz}
      BY <1>4
  <2> QED  BY <1>1, <1>2, <2>1
<1>5. ASSUME pong = baz PROVE FALSE
  <2>1. {ping, pong, baz} = {ping, baz}
      BY <1>5
  <2> QED  BY <1>1, <1>2, <2>1
<1> QED  BY <1>3, <1>4, <1>5

LEMMA LinkFacts ==
    /\ \A L \in Links : /\ From(L) \in {ping, pong, baz} /\ To(L) \in Programs
                        /\ From(L) \in Programs
                        /\ From(L) = pong => L = PB
                        /\ From(L) = baz => L = BP
                        /\ To(L) = baz => L = PB
                        /\ L \in Answered => To(L) \in {pong, baz} /\ InLink(To(L)) = L
                        /\ From(L) # To(L)
    /\ PP \in Links /\ PB \in Links /\ BP \in Links
    /\ From(PP) = ping /\ From(PB) = pong /\ From(BP) = baz
    /\ To(PP) = pong /\ To(PB) = baz /\ To(BP) = pong
    /\ PP # PB /\ PP # BP /\ PB # BP
    /\ InLink(pong) = PP /\ InLink(baz) = PB
BY Distinct, MeshAssumption
   DEF Links, From, To, PP, PB, BP, InLink, Answered, Programs

LEMMA StartsFacts ==
    /\ Starts \subseteq Nat /\ 0 \notin Starts
    /\ \A p : StartsOf(p) \subseteq Starts
    /\ \A x : x \in Starts <=> x \in 0..MaxStarts /\ x # 0
BY MeshAssumption DEF Starts, StartsOf

\* What pong and baz make of a message of the link they answer.
LEMMA MadeFacts ==
    /\ \A m \in Msgs(PP), n \in StartsOf(pong) :
         /\ Made(pong, m, n) \in Msgs(PB)
         /\ Made(pong, m, n).src = m.src /\ Made(pong, m, n).i = m.i
         /\ Made(pong, m, n).via = n /\ m.via = 0
    /\ \A m \in Msgs(PB), n \in Starts :
         /\ Made(baz, m, n) \in Msgs(BP)
         /\ Made(baz, m, n).src = m.src /\ Made(baz, m, n).i = m.i
         /\ Made(baz, m, n).via = m.via
    /\ \A m \in Msgs(PP) : \A n : Made(pong, m, n).via = n
    /\ \A L \in Links : \A m \in Msgs(L) : m.i \in Int
<1> DEFINE Shape(kind, vias) == [kind : {kind}, src : StartsOf(ping), via : vias, i : 0..MaxValue-1]
<1>1. /\ Msgs(PP) = Shape("int", {0})
      /\ Msgs(PB) = Shape("int", StartsOf(pong))
      /\ Msgs(BP) = Shape("text", StartsOf(pong))
    BY Distinct, LinkFacts DEF Msgs, Msg
<1>2. ASSUME NEW m \in Msgs(PP), NEW n \in StartsOf(pong)
      PROVE  /\ Made(pong, m, n) \in Msgs(PB)
             /\ Made(pong, m, n).src = m.src /\ Made(pong, m, n).i = m.i
             /\ Made(pong, m, n).via = n /\ m.via = 0
  <2>1. Made(pong, m, n) = [m EXCEPT !.via = n]
      BY Distinct DEF Made
  <2> QED  BY <1>1, <2>1
<1>3. ASSUME NEW m \in Msgs(PB), NEW n \in Starts
      PROVE  /\ Made(baz, m, n) \in Msgs(BP)
             /\ Made(baz, m, n).src = m.src /\ Made(baz, m, n).i = m.i
             /\ Made(baz, m, n).via = m.via
  <2>1. Made(baz, m, n) = [m EXCEPT !.kind = "text"]
      BY DEF Made
  <2> QED  BY <1>1, <2>1
<1>4. ASSUME NEW L \in Links, NEW m \in Msgs(L)
      PROVE  m.i \in Int
  <2>1. m.i \in 0..MaxValue-1
      BY DEF Msgs, Msg
  <2> QED  BY <2>1, MeshAssumption
<1>5. ASSUME NEW m \in Msgs(PP), NEW n
      PROVE  Made(pong, m, n).via = n
    BY <1>1, Distinct DEF Made
<1> QED  BY <1>2, <1>3, <1>4, <1>5

\* t is what is left of s when something has been taken from its head.
LaterPart(t, s) == \E d \in Nat : \A j \in DOMAIN t : j + d \in DOMAIN s /\ t[j] = s[j + d]

LEMMA LaterFacts ==
    ASSUME NEW S, NEW s \in Seq(S)
    PROVE  /\ LaterPart(s, s) /\ LaterPart(<<>>, s)
           /\ s # <<>> => LaterPart(Tail(s), s) /\ Tail(s) \in Seq(S)
<1>1. LaterPart(s, s)
  <2>1. \A j \in DOMAIN s : j + 0 \in DOMAIN s /\ s[j] = s[j + 0]
      OBVIOUS
  <2> QED  BY <2>1 DEF LaterPart
<1>2. LaterPart(<<>>, s)
  <2>1. \A j \in DOMAIN <<>> : j + 0 \in DOMAIN s /\ <<>>[j] = s[j + 0]
      OBVIOUS
  <2> QED  BY <2>1 DEF LaterPart
<1>3. ASSUME s # <<>> PROVE LaterPart(Tail(s), s) /\ Tail(s) \in Seq(S)
  <2>1. /\ Tail(s) \in Seq(S)
        /\ \A j \in DOMAIN Tail(s) : j + 1 \in DOMAIN s /\ Tail(s)[j] = s[j + 1]
      BY <1>3
  <2> QED  BY <2>1 DEF LaterPart
<1> QED  BY <1>1, <1>2, <1>3

LEMMA HeadFact == \A S : \A s \in Seq(S) : s # <<>> => Head(s) \in S
OBVIOUS

LEMMA CachedFacts ==
    ASSUME NEW L \in Links, LinkTyped(L), cache[L] # <<>>
    PROVE  /\ Head(cache[L]) \in [m : Msgs(L), wi : Starts]
           /\ Head(cache[L]).m \in Msgs(L) /\ Head(cache[L]).wi \in Starts
<1> DEFINE E == [m : Msgs(L), wi : Starts]
<1>1. cache[L] \in Seq(E)
    BY DEF LinkTyped
<1>2. \A e \in E : e.m \in Msgs(L) /\ e.wi \in Starts
    OBVIOUS
<1> HIDE DEF E
<1>3. Head(cache[L]) \in E
    BY <1>1, HeadFact
<1>4. Head(cache[L]).m \in Msgs(L) /\ Head(cache[L]).wi \in Starts
    BY <1>2, <1>3
<1> QED  BY <1>3, <1>4 DEF E

--------------------------------------------------------------------------------
(* What a step may do to a link.                                             *)

\* Printed samples stay printed, and starts only go up.
Onward(L) ==
    /\ inc[From(L)] \in Int /\ inc[To(L)] \in Int
    /\ inc'[From(L)] \in {inc[From(L)], inc[From(L)] + 1}
    /\ inc'[To(L)] \in {inc[To(L)], inc[To(L)] + 1}
    /\ From(L) # ping => printed[InLink(From(L))] \subseteq printed'[InLink(From(L))]

\* Nothing new flows.
NothingNew(L) == \A n \in Starts, m \in Msgs(L) : Flows(L, m, n)' => Flows(L, m, n)

LinkSound(L) == LinkTyped(L) /\ LinkCaused(L) /\ LinkBounded(L) /\ LinkOrdered(L)

\* A cause remains a cause.
LEMMA CauseStays ==
    ASSUME NEW L \in Links, Onward(L), NEW m, NEW n, Caused(L, m, n)
    PROVE  Caused(L, m, n)'
BY DEF Onward, Caused, Made

\* Packets are lost or taken away, the cache is emptied.
LEMMA LinkShrinks ==
    ASSUME NEW L \in Links, LinkSound(L), Onward(L),
           net'[L] \in [Starts -> Seq(Msgs(L))],
           \A n \in Starts : LaterPart(net'[L][n], net[L][n]),
           cache'[L] = cache[L] \/ cache'[L] = <<>>,
           printed'[L] = printed[L]
    PROVE  LinkSound(L)' /\ NothingNew(L)
<1>1. LinkTyped(L)'
  <2>1. cache'[L] \in Seq([m : Msgs(L), wi : Starts]) /\ Len(cache'[L]) <= 1
    <3>1. CASE cache'[L] = cache[L]
        BY <3>1 DEF LinkSound, LinkTyped
    <3>2. CASE cache'[L] = <<>>
        BY <3>2
    <3> QED  BY <3>1, <3>2
  <2>2. Msgs(L)' = Msgs(L)
      BY DEF Msgs, Msg
  <2> QED  BY <2>1, <2>2 DEF LinkSound, LinkTyped
<1>2. NothingNew(L)
  <2> SUFFICES ASSUME NEW n \in Starts, NEW m \in Msgs(L), Flows(L, m, n)'
               PROVE  Flows(L, m, n)
      BY DEF NothingNew
  <2>1. CASE OnWire(L, m, n)'
    <3>1. OnWire(L, m, n)
        BY <2>1 DEF OnWire, LaterPart
    <3> QED  BY <3>1 DEF Flows
  <2>2. CASE Cached(L, m, n)'
      BY <2>2 DEF Flows, Cached
  <2>3. CASE WasPrinted(L, m, n)'
      BY <2>3 DEF Flows, WasPrinted
  <2> QED  BY <2>1, <2>2, <2>3 DEF Flows
<1>3. LinkCaused(L)'
    BY <1>2, CauseStays DEF LinkSound, LinkCaused, NothingNew
<1>4. LinkBounded(L)'
  <2>1. \A n \in Starts, m \in Msgs(L) : Flows(L, m, n)' => n <= inc'[From(L)]
      BY <1>2, StartsFacts DEF LinkSound, LinkBounded, NothingNew, Onward
  <2>2. \A e \in printed'[L] : e.ri <= inc'[To(L)]
      BY StartsFacts DEF LinkSound, LinkBounded, LinkTyped, Onward
  <2> QED  BY <2>1, <2>2 DEF LinkBounded
<1>5. LinkOrdered(L)'
  <2> SUFFICES ASSUME NEW n \in Starts
               PROVE  /\ \A a, b \in DOMAIN net'[L][n] :
                           a < b => Below(net'[L][n][a], net'[L][n][b])
                      /\ cache'[L] # <<>> /\ Head(cache'[L]).wi = n =>
                           \A b \in DOMAIN net'[L][n] : Below(Head(cache'[L]).m, net'[L][n][b])
                      /\ \A f \in printed'[L] : f.ri = inc'[To(L)] /\ f.wi = n =>
                           /\ \A b \in DOMAIN net'[L][n] : Below(f.m, net'[L][n][b])
                           /\ cache'[L] # <<>> /\ Head(cache'[L]).wi = n =>
                                Below(f.m, Head(cache'[L]).m)
      BY DEF LinkOrdered, Below
  <2>1. PICK d \in Nat : \A j \in DOMAIN net'[L][n] : /\ j + d \in DOMAIN net[L][n]
                                                      /\ net'[L][n][j] = net[L][n][j + d]
      BY DEF LaterPart
  <2>2. \A a, b \in DOMAIN net'[L][n] : a \in Int /\ (a < b => a + d < b + d)
      OBVIOUS
  <2>3. \A f \in printed[L] : f.ri = inc'[To(L)] => f.ri = inc[To(L)]
      BY StartsFacts DEF LinkSound, LinkBounded, LinkTyped, Onward
  <2> QED  BY <2>1, <2>2, <2>3 DEF LinkSound, LinkOrdered
<1> QED  BY <1>1, <1>2, <1>3, <1>4, <1>5 DEF LinkSound

\* What is about to be written stays newer than all that flows.
LEMMA FedStays ==
    ASSUME NEW L \in Links, LinkBounded(L), LinkFed(L), Onward(L), NothingNew(L),
           From(L) \in up' /\ inc'[From(L)] = inc[From(L)] => From(L) \in up,
           From(L) = ping /\ ping \in up' => next_i' = next_i,
           From(L) # ping => hand'[From(L)] = hand[From(L)] \/ hand'[From(L)] = <<>>
    PROVE  LinkFed(L)'
<1> SUFFICES ASSUME NEW n \in Starts, NEW m \in Msgs(L), Flows(L, m, n)',
                    n = inc'[From(L)], From(L) \in up'
             PROVE  IF From(L) = ping THEN m.i < next_i'
                    ELSE hand'[From(L)] # <<>> =>
                           Below(m, Answer(From(L), Head(hand[From(L)]))')
    BY DEF LinkFed, Below
<1>1. Flows(L, m, n) /\ n <= inc[From(L)]
    BY DEF NothingNew, LinkBounded
<1>2. inc'[From(L)] = inc[From(L)]
    BY <1>1, StartsFacts DEF Onward
<1>3. IF From(L) = ping THEN m.i < next_i
      ELSE hand[From(L)] # <<>> => Below(m, Answer(From(L), Head(hand[From(L)])))
    BY <1>1, <1>2 DEF LinkFed
<1>4. From(L) # ping => From(L) \in {pong, baz}
    BY LinkFacts
<1> QED  BY <1>2, <1>3, <1>4, Distinct DEF Answer

\* A sample newer than all that flows is sent.
LEMMA LinkGrows ==
    ASSUME NEW L \in Links, LinkSound(L), Onward(L), NEW n \in Starts, NEW m \in Msgs(L),
           net'[L] = [net[L] EXCEPT ![n] = Append(@, m)],
           cache'[L] = cache[L], printed'[L] = printed[L],
           n <= inc[From(L)], Caused(L, m, n),
           \A x \in Msgs(L) : Flows(L, x, n) => Below(x, m)
    PROVE  /\ LinkSound(L)'
           /\ \A o \in Starts, x \in Msgs(L) :
                Flows(L, x, o)' => Flows(L, x, o) \/ (x = m /\ o = n)
<1>1. /\ net[L] \in [Starts -> Seq(Msgs(L))]
      /\ net'[L] \in [Starts -> Seq(Msgs(L))]
      /\ \A o \in Starts : o # n => net'[L][o] = net[L][o]
      /\ net'[L][n] = Append(net[L][n], m)
    BY DEF LinkSound, LinkTyped
<1>2. /\ net[L][n] \in Seq(Msgs(L)) /\ Len(net[L][n]) \in Nat
      /\ DOMAIN net[L][n] = 1..Len(net[L][n])
      /\ DOMAIN net'[L][n] = 1..Len(net[L][n])+1
      /\ \A j \in 1..Len(net[L][n]) : net'[L][n][j] = net[L][n][j]
      /\ net'[L][n][Len(net[L][n]) + 1] = m
      /\ \A j \in 1..Len(net[L][n])+1 : j \in 1..Len(net[L][n]) \/ j = Len(net[L][n]) + 1
    BY <1>1
<1>3. LinkTyped(L)'
  <2>1. Msgs(L)' = Msgs(L)
      BY DEF Msgs, Msg
  <2> QED  BY <1>1, <2>1 DEF LinkSound, LinkTyped
<1>4. ASSUME NEW o \in Starts, NEW x \in Msgs(L), Flows(L, x, o)'
      PROVE  Flows(L, x, o) \/ (x = m /\ o = n)
  <2>1. CASE OnWire(L, x, o)'
    <3>1. CASE o = n
        BY <1>2, <2>1, <3>1 DEF OnWire, Flows
    <3>2. CASE o # n
        BY <1>1, <2>1, <3>2 DEF OnWire, Flows
    <3> QED  BY <3>1, <3>2
  <2>2. CASE Cached(L, x, o)'
      BY <2>2 DEF Cached, Flows
  <2>3. CASE WasPrinted(L, x, o)'
      BY <2>3 DEF WasPrinted, Flows
  <2> QED  BY <1>4, <2>1, <2>2, <2>3 DEF Flows
<1>5. LinkCaused(L)'
    BY <1>4, CauseStays DEF LinkSound, LinkCaused
<1>6. LinkBounded(L)'
  <2>1. \A o \in Starts, x \in Msgs(L) : Flows(L, x, o)' => o <= inc'[From(L)]
      BY <1>4, StartsFacts DEF LinkSound, LinkBounded, Onward
  <2>2. \A e \in printed'[L] : e.ri <= inc'[To(L)]
      BY StartsFacts DEF LinkSound, LinkBounded, LinkTyped, Onward
  <2> QED  BY <2>1, <2>2 DEF LinkBounded
<1>7. LinkOrdered(L)'
  <2> SUFFICES ASSUME NEW o \in Starts
               PROVE  /\ \A a, b \in DOMAIN net'[L][o] :
                           a < b => Below(net'[L][o][a], net'[L][o][b])
                      /\ cache[L] # <<>> /\ Head(cache[L]).wi = o =>
                           \A b \in DOMAIN net'[L][o] : Below(Head(cache[L]).m, net'[L][o][b])
                      /\ \A f \in printed[L] : f.ri = inc'[To(L)] /\ f.wi = o =>
                           /\ \A b \in DOMAIN net'[L][o] : Below(f.m, net'[L][o][b])
                           /\ cache[L] # <<>> /\ Head(cache[L]).wi = o =>
                                Below(f.m, Head(cache[L]).m)
      BY DEF LinkOrdered, Below
  <2>1. \A f \in printed[L] : f.ri = inc'[To(L)] => f.ri = inc[To(L)]
      BY StartsFacts DEF LinkSound, LinkBounded, LinkTyped, Onward
  <2>2. CASE o # n
      BY <1>1, <2>1, <2>2 DEF LinkSound, LinkOrdered
  <2>3. CASE o = n
    <3>1. \A j \in 1..Len(net[L][n]) : Below(net[L][n][j], m)
      <4>1. \A j \in 1..Len(net[L][n]) : net[L][n][j] \in Msgs(L) /\ OnWire(L, net[L][n][j], n)
          BY <1>2 DEF OnWire
      <4> QED  BY <4>1 DEF Flows
    <3>2. cache[L] # <<>> /\ Head(cache[L]).wi = n => Below(Head(cache[L]).m, m)
      <4> SUFFICES ASSUME cache[L] # <<>>, Head(cache[L]).wi = n
                   PROVE  Below(Head(cache[L]).m, m)
          OBVIOUS
      <4>1. Cached(L, Head(cache[L]).m, n) /\ Head(cache[L]).m \in Msgs(L)
          BY CachedFacts DEF Cached, LinkSound
      <4> QED  BY <4>1 DEF Flows
    <3>3. \A f \in printed[L] : f.wi = n => Below(f.m, m)
      <4> SUFFICES ASSUME NEW f \in printed[L], f.wi = n PROVE Below(f.m, m)
          OBVIOUS
      <4>1. f.m \in Msgs(L) /\ WasPrinted(L, f.m, n)
          BY DEF LinkSound, LinkTyped, WasPrinted
      <4> QED  BY <4>1 DEF Flows
    <3>4. \A a, b \in DOMAIN net'[L][n] : a < b => Below(net'[L][n][a], net'[L][n][b])
      <4> SUFFICES ASSUME NEW a \in DOMAIN net'[L][n], NEW b \in DOMAIN net'[L][n], a < b
                   PROVE  Below(net'[L][n][a], net'[L][n][b])
          OBVIOUS
      <4>1. a \in 1..Len(net[L][n])
          BY <1>2
      <4>2. CASE b \in 1..Len(net[L][n])
          BY <1>2, <4>1, <4>2 DEF LinkSound, LinkOrdered
      <4>3. CASE b = Len(net[L][n]) + 1
          BY <1>2, <3>1, <4>1, <4>3
      <4> QED  BY <1>2, <4>2, <4>3
    <3>5. cache[L] # <<>> /\ Head(cache[L]).wi = n =>
            \A b \in DOMAIN net'[L][n] : Below(Head(cache[L]).m, net'[L][n][b])
        BY <1>2, <3>2 DEF LinkSound, LinkOrdered
    <3>6. \A f \in printed[L] : f.ri = inc'[To(L)] /\ f.wi = n =>
            \A b \in DOMAIN net'[L][n] : Below(f.m, net'[L][n][b])
        BY <1>2, <2>1, <3>3 DEF LinkSound, LinkOrdered
    <3> QED  BY <2>1, <2>3, <3>4, <3>5, <3>6 DEF LinkSound, LinkOrdered
  <2> QED  BY <2>2, <2>3
<1> QED  BY <1>3, <1>4, <1>5, <1>6, <1>7 DEF LinkSound

\* The next sample goes from the network to the cache.
LEMMA LinkDelivers ==
    ASSUME NEW L \in Links, LinkSound(L), Onward(L), NEW n \in Starts,
           net[L][n] # <<>>,
           net'[L] = [net[L] EXCEPT ![n] = Tail(@)],
           cache'[L] = <<[m |-> Head(net[L][n]), wi |-> n]>>,
           printed'[L] = printed[L], inc'[To(L)] = inc[To(L)]
    PROVE  LinkSound(L)' /\ NothingNew(L)
<1> DEFINE s == net[L][n]
<1>1. /\ net[L] \in [Starts -> Seq(Msgs(L))] /\ s \in Seq(Msgs(L)) /\ Len(s) \in Nat
      /\ \A o \in Starts : o # n => net'[L][o] = net[L][o]
      /\ net'[L][n] = Tail(s)
    BY DEF LinkSound, LinkTyped
<1>2. /\ DOMAIN s = 1..Len(s) /\ 1 \in DOMAIN s
      /\ Head(s) = s[1] /\ Head(s) \in Msgs(L)
      /\ Tail(s) \in Seq(Msgs(L)) /\ DOMAIN Tail(s) = 1..Len(s)-1
      /\ \A j \in 1..Len(s)-1 : Tail(s)[j] = s[j + 1]
      /\ \A j \in 1..Len(s)-1 : j \in Nat /\ j + 1 \in 1..Len(s) /\ 1 < j + 1
    BY <1>1
<1> HIDE DEF s
<1>3. /\ cache'[L] # <<>> /\ Len(cache'[L]) = 1
      /\ cache'[L] \in Seq([m : Msgs(L), wi : Starts])
      /\ Head(cache'[L]).m = s[1] /\ Head(cache'[L]).wi = n
    BY <1>2 DEF s
<1>4. LinkTyped(L)'
  <2>1. net'[L] \in [Starts -> Seq(Msgs(L))]
      BY <1>1, <1>2 DEF s
  <2>2. Msgs(L)' = Msgs(L)
      BY DEF Msgs, Msg
  <2> QED  BY <1>3, <2>1, <2>2 DEF LinkSound, LinkTyped
<1>5. NothingNew(L)
  <2> SUFFICES ASSUME NEW o \in Starts, NEW x \in Msgs(L), Flows(L, x, o)'
               PROVE  Flows(L, x, o)
      BY DEF NothingNew
  <2>1. CASE OnWire(L, x, o)'
    <3>1. CASE o = n
        BY <1>1, <1>2, <2>1, <3>1 DEF OnWire, Flows, s
    <3>2. CASE o # n
        BY <1>1, <2>1, <3>2 DEF OnWire, Flows
    <3> QED  BY <3>1, <3>2
  <2>2. CASE Cached(L, x, o)'
      BY <1>2, <1>3, <2>2 DEF Cached, OnWire, Flows, s
  <2>3. CASE WasPrinted(L, x, o)'
      BY <2>3 DEF WasPrinted, Flows
  <2> QED  BY <2>1, <2>2, <2>3 DEF Flows
<1>6. LinkCaused(L)'
    BY <1>5, CauseStays DEF LinkSound, LinkCaused, NothingNew
<1>7. LinkBounded(L)'
  <2>1. \A o \in Starts, x \in Msgs(L) : Flows(L, x, o)' => o <= inc'[From(L)]
      BY <1>5, StartsFacts DEF LinkSound, LinkBounded, NothingNew, Onward
  <2> QED  BY <2>1 DEF LinkSound, LinkBounded
<1>8. LinkOrdered(L)'
  <2> SUFFICES ASSUME NEW o \in Starts
               PROVE  /\ \A a, b \in DOMAIN net'[L][o] :
                           a < b => Below(net'[L][o][a], net'[L][o][b])
                      /\ n = o => \A b \in DOMAIN net'[L][o] : Below(s[1], net'[L][o][b])
                      /\ \A f \in printed[L] : f.ri = inc[To(L)] /\ f.wi = o =>
                           /\ \A b \in DOMAIN net'[L][o] : Below(f.m, net'[L][o][b])
                           /\ n = o => Below(f.m, s[1])
      BY <1>3 DEF LinkOrdered, Below
  <2>1. CASE o # n
      BY <1>1, <2>1 DEF LinkSound, LinkOrdered
  <2>2. CASE o = n
    <3>1. /\ \A a, b \in DOMAIN s : a < b => Below(s[a], s[b])
          /\ \A f \in printed[L] : f.ri = inc[To(L)] /\ f.wi = n =>
               \A b \in DOMAIN s : Below(f.m, s[b])
        BY DEF LinkSound, LinkOrdered, s
    <3>2. \A a, b \in 1..Len(s)-1 : a < b => a + 1 < b + 1
        BY <1>2
    <3>3. DOMAIN net'[L][n] = 1..Len(s)-1 /\ \A j \in 1..Len(s)-1 : net'[L][n][j] = s[j + 1]
        BY <1>1, <1>2
    <3>4. \A a, b \in DOMAIN net'[L][n] : a < b => Below(net'[L][n][a], net'[L][n][b])
      <4> SUFFICES ASSUME NEW a \in DOMAIN net'[L][n], NEW b \in DOMAIN net'[L][n], a < b
                   PROVE  Below(net'[L][n][a], net'[L][n][b])
          OBVIOUS
      <4>1. a + 1 \in DOMAIN s /\ b + 1 \in DOMAIN s /\ a + 1 < b + 1
          BY <1>2, <3>2, <3>3
      <4>2. net'[L][n][a] = s[a + 1] /\ net'[L][n][b] = s[b + 1]
          BY <3>3
      <4>3. Below(s[a + 1], s[b + 1])
          BY <3>1, <4>1
      <4> QED  BY <4>2, <4>3
    <3>5. \A b \in DOMAIN net'[L][n] : Below(s[1], net'[L][n][b])
        BY <1>2, <3>1, <3>3
    <3>6. \A f \in printed[L] : f.ri = inc[To(L)] /\ f.wi = n =>
            /\ \A b \in DOMAIN net'[L][n] : Below(f.m, net'[L][n][b])
            /\ Below(f.m, s[1])
        BY <1>2, <3>1, <3>3
    <3> QED  BY <2>2, <3>4, <3>5, <3>6
  <2> QED  BY <2>1, <2>2
<1> QED  BY <1>4, <1>5, <1>6, <1>7, <1>8 DEF LinkSound

\* The sample in the cache is printed; it is newer than all printed before.
LEMMA LinkTakes ==
    ASSUME NEW L \in Links, LinkSound(L), Onward(L), cache[L] # <<>>,
           inc'[To(L)] = inc[To(L)], inc[To(L)] \in Starts,
           net'[L] = net[L], cache'[L] = <<>>,
           printed'[L] = printed[L] \cup
             {[m |-> Head(cache[L]).m, wi |-> Head(cache[L]).wi, ri |-> inc[To(L)]]}
    PROVE  /\ LinkSound(L)' /\ NothingNew(L)
           /\ Head(cache[L]).m \in Msgs(L) /\ Head(cache[L]).wi \in Starts
           /\ Caused(L, Head(cache[L]).m, Head(cache[L]).wi)
           /\ \A f \in printed[L] : f.ri = inc[To(L)] /\ f.wi = Head(cache[L]).wi =>
                Below(f.m, Head(cache[L]).m)
<1> DEFINE e == Head(cache[L])
           g == [m |-> e.m, wi |-> e.wi, ri |-> inc[To(L)]]
<1>2. e.m \in Msgs(L) /\ e.wi \in Starts /\ Cached(L, e.m, e.wi)
    BY CachedFacts DEF Cached, LinkSound
<1>3. g.m = e.m /\ g.wi = e.wi /\ g.ri = inc[To(L)]
      /\ g \in [m : Msgs(L), wi : Starts, ri : Starts]
      /\ printed'[L] = printed[L] \cup {g}
    BY <1>2
<1>4. Caused(L, e.m, e.wi)
    BY <1>2 DEF LinkSound, LinkCaused, Flows
<1>5. \A f \in printed[L] : f.ri = inc[To(L)] /\ f.wi = e.wi => Below(f.m, e.m)
    BY <1>2 DEF LinkSound, LinkOrdered
<1> HIDE DEF e, g
<1>6. LinkTyped(L)'
  <2>1. Msgs(L)' = Msgs(L)
      BY DEF Msgs, Msg
  <2>2. printed'[L] \in SUBSET [m : Msgs(L), wi : Starts, ri : Starts]
      BY <1>3 DEF LinkSound, LinkTyped
  <2>3. cache'[L] \in Seq([m : Msgs(L), wi : Starts]) /\ Len(cache'[L]) <= 1
      OBVIOUS
  <2> QED  BY <2>1, <2>2, <2>3 DEF LinkSound, LinkTyped
<1>7. NothingNew(L)
  <2> SUFFICES ASSUME NEW o \in Starts, NEW x \in Msgs(L), Flows(L, x, o)'
               PROVE  Flows(L, x, o)
      BY DEF NothingNew
  <2>1. CASE OnWire(L, x, o)'
      BY <2>1 DEF OnWire, Flows
  <2>2. CASE Cached(L, x, o)'
      BY <2>2 DEF Cached, Flows
  <2>3. CASE WasPrinted(L, x, o)'
      BY <1>2, <1>3, <2>3 DEF WasPrinted, Flows
  <2> QED  BY <2>1, <2>2, <2>3 DEF Flows
<1>8. LinkCaused(L)'
    BY <1>7, CauseStays DEF LinkSound, LinkCaused, NothingNew
<1>9. LinkBounded(L)'
  <2>1. \A o \in Starts, x \in Msgs(L) : Flows(L, x, o)' => o <= inc'[From(L)]
      BY <1>7, StartsFacts DEF LinkSound, LinkBounded, NothingNew, Onward
  <2>2. \A f \in printed'[L] : f.ri <= inc'[To(L)]
      BY <1>3, StartsFacts DEF LinkSound, LinkBounded
  <2> QED  BY <2>1, <2>2 DEF LinkBounded
<1>10. LinkOrdered(L)'
  <2> SUFFICES ASSUME NEW o \in Starts
               PROVE  /\ \A a, b \in DOMAIN net[L][o] :
                           a < b => Below(net[L][o][a], net[L][o][b])
                      /\ \A f \in printed'[L] : f.ri = inc[To(L)] /\ f.wi = o =>
                           \A b \in DOMAIN net[L][o] : Below(f.m, net[L][o][b])
      BY DEF LinkOrdered, Below
  <2>1. \A b \in DOMAIN net[L][e.wi] : Below(e.m, net[L][e.wi][b])
      BY <1>2 DEF LinkSound, LinkOrdered, e
  <2> QED  BY <1>3, <2>1 DEF LinkSound, LinkOrdered
<1> QED  BY <1>2, <1>4, <1>5, <1>6, <1>7, <1>8, <1>9, <1>10 DEF LinkSound, e

--------------------------------------------------------------------------------
(* What a step does to the other links.                                      *)

LEMMA OnwardFacts ==
    ASSUME Base, inc' = inc, \A K \in Links : printed[K] \subseteq printed'[K], NEW L \in Links
    PROVE  Onward(L)
<1>1. inc[From(L)] \in Int /\ inc[To(L)] \in Int
    BY LinkFacts DEF Base
<1>2. From(L) # ping => InLink(From(L)) \in Links
    BY LinkFacts
<1> QED  BY <1>1, <1>2 DEF Onward

LEMMA LinkStays ==
    ASSUME NEW L \in Links, LinkSound(L), Onward(L), net'[L] = net[L],
           cache'[L] = cache[L] \/ cache'[L] = <<>>, printed'[L] = printed[L]
    PROVE  LinkSound(L)' /\ NothingNew(L)
<1>1. net[L] \in [Starts -> Seq(Msgs(L))]
    BY DEF LinkSound, LinkTyped
<1>2. \A n \in Starts : LaterPart(net'[L][n], net[L][n])
  <2> TAKE n \in Starts
  <2>1. net[L][n] \in Seq(Msgs(L))
      BY <1>1
  <2> QED  BY <2>1, LaterFacts
<1> QED  BY <1>1, <1>2, LinkShrinks

\* Samples are lost, the cache is emptied; the programs notice nothing.
LEMMA NetShrinks ==
    ASSUME IInv, Base', up' = up, inc' = inc, next_i' = next_i, hand' = hand,
           printed' = printed,
           \A L \in Links : /\ net'[L] \in [Starts -> Seq(Msgs(L))]
                            /\ \A n \in Starts : LaterPart(net'[L][n], net[L][n])
                            /\ cache'[L] = cache[L] \/ cache'[L] = <<>>
    PROVE  IInv'
<1>1. Started' /\ Handed'
    BY DEF IInv, Started, Handed
<1>2. ASSUME NEW L \in Links PROVE LinkInv(L)'
  <2>1. Onward(L)
      BY OnwardFacts DEF IInv
  <2>2. LinkSound(L) /\ LinkBounded(L) /\ LinkFed(L)
      BY DEF IInv, LinkInv, LinkSound
  <2>3. LinkSound(L)' /\ NothingNew(L)
      BY <2>1, <2>2, LinkShrinks
  <2>4. LinkFed(L)'
      BY <2>1, <2>2, <2>3, FedStays
  <2> QED  BY <2>3, <2>4 DEF LinkInv, LinkSound
<1> QED  BY <1>1, <1>2 DEF IInv

LEMMA QuietStep ==
    ASSUME IInv, Base', UNCHANGED <<up, inc, next_i, net, hand, printed>>,
           \A L \in Links : cache'[L] = cache[L] \/ cache'[L] = <<>>
    PROVE  IInv'
<1>1. ASSUME NEW L \in Links
      PROVE  /\ net'[L] \in [Starts -> Seq(Msgs(L))]
             /\ \A n \in Starts : LaterPart(net'[L][n], net[L][n])
  <2>1. net[L] \in [Starts -> Seq(Msgs(L))]
      BY DEF IInv, LinkInv, LinkTyped
  <2>2. ASSUME NEW n \in Starts PROVE LaterPart(net[L][n], net[L][n])
    <3>1. net[L][n] \in Seq(Msgs(L))
        BY <2>1
    <3> QED  BY <3>1, LaterFacts
  <2> QED  BY <2>1, <2>2
<1> QED  BY <1>1, NetShrinks

--------------------------------------------------------------------------------
(* Programs come and go.                                                     *)

LEMMA StartStep ==
    ASSUME IInv, NEW p \in Programs, Start(p)
    PROVE  IInv'
<1>0. /\ p \notin up /\ up' = up \cup {p}
      /\ inc' = [inc EXCEPT ![p] = @ + 1] /\ inc[p] < MaxStarts
      /\ inc \in [Programs -> 0..MaxStarts] /\ inc[p] \in 0..MaxStarts
      /\ UNCHANGED <<polling, next_i, pubMatched, subMatched, net, cache, known, notice,
                     hand, printed>>
    BY DEF IInv, Base, Start, pingVars, linkVars
<1>1. \A q \in Programs : inc'[q] = IF q = p THEN inc[p] + 1 ELSE inc[q]
    BY <1>0
<1>2. inc[p] + 1 \in 0..MaxStarts /\ inc[p] + 1 # 0
    BY <1>0, MeshAssumption
<1>3. Base'
  <2>1. inc' \in [Programs -> 0..MaxStarts]
      BY <1>0, <1>2
  <2> QED  BY <1>0, <2>1 DEF IInv, Base
<1>4. Started'
  <2>1. inc'[p] \in StartsOf(p)
      BY <1>0, <1>1, <1>2, StartsFacts DEF IInv, Started, StartsOf
  <2> QED  BY <1>0, <1>1, <2>1 DEF IInv, Started
<1>5. Handed'
    BY <1>0, <1>1 DEF IInv, Handed
<1>6. ASSUME NEW L \in Links PROVE LinkInv(L)'
  <2>1. From(L) \in Programs /\ To(L) \in Programs
      BY LinkFacts
  <2>2. inc[From(L)] \in 0..MaxStarts /\ inc[To(L)] \in 0..MaxStarts
      BY <1>0, <2>1
  <2>3. Onward(L)
      BY <1>0, <1>1, <2>1, <2>2 DEF Onward
  <2>4. LinkSound(L) /\ LinkBounded(L) /\ LinkFed(L)
      BY DEF IInv, LinkInv, LinkSound
  <2>5. LinkSound(L)' /\ NothingNew(L)
      BY <1>0, <2>3, <2>4, LinkStays
  <2>6. From(L) \in up' /\ inc'[From(L)] = inc[From(L)] => From(L) \in up
      BY <1>0, <1>1, <2>1, <2>2
  <2>7. LinkFed(L)'
      BY <1>0, <2>3, <2>4, <2>5, <2>6, FedStays
  <2> QED  BY <2>5, <2>7 DEF LinkInv, LinkSound
<1> QED  BY <1>3, <1>4, <1>5, <1>6 DEF IInv

LEMMA SilenceType == \A S : Silence \in [Starts -> Seq(S)]
<1> TAKE S
<1>1. <<>> \in Seq(S)
    OBVIOUS
<1> QED  BY <1>1 DEF Silence

LEMMA CrashStep ==
    ASSUME IInv, NEW p \in Programs, Crash(p)
    PROVE  IInv'
<1>1. /\ up' = up \ {p} /\ p \in Mortal
      /\ polling' = (polling \/ p = ping)
      /\ next_i' = IF p = ping THEN 0 ELSE next_i
      /\ pubMatched' = [L \in Links |-> IF From(L) = p THEN {} ELSE pubMatched[L]]
      /\ subMatched' = [L \in Links |-> IF To(L) = p THEN {} ELSE subMatched[L]]
      /\ net' = [L \in Links |-> IF To(L) = p THEN Silence ELSE net[L]]
      /\ cache' = [L \in Links |-> IF To(L) = p THEN <<>> ELSE cache[L]]
      /\ known' = [L \in Links |-> IF To(L) = p THEN {} ELSE known[L]]
      /\ notice' = [L \in Links |-> IF To(L) = p THEN FALSE ELSE notice[L]]
      /\ hand' = [hand EXCEPT ![p] = <<>>]
      /\ inc' = inc /\ printed' = printed
    BY DEF Crash
<1>2. \A q \in Programs : hand'[q] = IF q = p THEN <<>> ELSE hand[q]
    BY <1>1 DEF IInv, Base
<1>3. Base'
  <2>1. up' \in SUBSET Programs /\ polling' \in BOOLEAN
      BY <1>1 DEF IInv, Base
  <2>2. next_i' \in 0..MaxValue
      BY <1>1, MeshAssumption DEF IInv, Base
  <2>3. pubMatched' \in [Links -> SUBSET Starts] /\ subMatched' \in [Links -> SUBSET Starts]
      BY <1>1 DEF IInv, Base
  <2>4. known' \in [Links -> SUBSET Starts] /\ notice' \in [Links -> BOOLEAN]
      BY <1>1 DEF IInv, Base
  <2>5. /\ DOMAIN net' = Links /\ DOMAIN cache' = Links /\ DOMAIN printed' = Links
        /\ DOMAIN hand' = Programs
      BY <1>1 DEF IInv, Base
  <2> QED  BY <1>1, <2>1, <2>2, <2>3, <2>4, <2>5 DEF IInv, Base
<1>4. Started'
    BY <1>1 DEF IInv, Started
<1>5. Handed'
    BY <1>1, <1>2 DEF IInv, Handed
<1>6. ASSUME NEW L \in Links PROVE LinkInv(L)'
  <2>1. Onward(L)
      BY <1>1, OnwardFacts DEF IInv
  <2>2. LinkSound(L) /\ LinkBounded(L) /\ LinkFed(L)
      BY DEF IInv, LinkInv, LinkSound
  <2>3. net[L] \in [Starts -> Seq(Msgs(L))] /\ Silence \in [Starts -> Seq(Msgs(L))]
      BY SilenceType DEF IInv, LinkInv, LinkTyped
  <2>4. net'[L] \in [Starts -> Seq(Msgs(L))]
      BY <1>1, <2>3
  <2>5. \A n \in Starts : LaterPart(net'[L][n], net[L][n])
    <3> TAKE n \in Starts
    <3>1. net[L][n] \in Seq(Msgs(L)) /\ Silence[n] = <<>>
        BY <2>3 DEF Silence
    <3>2. net'[L][n] = net[L][n] \/ net'[L][n] = <<>>
        BY <1>1, <3>1
    <3> QED  BY <3>1, <3>2, LaterFacts
  <2>6. LinkSound(L)' /\ NothingNew(L)
      BY <1>1, <2>1, <2>2, <2>4, <2>5, LinkShrinks
  <2>7. LinkFed(L)'
      BY <1>1, <1>2, <2>1, <2>2, <2>6, LinkFacts, FedStays
  <2> QED  BY <2>6, <2>7 DEF LinkInv, LinkSound
<1> QED  BY <1>3, <1>4, <1>5, <1>6 DEF IInv
--------------------------------------------------------------------------------
(* Discovery, transport, the reader's cache.                                 *)

\* A running program is in one of its starts.
LEMMA RunningStart ==
    ASSUME Base, Started, NEW p \in Programs, p \in up
    PROVE  inc[p] \in StartsOf(p) /\ inc[p] \in Starts
BY StartsFacts DEF Started

LEMMA MatchSteps ==
    ASSUME IInv, NEW L \in Links, NEW n \in Starts,
           WriterMatches(L) \/ ReaderMatches(L) \/ WriterForgets(L, n)
    PROVE  IInv'
<1>1. Base'
  <2>1. CASE WriterMatches(L)
    <3>1. inc[To(L)] \in Starts
        BY <2>1, LinkFacts, RunningStart DEF WriterMatches, IInv
    <3> QED  BY <2>1, <3>1 DEF WriterMatches, IInv, Base, pingVars
  <2>2. CASE ReaderMatches(L)
    <3>1. inc[From(L)] \in Starts
        BY <2>2, LinkFacts, RunningStart DEF ReaderMatches, IInv
    <3> QED  BY <2>2, <3>1 DEF ReaderMatches, IInv, Base, pingVars
  <2>3. CASE WriterForgets(L, n)
      BY <2>3 DEF WriterForgets, IInv, Base, pingVars
  <2> QED  BY <2>1, <2>2, <2>3
<1>2. UNCHANGED <<up, inc, next_i, net, cache, hand, printed>>
    BY DEF WriterMatches, ReaderMatches, WriterForgets, pingVars
<1> QED  BY <1>1, <1>2, QuietStep

LEMMA LossSteps ==
    ASSUME IInv, NEW L \in Links, NEW n \in Starts, ReaderForgets(L, n) \/ Lose(L, n)
    PROVE  IInv'
<1>1. /\ UNCHANGED <<up, inc, polling, next_i, pubMatched, cache, hand, printed>>
      /\ \/ net' = [net EXCEPT ![L][n] = <<>>]
         \/ net[L][n] # <<>> /\ net' = [net EXCEPT ![L][n] = Tail(@)]
    BY DEF ReaderForgets, Lose, pingVars
<1>2. DOMAIN net = Links /\ net[L] \in [Starts -> Seq(Msgs(L))] /\ net[L][n] \in Seq(Msgs(L))
    BY DEF IInv, Base, LinkInv, LinkTyped
<1>3. Base'
  <2>1. /\ subMatched' \in [Links -> SUBSET Starts] /\ known' \in [Links -> SUBSET Starts]
        /\ notice' \in [Links -> BOOLEAN]
    <3>1. CASE Lose(L, n)
        BY <3>1 DEF Lose, IInv, Base
    <3>2. CASE ReaderForgets(L, n)
      <4> DEFINE c == notice[L] \/ (known[L] = {n} /\ cache[L] = <<>>)
      <4>1. /\ subMatched' = [subMatched EXCEPT ![L] = @ \ {n}]
            /\ known' = [known EXCEPT ![L] = @ \ {n}]
            /\ notice' = [notice EXCEPT ![L] = c]
          BY <3>2 DEF ReaderForgets
      <4>2. c \in BOOLEAN
          OBVIOUS
      <4> HIDE DEF c
      <4> QED  BY <4>1, <4>2 DEF IInv, Base
    <3> QED  BY <3>1, <3>2
  <2>2. DOMAIN net' = Links
      BY <1>1, <1>2
  <2> QED  BY <1>1, <2>1, <2>2 DEF IInv, Base
<1>4. ASSUME NEW K \in Links
      PROVE  /\ net'[K] \in [Starts -> Seq(Msgs(K))]
             /\ \A o \in Starts : LaterPart(net'[K][o], net[K][o])
  <2>1. net[K] \in [Starts -> Seq(Msgs(K))]
      BY DEF IInv, LinkInv, LinkTyped
  <2>2. \A o \in Starts : net[K][o] \in Seq(Msgs(K)) /\ LaterPart(net[K][o], net[K][o])
    <3> TAKE o \in Starts
    <3>1. net[K][o] \in Seq(Msgs(K))
        BY <2>1
    <3> QED  BY <3>1, LaterFacts
  <2>3. CASE K # L
    <3>1. net'[K] = net[K]
        BY <1>1, <1>2, <2>3
    <3> QED  BY <2>1, <2>2, <3>1
  <2>4. CASE K = L
    <3>1. PICK t : /\ net' = [net EXCEPT ![L][n] = t]
                   /\ t \in Seq(Msgs(L)) /\ LaterPart(t, net[L][n])
      <4>1. <<>> \in Seq(Msgs(L)) /\ LaterPart(<<>>, net[L][n])
          BY <1>2, LaterFacts
      <4>2. net[L][n] # <<>> =>
              Tail(net[L][n]) \in Seq(Msgs(L)) /\ LaterPart(Tail(net[L][n]), net[L][n])
          BY <1>2, LaterFacts
      <4> QED  BY <1>1, <4>1, <4>2
    <3>2. net'[L] = [net[L] EXCEPT ![n] = t]
        BY <1>2, <3>1
    <3>3. net'[L] \in [Starts -> Seq(Msgs(L))]
        BY <1>2, <3>1, <3>2
    <3>4. \A o \in Starts : net'[L][o] = IF o = n THEN t ELSE net[L][o]
        BY <1>2, <3>2
    <3> QED  BY <2>2, <2>4, <3>1, <3>3, <3>4
  <2> QED  BY <2>3, <2>4
<1> QED  BY <1>1, <1>3, <1>4, NetShrinks

LEMMA DeliverStep ==
    ASSUME IInv, NEW L \in Links, NEW n \in Starts, Deliver(L, n)
    PROVE  IInv'
<1>1. /\ net[L][n] # <<>>
      /\ net' = [net EXCEPT ![L][n] = Tail(@)]
      /\ cache' = [cache EXCEPT ![L] = <<[m |-> Head(net[L][n]), wi |-> n]>>]
      /\ UNCHANGED <<up, inc, polling, next_i, pubMatched, subMatched, hand, printed>>
    BY DEF Deliver, Put, pingVars
<1>2. DOMAIN net = Links /\ DOMAIN cache = Links
    BY DEF IInv, Base
<1>3. Base'
  <2>1. known' \in [Links -> SUBSET Starts] /\ notice' \in [Links -> BOOLEAN]
      BY DEF Deliver, IInv, Base
  <2>2. DOMAIN net' = Links /\ DOMAIN cache' = Links
      BY <1>1, <1>2
  <2> QED  BY <1>1, <2>1, <2>2 DEF IInv, Base
<1>4. Started' /\ Handed'
    BY <1>1 DEF IInv, Started, Handed
<1>5. ASSUME NEW K \in Links PROVE LinkInv(K)'
  <2>1. Onward(K)
      BY <1>1, OnwardFacts DEF IInv
  <2>2. LinkSound(K) /\ LinkBounded(K) /\ LinkFed(K)
      BY DEF IInv, LinkInv, LinkSound
  <2>3. CASE K # L
    <3>1. net'[K] = net[K] /\ cache'[K] = cache[K]
        BY <1>1, <1>2, <2>3
    <3> QED  BY <1>1, <2>1, <2>2, <3>1, LinkStays, FedStays DEF LinkInv, LinkSound
  <2>4. CASE K = L
    <3>1. /\ net'[L] = [net[L] EXCEPT ![n] = Tail(@)]
          /\ cache'[L] = <<[m |-> Head(net[L][n]), wi |-> n]>>
        BY <1>1, <1>2
    <3>2. LinkSound(L)' /\ NothingNew(L)
        BY <1>1, <2>1, <2>2, <2>4, <3>1, LinkDelivers
    <3>3. LinkFed(L)'
        BY <1>1, <2>1, <2>2, <2>4, <3>2, FedStays
    <3> QED  BY <2>4, <3>2, <3>3 DEF LinkInv, LinkSound
  <2> QED  BY <2>3, <2>4
<1> QED  BY <1>3, <1>4, <1>5 DEF IInv

--------------------------------------------------------------------------------
(* The programs.                                                             *)

LEMMA PollStep == ASSUME IInv, PollMatched PROVE IInv'
<1>1. UNCHANGED <<up, inc, next_i, linkVars, hand, printed>> /\ polling' = FALSE
    BY DEF PollMatched
<1>2. Base'
    BY <1>1 DEF IInv, Base, linkVars
<1> QED  BY <1>1, <1>2, QuietStep DEF linkVars

\* What write does to a link.
LEMMA WriteFacts ==
    ASSUME Base, NEW p, NEW m, Write(p, m), NEW L \in Links
    PROVE  /\ DOMAIN net' = Links
           /\ \/ net'[L] = net[L]
              \/ From(L) = p /\ net'[L] = [net[L] EXCEPT ![inc[p]] = Append(@, m)]
BY DEF Write

LEMMA PublishStep == ASSUME IInv, Publish PROVE IInv'
<1> DEFINE m == [kind |-> "int", src |-> inc[ping], via |-> 0, i |-> next_i]
<1>1. /\ ping \in up /\ next_i < MaxValue /\ next_i' = next_i + 1
      /\ Write(ping, m)
      /\ UNCHANGED <<up, inc, polling, pubMatched, subMatched, cache, known, notice, hand,
                     printed>>
    BY DEF Publish
<1>2. next_i \in 0..MaxValue-1 /\ next_i + 1 \in 0..MaxValue /\ next_i \in Int
    BY <1>1, MeshAssumption DEF IInv, Base
<1>3. inc[ping] \in StartsOf(ping) /\ inc[ping] \in Starts
    BY <1>1, RunningStart DEF IInv, Programs
<1>4. m.src = inc[ping] /\ m.i = next_i
      /\ m \in [kind : {"int"}, src : StartsOf(ping), via : {0}, i : 0..MaxValue-1]
    BY <1>2, <1>3
<1> HIDE DEF m
<1>5. Base'
  <2>1. DOMAIN net' = Links
      BY <1>1, LinkFacts, WriteFacts DEF IInv
  <2> QED  BY <1>1, <1>2, <2>1 DEF IInv, Base
<1>6. Started' /\ Handed'
    BY <1>1 DEF IInv, Started, Handed
<1>7. ASSUME NEW L \in Links PROVE LinkInv(L)'
  <2>1. Onward(L)
      BY <1>1, OnwardFacts DEF IInv
  <2>2. LinkSound(L) /\ LinkBounded(L) /\ LinkFed(L)
      BY DEF IInv, LinkInv, LinkSound
  <2>3. \/ net'[L] = net[L]
        \/ From(L) = ping /\ net'[L] = [net[L] EXCEPT ![inc[ping]] = Append(@, m)]
      BY <1>1, WriteFacts DEF IInv
  <2>4. CASE From(L) # ping
    <3>1. LinkSound(L)' /\ NothingNew(L)
        BY <1>1, <2>1, <2>2, <2>3, <2>4, LinkStays
    <3>2. LinkFed(L)'
        BY <1>1, <2>1, <2>2, <2>4, <3>1, FedStays
    <3> QED  BY <3>1, <3>2 DEF LinkInv, LinkSound
  <2>5. CASE From(L) = ping
    <3>1. \A x \in Msgs(L) : Flows(L, x, inc[ping]) => x.i < next_i
        BY <1>1, <1>3, <2>2, <2>5 DEF LinkFed
    <3>2. m \in Msgs(L) /\ \A x \in Msgs(L) : x.i \in Int
        BY <1>4, <2>5, MadeFacts DEF Msgs, Msg
    <3>3. LinkSound(L)' /\ \A o \in Starts, x \in Msgs(L) :
            Flows(L, x, o)' => Flows(L, x, o) \/ (x = m /\ o = inc[ping])
      <4>1. CASE net'[L] = net[L]
        <5>1. LinkSound(L)' /\ NothingNew(L)
            BY <1>1, <2>1, <2>2, <4>1, LinkStays
        <5> QED  BY <5>1 DEF NothingNew
      <4>2. CASE net'[L] = [net[L] EXCEPT ![inc[ping]] = Append(@, m)]
        <5>1. Caused(L, m, inc[ping])
            BY <1>4, <2>5 DEF Caused
        <5>2. \A x \in Msgs(L) : Flows(L, x, inc[ping]) => Below(x, m)
            BY <1>4, <3>1 DEF Below
        <5>3. inc[ping] <= inc[From(L)]
            BY <1>3, <2>5, StartsFacts
        <5> QED  BY <1>1, <1>3, <2>1, <2>2, <3>2, <4>2, <5>1, <5>2, <5>3, LinkGrows
      <4> QED  BY <2>3, <4>1, <4>2
    <3>4. LinkFed(L)'
      <4> SUFFICES ASSUME NEW n \in Starts, NEW x \in Msgs(L), Flows(L, x, n)', n = inc'[From(L)]
                   PROVE  x.i < next_i'
          BY <2>5 DEF LinkFed, Msgs, Msg
      <4>1. x.i <= next_i /\ x.i \in Int
          BY <1>1, <1>2, <1>4, <2>5, <3>1, <3>2, <3>3
      <4> QED  BY <1>1, <1>2, <4>1
    <3> QED  BY <3>3, <3>4 DEF LinkInv, LinkSound
  <2> QED  BY <2>4, <2>5
<1> QED  BY <1>5, <1>6, <1>7 DEF IInv

\* What pong and baz answer, they have printed, and it is made of that.
LEMMA RespondStep == ASSUME IInv, NEW p \in Programs, Respond(p) PROVE IInv'
<1>1. /\ hand[p] # <<>> /\ Write(p, Answer(p, Head(hand[p])))
      /\ hand' = [hand EXCEPT ![p] = <<>>]
      /\ UNCHANGED <<up, inc, polling, next_i, pubMatched, subMatched, cache, known, notice,
                     printed>>
    BY DEF Respond, pingVars
<1>2. p \in up /\ p \in {pong, baz}
    BY <1>1 DEF IInv, Handed
<1>3. PICK f \in printed[InLink(p)] : hand[p] = <<f.m>> /\ f.ri = inc[p]
    BY <1>1 DEF IInv, Handed
<1> DEFINE m == Answer(p, Head(hand[p]))
<1>4. m = Made(p, f.m, inc[p])
    BY <1>2, <1>3, Distinct DEF Answer, Made
<1>5. inc[p] \in StartsOf(p) /\ inc[p] \in Starts
    BY <1>2, RunningStart DEF IInv
<1>6. \A q \in Programs : hand'[q] = IF q = p THEN <<>> ELSE hand[q]
    BY <1>1 DEF IInv, Base
<1> HIDE DEF m
<1>7. Base'
  <2>1. DOMAIN net' = Links
      BY <1>1, LinkFacts, WriteFacts DEF IInv
  <2>2. DOMAIN hand' = Programs
      BY <1>1 DEF IInv, Base
  <2> QED  BY <1>1, <2>1, <2>2 DEF IInv, Base
<1>8. Started' /\ Handed'
    BY <1>1, <1>6 DEF IInv, Started, Handed
<1>9. ASSUME NEW L \in Links PROVE LinkInv(L)'
  <2>1. Onward(L)
      BY <1>1, OnwardFacts DEF IInv
  <2>2. LinkSound(L) /\ LinkBounded(L) /\ LinkFed(L)
      BY DEF IInv, LinkInv, LinkSound
  <2>3. From(L) \in Programs
      BY LinkFacts
  <2>4. CASE net'[L] = net[L]
    <3>1. LinkSound(L)' /\ NothingNew(L)
        BY <1>1, <2>1, <2>2, <2>4, LinkStays
    <3>2. LinkFed(L)'
        BY <1>1, <1>6, <2>1, <2>2, <2>3, <3>1, FedStays
    <3> QED  BY <3>1, <3>2 DEF LinkInv, LinkSound
  <2>5. CASE From(L) = p /\ net'[L] = [net[L] EXCEPT ![inc[p]] = Append(@, m)]
    <3>1. f.m \in Msgs(InLink(p))
        BY <1>2, LinkFacts DEF IInv, LinkInv, LinkTyped
    <3>2. m \in Msgs(L)
        BY <1>2, <1>4, <1>5, <2>5, <3>1, LinkFacts, MadeFacts
    <3>3. p # ping
        BY <1>2, Distinct
    <3>4. Caused(L, m, inc[p])
        BY <1>3, <1>4, <2>5, <3>3 DEF Caused
    <3>5. \A x \in Msgs(L) : Flows(L, x, inc[p]) => Below(x, m)
        BY <1>1, <1>2, <1>5, <2>2, <2>5, <3>3 DEF LinkFed, m
    <3>6. inc[p] <= inc[From(L)]
        BY <1>5, <2>5, StartsFacts
    <3>7. LinkSound(L)'
        BY <1>1, <1>5, <2>1, <2>2, <2>5, <3>2, <3>4, <3>5, <3>6, LinkGrows
    <3>8. LinkFed(L)'
        BY <1>6, <2>5, <3>3 DEF LinkFed
    <3> QED  BY <3>7, <3>8 DEF LinkInv, LinkSound
  <2> QED  BY <1>1, <2>4, <2>5, WriteFacts DEF IInv, m
<1> QED  BY <1>7, <1>8, <1>9 DEF IInv

\* A message names the incarnation that has written it.
LEMMA WriterOfMessage ==
    ASSUME IInv, NEW L \in Answered, NEW m, NEW n, Caused(L, m, n)
    PROVE  n = IF L = PP THEN m.src ELSE m.via
<1>1. L = PP \/ L = PB
    BY DEF Answered, PP, PB
<1>2. CASE L = PP
    BY <1>2, LinkFacts DEF Caused
<1>3. CASE L = PB
  <2>1. PICK f \in printed[PP] : m = Made(pong, f.m, n)
      BY <1>3, LinkFacts, Distinct DEF Caused
  <2>2. f.m \in Msgs(PP)
      BY LinkFacts DEF IInv, LinkInv, LinkTyped
  <2> QED  BY <1>3, <2>1, <2>2, LinkFacts, MadeFacts
<1> QED  BY <1>1, <1>2, <1>3

\* The facts of a Take that prints.
TakePrints(L) ==
    /\ To(L) \in up /\ hand[To(L)] = <<>> /\ cache[L] # <<>>
    /\ printed' = [printed EXCEPT ![L] = @ \cup
         {[m |-> Head(cache[L]).m, wi |-> Head(cache[L]).wi, ri |-> inc[To(L)]]}]
    /\ hand' = [hand EXCEPT ![To(L)] = IF L \in Answered THEN <<Head(cache[L]).m>> ELSE <<>>]
    /\ cache' = [cache EXCEPT ![L] = <<>>]
    /\ notice' = [notice EXCEPT ![L] = FALSE]
    /\ UNCHANGED <<up, inc, polling, next_i, pubMatched, subMatched, net, known>>

\* What pong or baz will answer is newer than what it has written, since what
\* it has printed is newer than what it had printed.
LEMMA TakeFeeds ==
    ASSUME IInv, NEW L \in Answered, NEW e, NEW K \in Links, From(K) = To(L),
           To(L) \in up, e.m \in Msgs(L), Caused(L, e.m, e.wi),
           \A f \in printed[L] : f.ri = inc[To(L)] /\ f.wi = e.wi => Below(f.m, e.m),
           NEW x, Caused(K, x, inc[To(L)])
    PROVE  Below(x, Made(To(L), e.m, inc[To(L)]))
<1> DEFINE p == To(L)
<1>1. /\ p \in {pong, baz} /\ InLink(p) = L /\ p # ping /\ L \in Links
      /\ p = pong => L = PP
      /\ p = baz => L = PB
    BY LinkFacts, Distinct DEF Answered, PP, PB
<1>2. PICK f \in printed[L] : f.ri = inc[p] /\ x = Made(p, f.m, inc[p])
    BY <1>1 DEF Caused
<1>3. f.m \in Msgs(L) /\ f.wi \in Starts /\ WasPrinted(L, f.m, f.wi)
    BY <1>1 DEF IInv, LinkInv, LinkTyped, WasPrinted
<1>4. Caused(L, f.m, f.wi)
    BY <1>1, <1>3 DEF IInv, LinkInv, LinkCaused, Flows
<1> HIDE DEF p
<1>5. SUFFICES ASSUME x.src = Made(p, e.m, inc[p]).src, x.via = Made(p, e.m, inc[p]).via
               PROVE  x.i < Made(p, e.m, inc[p]).i
    BY DEF Below, p
<1>6. /\ x.src = f.m.src /\ x.i = f.m.i
      /\ Made(p, e.m, inc[p]).src = e.m.src /\ Made(p, e.m, inc[p]).i = e.m.i
      /\ f.m.src = e.m.src /\ f.m.via = e.m.via
  <2>1. p \in Programs /\ inc[p] \in Starts /\ (p = pong => inc[p] \in StartsOf(pong))
      BY <1>1, LinkFacts, RunningStart DEF IInv, p
  <2>2. CASE p = pong
      BY <1>1, <1>2, <1>3, <1>5, <2>1, <2>2, MadeFacts
  <2>3. CASE p = baz
      BY <1>1, <1>2, <1>3, <1>5, <2>1, <2>3, MadeFacts
  <2> QED  BY <1>1, <2>2, <2>3
<1>7. f.wi = e.wi
    BY <1>4, <1>6, WriterOfMessage
<1> QED  BY <1>2, <1>6, <1>7 DEF Below, p

LEMMA TakeStep == ASSUME IInv, NEW L \in Links, Take(L) PROVE IInv'
<1>1. CASE cache[L] = <<>>
  <2>1. /\ UNCHANGED <<up, inc, polling, next_i, pubMatched, subMatched, net, known, hand,
                       printed>>
        /\ cache' = [cache EXCEPT ![L] = <<>>] /\ notice' = [notice EXCEPT ![L] = FALSE]
      BY <1>1 DEF Take, pingVars
  <2>2. \A K \in Links : cache'[K] = cache[K] \/ cache'[K] = <<>>
      BY <2>1 DEF IInv, Base
  <2>3. Base'
      BY <2>1 DEF IInv, Base
  <2> QED  BY <2>1, <2>2, <2>3, QuietStep
<1>2. CASE cache[L] # <<>>
  <2> DEFINE p == To(L)
             e == Head(cache[L])
             g == [m |-> e.m, wi |-> e.wi, ri |-> inc[p]]
  <2>1. TakePrints(L)
      BY <1>2 DEF Take, TakePrints, pingVars
  <2>2. /\ p \in up /\ p \in Programs /\ inc[p] \in Starts
        /\ hand[p] = <<>> /\ inc' = inc /\ up' = up /\ net' = net /\ next_i' = next_i
        /\ \A q \in Programs : hand'[q] = IF q = p THEN IF L \in Answered THEN <<e.m>> ELSE <<>>
                                           ELSE hand[q]
        /\ \A K \in Links : K # L => printed'[K] = printed[K] /\ cache'[K] = cache[K]
        /\ printed'[L] = printed[L] \cup {g} /\ cache'[L] = <<>>
      BY <2>1, LinkFacts, RunningStart DEF TakePrints, IInv, Base
  <2>3. \A K \in Links : printed[K] \subseteq printed'[K] /\ Onward(K)
    <3>1. \A K \in Links : printed[K] \subseteq printed'[K]
        BY <2>2
    <3> QED  BY <2>2, <3>1, OnwardFacts DEF IInv
  <2>4. /\ LinkSound(L)' /\ NothingNew(L)
        /\ e.m \in Msgs(L) /\ e.wi \in Starts /\ Caused(L, e.m, e.wi)
        /\ \A f \in printed[L] : f.ri = inc[p] /\ f.wi = e.wi => Below(f.m, e.m)
    <3>1. LinkSound(L) /\ net'[L] = net[L] /\ inc'[p] = inc[p]
        BY <2>2 DEF IInv, LinkInv, LinkSound
    <3> QED  BY <1>2, <2>2, <2>3, <3>1, LinkTakes
  <2> HIDE DEF p, e, g
  <2>5. Base'
      BY <2>1 DEF TakePrints, IInv, Base
  <2>6. Started'
      BY <2>2 DEF IInv, Started
  <2>7. Handed'
    <3>1. \A q \in {pong, baz} : InLink(q) \in Links
        BY LinkFacts DEF InLink
    <3>2. ASSUME NEW q \in Programs, hand'[q] # <<>>
          PROVE  /\ q \in up' /\ q \in {pong, baz}
                 /\ \E f \in printed'[InLink(q)] : hand'[q] = <<f.m>> /\ f.ri = inc'[q]
      <4>1. CASE q = p
        <5>1. L \in Answered /\ hand'[q] = <<e.m>>
            BY <2>2, <3>2, <4>1
        <5>2. q \in {pong, baz} /\ InLink(q) = L
            BY <4>1, <5>1, LinkFacts DEF p
        <5>3. g \in printed'[L] /\ g.m = e.m /\ g.ri = inc[p]
            BY <2>2 DEF g
        <5> QED  BY <2>2, <4>1, <5>1, <5>2, <5>3
      <4>2. CASE q # p
          BY <2>2, <2>3, <3>1, <3>2, <4>2 DEF IInv, Handed
      <4> QED  BY <4>1, <4>2
    <3> QED  BY <3>2 DEF Handed
  <2>8. ASSUME NEW K \in Links PROVE LinkInv(K)'
    <3>1. LinkSound(K) /\ LinkBounded(K) /\ LinkCaused(K) /\ LinkFed(K)
        BY DEF IInv, LinkInv, LinkSound
    <3>2. LinkSound(K)' /\ NothingNew(K)
      <4>1. CASE K = L
          BY <2>4, <4>1
      <4>2. CASE K # L
          BY <2>2, <2>3, <3>1, <4>2, LinkStays
      <4> QED  BY <4>1, <4>2
    <3>3. LinkFed(K)'
      <4>1. From(K) \in Programs
          BY LinkFacts
      <4>2. CASE From(K) # p \/ L \notin Answered
          BY <2>2, <2>3, <3>1, <3>2, <4>1, <4>2, FedStays
      <4>3. CASE From(K) = p /\ L \in Answered
        <5>1. p \in {pong, baz} /\ p # ping
            BY <4>3, LinkFacts, Distinct DEF p
        <5>2. Answer(p, Head(hand[p]))' = Made(p, e.m, inc[p])
          <6>1. Head(hand'[p]) = e.m
              BY <2>2, <4>3
          <6> QED  BY <2>2, <5>1, <6>1, Distinct DEF Answer, Made, p
        <5>3. ASSUME NEW n \in Starts, NEW x \in Msgs(K), Flows(K, x, n)', n = inc'[p]
              PROVE  Below(x, Made(p, e.m, inc[p]))
          <6>1. Caused(K, x, inc[p])
              BY <2>2, <3>1, <3>2, <5>3 DEF NothingNew, LinkCaused
          <6> QED  BY <2>2, <2>4, <4>3, <6>1, TakeFeeds DEF p
        <5>4. SUFFICES ASSUME NEW n \in Starts, NEW x \in Msgs(K), Flows(K, x, n)', n = inc'[p]
                       PROVE  Below(x, Answer(p, Head(hand[p])))'
            BY <4>3, <5>1 DEF LinkFed, Msgs, Msg
        <5> QED  BY <5>2, <5>3, <5>4 DEF Below
      <4> QED  BY <4>2, <4>3
    <3> QED  BY <3>2, <3>3 DEF LinkInv, LinkSound
  <2> QED  BY <2>5, <2>6, <2>7, <2>8 DEF IInv
<1> QED  BY <1>1, <1>2

--------------------------------------------------------------------------------
(* The invariant.                                                            *)

LEMMA InvInit == Init => IInv
<1> SUFFICES ASSUME Init PROVE IInv
    OBVIOUS
<1> USE DEF Init
<1>1. Base
    BY MeshAssumption DEF Base
<1>2. Started /\ Handed
    BY DEF Started, Handed
<1>3. ASSUME NEW L \in Links PROVE LinkInv(L)
  <2>1. net[L] = Silence /\ cache[L] = <<>> /\ printed[L] = {}
      OBVIOUS
  <2>2. \A n \in Starts : net[L][n] = <<>>
      BY <2>1 DEF Silence
  <2>3. LinkTyped(L)
      BY <2>1, SilenceType DEF LinkTyped
  <2>4. \A n \in Starts : \A m : ~Flows(L, m, n)
      BY <2>1, <2>2 DEF Flows, OnWire, Cached, WasPrinted
  <2>5. LinkCaused(L) /\ LinkBounded(L) /\ LinkFed(L)
      BY <2>1, <2>4 DEF LinkCaused, LinkBounded, LinkFed
  <2>6. LinkOrdered(L)
      BY <2>1, <2>2 DEF LinkOrdered
  <2> QED  BY <2>3, <2>5, <2>6 DEF LinkInv
<1> QED  BY <1>1, <1>2, <1>3 DEF IInv

LEMMA InvNext == IInv /\ [Next]_vars => IInv'
<1> SUFFICES ASSUME IInv, [Next]_vars PROVE IInv'
    OBVIOUS
<1>1. ASSUME NEW p \in Programs, Start(p) PROVE IInv'
    BY <1>1, StartStep
<1>2. ASSUME NEW p \in Programs, Crash(p) PROVE IInv'
    BY <1>2, CrashStep
<1>3. ASSUME NEW p \in Programs, Respond(p) PROVE IInv'
    BY <1>3, RespondStep
<1>4. ASSUME NEW L \in Links, WriterMatches(L) \/ ReaderMatches(L) PROVE IInv'
  <2>1. 1 \in Starts
      BY MeshAssumption DEF Starts
  <2> QED  BY <1>4, <2>1, MatchSteps
<1>5. ASSUME NEW L \in Links, Take(L) PROVE IInv'
    BY <1>5, TakeStep
<1>6. ASSUME NEW L \in Links, NEW n \in Starts, WriterForgets(L, n) PROVE IInv'
    BY <1>6, MatchSteps
<1>7. ASSUME NEW L \in Links, NEW n \in Starts, ReaderForgets(L, n) \/ Lose(L, n) PROVE IInv'
    BY <1>7, LossSteps
<1>8. ASSUME NEW L \in Links, NEW n \in Starts, Deliver(L, n) PROVE IInv'
    BY <1>8, DeliverStep
<1>9. CASE PollMatched
    BY <1>9, PollStep
<1>10. CASE Publish
    BY <1>10, PublishStep
<1>11. CASE UNCHANGED vars
  <2>1. UNCHANGED <<up, inc, polling, next_i, pubMatched, subMatched, net, cache, known, notice,
                    hand, printed>>
      BY <1>11 DEF vars, pingVars, linkVars
  <2>2. Base'
      BY <2>1 DEF IInv, Base
  <2> QED  BY <2>1, <2>2, QuietStep
<1> QED  BY <1>1, <1>2, <1>3, <1>4, <1>5, <1>6, <1>7, <1>8, <1>9, <1>10, <1>11 DEF Next

\* In every reachable state, what flows over a link has a cause and flows in
\* order, and what pong and baz hold is newer than all they have written.
THEOREM MeshInvariant == Spec => []IInv
BY InvInit, InvNext, PTL DEF Spec

--------------------------------------------------------------------------------
(* What the invariant says of the properties.                                *)

LEMMA InvTypeOK == IInv => TypeOK
<1> SUFFICES ASSUME IInv PROVE TypeOK
    OBVIOUS
<1>1. \A L \in Links : LinkTyped(L)
    BY DEF IInv, LinkInv
<1>2. ASSUME NEW p \in Programs PROVE hand[p] \in Seq(Msg("int", Starts \cup {0}))
  <2> DEFINE T == Msg("int", Starts \cup {0})
  <2>1. CASE hand[p] = <<>>
      BY <2>1
  <2>2. CASE hand[p] # <<>>
    <3>1. p \in {pong, baz}
        BY <2>2 DEF IInv, Handed
    <3>2. PICK f \in printed[InLink(p)] : hand[p] = <<f.m>>
        BY <2>2 DEF IInv, Handed
    <3>3. f.m \in Msgs(InLink(p))
        BY <1>1, <3>1, LinkFacts DEF LinkTyped
    <3>4. Msgs(InLink(p)) \subseteq T
        BY <3>1, LinkFacts, StartsFacts, Distinct DEF Msgs, Msg
    <3>5. f.m \in T
        BY <3>3, <3>4
    <3> HIDE DEF T
    <3>6. <<f.m>> \in Seq(T)
        BY <3>5
    <3> QED  BY <3>2, <3>6 DEF T
  <2> QED  BY <2>1, <2>2
<1> QED  BY <1>1, <1>2 DEF TypeOK, IInv, Base, LinkTyped

LEMMA InvCausal == IInv => Causal
<1> SUFFICES ASSUME IInv PROVE Causal
    OBVIOUS
<1>1. ASSUME NEW L \in {PB, BP}, NEW e \in printed[L]
      PROVE  \E f \in printed[InLink(From(L))] : f.ri = e.wi /\ e.m = Made(From(L), f.m, e.wi)
  <2>1. L \in Links /\ From(L) # ping
      BY LinkFacts, Distinct
  <2>2. e.m \in Msgs(L) /\ e.wi \in Starts /\ WasPrinted(L, e.m, e.wi)
      BY <2>1 DEF IInv, LinkInv, LinkTyped, WasPrinted
  <2>3. Caused(L, e.m, e.wi)
      BY <2>1, <2>2 DEF IInv, LinkInv, LinkCaused, Flows
  <2> QED  BY <2>1, <2>3 DEF Caused
<1>2. \A e \in printed[PB] : \E f \in printed[PP] :
        e.m = [f.m EXCEPT !.via = e.wi] /\ f.ri = e.wi
    BY <1>1, LinkFacts, Distinct DEF Made
<1>3. \A e \in printed[BP] : \E f \in printed[PB] :
        e.m = [f.m EXCEPT !.kind = "text"] /\ f.ri = e.wi
    BY <1>1, LinkFacts, Distinct DEF Made
<1> QED  BY <1>2, <1>3 DEF Causal, PP, PB, BP

\* What InOrder says of a step and a link.
OrderKept(L) ==
    /\ Taken(L) => printed'[L] # printed[L]
    /\ \A e \in printed'[L] \ printed[L], f \in printed[L] : SameOrigin(e, f) => e.m.i > f.m.i

\* Only a Take prints, and only a Take empties the reader of a running program.
LEMMA OthersPrintNothing ==
    ASSUME IInv, Next, NEW L \in Links, \A K \in Links : ~Take(K)
    PROVE  OrderKept(L)
<1>1. printed' = printed /\ (cache'[L] = <<>> => cache[L] = <<>> \/ To(L) \notin up')
  <2>1. DOMAIN cache = Links /\ L \in Links
      BY DEF IInv, Base
  <2>2. ASSUME NEW p \in Programs, Start(p) \/ Respond(p)
        PROVE  printed' = printed /\ cache' = cache
      BY <2>2 DEF Start, Respond, linkVars
  <2>3. ASSUME NEW p \in Programs, Crash(p)
        PROVE  printed' = printed /\ (cache'[L] = cache[L] \/ To(L) \notin up')
      BY <2>1, <2>3 DEF Crash
  <2>4. ASSUME NEW K \in Links, WriterMatches(K) \/ ReaderMatches(K)
        PROVE  printed' = printed /\ cache' = cache
      BY <2>4 DEF WriterMatches, ReaderMatches
  <2>5. ASSUME NEW K \in Links, NEW n \in Starts,
               WriterForgets(K, n) \/ ReaderForgets(K, n) \/ Lose(K, n)
        PROVE  printed' = printed /\ cache' = cache
      BY <2>5 DEF WriterForgets, ReaderForgets, Lose
  <2>6. ASSUME NEW K \in Links, NEW n \in Starts, Deliver(K, n)
        PROVE  printed' = printed /\ (cache'[L] = cache[L] \/ cache'[L] # <<>>)
      BY <2>1, <2>6 DEF Deliver, Put
  <2>7. ASSUME PollMatched \/ Publish PROVE printed' = printed /\ cache' = cache
      BY <2>7 DEF PollMatched, Publish, linkVars
  <2> QED  BY <2>2, <2>3, <2>4, <2>5, <2>6, <2>7 DEF Next
<1> QED  BY <1>1 DEF OrderKept, Taken

LEMMA TakeKeepsOrder ==
    ASSUME IInv, NEW L \in Links, NEW K \in Links, Take(K)
    PROVE  OrderKept(L)
<1>1. DOMAIN cache = Links /\ DOMAIN printed = Links
    BY DEF IInv, Base
<1>2. CASE K # L \/ cache[K] = <<>>
  <2>1. printed'[L] = printed[L]
      BY <1>1, <1>2 DEF Take
  <2>2. cache'[L] = cache[L] \/ cache[L] = <<>>
      BY <1>1, <1>2 DEF Take
  <2> QED  BY <2>1, <2>2 DEF OrderKept, Taken
<1>3. CASE K = L /\ cache[L] # <<>>
  <2> DEFINE e == Head(cache[L])
             g == [m |-> e.m, wi |-> e.wi, ri |-> inc[To(L)]]
  <2>1. printed'[L] = printed[L] \cup {g}
      BY <1>1, <1>3 DEF Take
  <2>2. e.m \in Msgs(L) /\ e.wi \in Starts
      BY <1>3, CachedFacts DEF IInv, LinkInv
  <2>3. e.m.i \in Int /\ \A f \in printed[L] : f.m.i \in Int
      BY <2>2, MadeFacts DEF IInv, LinkInv, LinkTyped
  <2>4. \A f \in printed[L] : f.ri = inc[To(L)] /\ f.wi = e.wi => Below(f.m, e.m)
      BY <1>3, <2>2 DEF IInv, LinkInv, LinkOrdered
  <2>5. g.m = e.m /\ g.wi = e.wi /\ g.ri = inc[To(L)]
      OBVIOUS
  <2> HIDE DEF e, g
  <2>6. \A f \in printed[L] : SameOrigin(g, f) => g.m.i > f.m.i
      BY <2>3, <2>4, <2>5 DEF SameOrigin, Below
  <2>7. g \notin printed[L]
      BY <2>3, <2>5, <2>6 DEF SameOrigin
  <2> QED  BY <2>1, <2>6, <2>7 DEF OrderKept
<1> QED  BY <1>2, <1>3

LEMMA NextKeepsOrder ==
    IInv /\ [Next]_vars =>
      [\A L \in Links :
         /\ Taken(L) => printed'[L] # printed[L]
         /\ \A e \in printed'[L] \ printed[L], f \in printed[L] :
              SameOrigin(e, f) => e.m.i > f.m.i]_vars
<1>1. ASSUME IInv, Next PROVE \A L \in Links : OrderKept(L)
    BY <1>1, OthersPrintNothing, TakeKeepsOrder
<1> QED  BY <1>1 DEF OrderKept

--------------------------------------------------------------------------------

\* Messages, histories and prints have their types, whatever is lost and
\* whoever crashes; a reader's keep-last 1 history holds one sample at most.
THEOREM MeshTypeOK == Spec => []TypeOK
BY MeshInvariant, InvTypeOK, PTL

\* baz prints only what that incarnation of pong has printed and forwarded, and
\* pong prints only what that incarnation of baz has printed and answered.
THEOREM NothingFromThinAir == Spec => []Causal
BY MeshInvariant, InvCausal, PTL

\* ping's integers are printed in ping's order and none of them twice, by pong,
\* baz, hoge and, as replies, by pong again.
THEOREM PrintedInOrder == Spec => InOrder
BY MeshInvariant, NextKeepsOrder, PTL DEF Spec, InOrder
================================================================================
