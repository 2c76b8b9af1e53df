----------------------------- MODULE WaitSetProofs -----------------------------
(***************************************************************************)
(* The waitset loses no wake-up and returns no reader in vain, for any number *)
(* of readers and of delivering threads.  The argument: a condition is        *)
(* triggered exactly while its reader holds something (Triggers); a thread    *)
(* that keeps a reader's lock has yet to signal it; and whatever a scan has   *)
(* left behind untriggered either holds nothing or is about to be signalled   *)
(* (Noticed).  All of it needs that swapping entities about keeps each of     *)
(* them exactly once (Held).                                                 *)
(***************************************************************************)
EXTENDS WaitSet, FiniteSetTheorems, TLAPS

N == Cardinality(Readers)

\* How many conditions have entered the waitset, and how many it observes.
Entered == IF app = "create" THEN 0
           ELSE IF app = "attach" THEN k - 1
           ELSE IF app = "link" THEN k ELSE N
Linked  == IF app = "create" THEN 0
           ELSE IF app \in {"attach", "link"} THEN k - 1 ELSE N

FirstOf(n) == {Order[i] : i \in 1..n}

Entries(s) == {s[i] : i \in DOMAIN s}

NoRepeat(s) == \A i, j \in DOMAIN s : s[i] = s[j] => i = j

Setting == app \in {"create", "attach", "link"}
Looking == app \in {"scan", "blocked", "woken"}

SetUp == /\ Setting => k \in 1..N
         /\ conds = IF app = "create" THEN FirstOf(k - 1) ELSE Readers
         /\ observed = FirstOf(Linked)

Held == /\ Len(entities) = Entered
        /\ Entries(entities) = FirstOf(Entered)
        /\ NoRepeat(entities)

Triggers == /\ \A r \in Readers : m_trigger[r] = IF has[r] /\ r \in conds THEN 1 ELSE 0
            /\ \A r \in Readers : rhcLock[r] # Nobody => has[r] /\ r \in conds

\* Positions the scan, or all of it, has been past.
Passed == IF app = "scan" THEN k - 1 ELSE Len(entities)

Noticed == Looking =>
    /\ \A i \in 1..ntriggered : has[entities[i]]
    /\ \A i \in ntriggered+1..Passed :
         has[entities[i]] => rhcLock[entities[i]] # Nobody
    /\ ntriggered <= Passed /\ Passed <= Len(entities)
    /\ app = "blocked" => ntriggered = 0

Returned == /\ app = "take" <=> triggered # <<>>
            /\ NoEmptyTake
            /\ NoRepeat(triggered)

IInv == TypeOK /\ SetUp /\ Held /\ Triggers /\ Noticed /\ Returned

--------------------------------------------------------------------------------
(* Sequences and the order of set-up.                                        *)

\* Each reader comes up exactly once in Order.
LEMMA OrderFacts ==
    /\ N \in Nat /\ N >= 1
    /\ DOMAIN Order = 1..N /\ Len(Order) = N
    /\ \A i \in 1..N : Order[i] \in Readers
    /\ NoRepeat(Order)
    /\ FirstOf(N) = Readers
    /\ FirstOf(0) = {}
<1> USE OrderAssumption
<1>1. N \in Nat
    BY FS_CardinalityType DEF N
<1>2. N # 0
    BY FS_EmptySet, FS_CardinalityType DEF N
<1>3. Order \in [1..N -> Readers] /\ \A r \in Readers : \E i \in 1..N : Order[i] = r
    BY DEF N
<1>4. IsFiniteSet(1..N) /\ Cardinality(1..N) = N
    BY <1>1, FS_Interval
<1>5. Order \in Surjection(1..N, Readers)
    BY <1>3 DEF Surjection
<1>6. Order \in Injection(1..N, Readers)
    BY <1>4, <1>5, FS_SurjSameCardinalityImpliesInj DEF N
<1>7. NoRepeat(Order)
    BY <1>3, <1>6 DEF Injection, IsInjective, NoRepeat
<1>8. Order \in Seq(Readers) /\ Len(Order) = N
    BY <1>1, <1>3
<1>9. FirstOf(N) = Readers
  <2>1. FirstOf(N) \subseteq Readers
      BY <1>3 DEF FirstOf
  <2>2. Readers \subseteq FirstOf(N)
      BY <1>3 DEF FirstOf
  <2> QED  BY <2>1, <2>2
<1>10. FirstOf(0) = {}
    BY DEF FirstOf
<1>11. N >= 1
    BY <1>1, <1>2
<1>12. DOMAIN Order = 1..N /\ \A i \in 1..N : Order[i] \in Readers
    BY <1>3
<1> HIDE OrderAssumption
<1> QED  BY <1>1, <1>7, <1>8, <1>9, <1>10, <1>11, <1>12

\* Moving an entry to the end of the prefix loses none and repeats none.
LEMMA PromotedFacts ==
    ASSUME NEW s \in Seq(Readers), NoRepeat(s),
           NEW i \in 1..Len(s), NEW n \in 0..i-1
    PROVE  LET p == Promoted(s, i, n)
           IN  /\ p \in Seq(Readers) /\ Len(p) = Len(s)
               /\ Entries(p) = Entries(s)
               /\ NoRepeat(p)
               /\ p[n + 1] = s[i]
               /\ \A j \in 1..n : p[j] = s[j]
               /\ \A j \in n+2..Len(s) : p[j] = IF j = i THEN s[n + 1] ELSE s[j]
<1> DEFINE p == Promoted(s, i, n)
<1>1. /\ DOMAIN s = 1..Len(s) /\ Len(s) \in Nat /\ n + 1 \in 1..Len(s)
      /\ \A j \in 1..Len(s) : s[j] \in Readers
    OBVIOUS
<1>2. /\ DOMAIN p = 1..Len(s)
      /\ \A j \in 1..Len(s) : p[j] = IF j = n + 1 THEN s[i]
                                     ELSE IF j = i THEN s[n + 1] ELSE s[j]
    BY <1>1 DEF Promoted
<1>3. p \in Seq(Readers) /\ Len(p) = Len(s)
    BY <1>1 DEF Promoted
<1>4. Entries(p) = Entries(s)
  <2>1. \A j \in 1..Len(s) : \E l \in 1..Len(s) : p[j] = s[l]
      BY <1>1, <1>2
  <2>2. \A j \in 1..Len(s) : \E l \in 1..Len(s) : s[j] = p[l]
      BY <1>1, <1>2
  <2> HIDE DEF p
  <2>3. ASSUME NEW x PROVE x \in Entries(p) <=> x \in Entries(s)
    <3>1. x \in Entries(p) <=> \E j \in 1..Len(s) : x = p[j]
        BY <1>2 DEF Entries
    <3>2. x \in Entries(s) <=> \E j \in 1..Len(s) : x = s[j]
        BY <1>1 DEF Entries
    <3> QED  BY <2>1, <2>2, <3>1, <3>2
  <2> QED  BY <2>3
<1>5. NoRepeat(p)
    BY <1>1, <1>2 DEF NoRepeat
<1> HIDE DEF p
<1>6. \A j \in n+2..Len(s) : p[j] = IF j = i THEN s[n + 1] ELSE s[j]
    BY <1>1, <1>2
<1>7. /\ p[n + 1] = s[i]
      /\ \A j \in 1..n : p[j] = s[j]
    BY <1>1, <1>2
<1> QED  BY <1>3, <1>4, <1>5, <1>6, <1>7 DEF p

\* A new entry is repeated nowhere.
LEMMA AppendFacts ==
    ASSUME NEW s \in Seq(Readers), NoRepeat(s),
           NEW r \in Readers, r \notin Entries(s)
    PROVE  LET g == Append(s, r)
           IN  /\ g \in Seq(Readers) /\ Len(g) = Len(s) + 1
               /\ Entries(g) = Entries(s) \cup {r}
               /\ NoRepeat(g)
<1> DEFINE g == Append(s, r)
<1>1. /\ DOMAIN s = 1..Len(s) /\ Len(s) \in Nat
      /\ g \in Seq(Readers) /\ Len(g) = Len(s) + 1
      /\ DOMAIN g = 1..Len(s)+1
      /\ \A j \in 1..Len(s) : g[j] = s[j]
      /\ g[Len(s) + 1] = r
    OBVIOUS
<1> HIDE DEF g
<1>2. NoRepeat(g)
    BY <1>1 DEF NoRepeat, Entries
<1>3. Entries(g) = Entries(s) \cup {r}
  <2>1. \A j \in 1..Len(s)+1 : g[j] = r \/ \E l \in 1..Len(s) : g[j] = s[l]
      BY <1>1
  <2>2. \A l \in 1..Len(s) : \E j \in 1..Len(s)+1 : g[j] = s[l]
      BY <1>1
  <2>3. Len(s) + 1 \in 1..Len(s)+1
      BY <1>1
  <2>4. ASSUME NEW x
        PROVE  x \in Entries(g) <=> x \in Entries(s) \cup {r}
    <3>1. x \in Entries(g) <=> \E j \in 1..Len(s)+1 : x = g[j]
        BY <1>1 DEF Entries
    <3>2. x \in Entries(s) <=> \E j \in 1..Len(s) : x = s[j]
        BY <1>1 DEF Entries
    <3> QED  BY <1>1, <2>1, <2>2, <2>3, <3>1, <3>2
  <2> QED  BY <2>4
<1> QED  BY <1>1, <1>2, <1>3 DEF g

LEMMA FirstOfNext ==
    ASSUME NEW i \in 1..N
    PROVE  /\ FirstOf(i) = FirstOf(i - 1) \cup {Order[i]}
           /\ Order[i] \notin FirstOf(i - 1)
           /\ FirstOf(i - 1) \subseteq Readers
<1>1. \A j \in 1..i : j = i \/ j \in 1..i-1
    BY OrderFacts
<1>2. 1..i-1 \subseteq 1..i /\ i \in 1..i /\ 1..i \subseteq 1..N
    BY OrderFacts
<1>3. FirstOf(i) = FirstOf(i - 1) \cup {Order[i]}
    BY <1>1, <1>2 DEF FirstOf
<1>4. Order[i] \notin FirstOf(i - 1)
  <2> SUFFICES ASSUME NEW j \in 1..i-1, Order[j] = Order[i] PROVE FALSE
      BY DEF FirstOf
  <2> QED  BY OrderFacts DEF NoRepeat
<1>5. FirstOf(i - 1) \subseteq Readers
    BY <1>2, OrderFacts DEF FirstOf
<1> QED  BY <1>3, <1>4, <1>5

--------------------------------------------------------------------------------
(* The delivering threads.                                                   *)

LEMMA DeliverKeeps ==
    ASSUME IInv, NEW d \in Deliverers, NEW r \in Readers, Deliver(d, r)
    PROVE  IInv'
<1> USE ThreadsAssumption
<1>1. UNCHANGED <<conds, observed, obsLock, wsVars, appVars>> /\ rhcLock[r] = Nobody
    BY DEF Deliver
<1>2. /\ has \in [Readers -> BOOLEAN] /\ m_trigger \in [Readers -> {0, 1}]
      /\ rhcLock \in [Readers -> Deliverers \cup {Nobody}]
      /\ entities \in Seq(Readers) /\ triggered \in Seq(Readers)
    BY DEF IInv, TypeOK
<1>3. /\ has' = [has EXCEPT ![r] = TRUE]
      /\ m_trigger' = IF r \in conds /\ ~has[r] THEN [m_trigger EXCEPT ![r] = @ + 1]
                                                ELSE m_trigger
      /\ rhcLock' = IF r \in conds /\ ~has[r] THEN [rhcLock EXCEPT ![r] = d] ELSE rhcLock
    BY <1>2 DEF Deliver, IInv, Triggers
<1>4. TypeOK'
  <2>1. m_trigger' \in [Readers -> {0, 1}]
      BY <1>2, <1>3 DEF IInv, Triggers
  <2>2. has' \in [Readers -> BOOLEAN] /\ rhcLock' \in [Readers -> Deliverers \cup {Nobody}]
      BY <1>2, <1>3
  <2>3. del' \in [Deliverers -> {"idle", "signal", "notify"}]
      BY DEF Deliver, IInv, TypeOK
  <2> QED  BY <1>1, <2>1, <2>2, <2>3 DEF IInv, TypeOK, wsVars, appVars
<1>5. SetUp' /\ Held'
    BY <1>1 DEF IInv, SetUp, Held, Setting, Linked, Entered, NoRepeat, wsVars, appVars
<1>6. Triggers'
    BY <1>1, <1>2, <1>3 DEF IInv, Triggers
<1>7. Noticed'
  <2> SUFFICES ASSUME Looking PROVE Noticed'
      BY <1>1 DEF Noticed, Looking, appVars
  <2>1. conds = Readers /\ \A i \in 1..Len(entities) : entities[i] \in Readers
      BY <1>2 DEF IInv, SetUp, Looking
  <2>2. \A q \in Readers : /\ has[q] => has'[q]
                           /\ rhcLock[q] # Nobody => rhcLock'[q] # Nobody
                           /\ has'[q] => has[q] \/ rhcLock'[q] # Nobody
      BY <1>2, <1>3, <2>1
  <2>3. Passed' = Passed /\ UNCHANGED <<entities, ntriggered, app>>
      BY <1>1 DEF Passed, wsVars, appVars
  <2>4. /\ Passed <= Len(entities) /\ ntriggered <= Passed
        /\ ntriggered \in Nat /\ Len(entities) \in Nat /\ Passed \in Int
      BY <1>2 DEF IInv, Noticed, TypeOK, Passed
  <2>5. /\ 1..ntriggered \subseteq 1..Len(entities)
        /\ ntriggered+1..Passed \subseteq 1..Len(entities)
      BY <2>4
  <2> QED  BY <2>1, <2>2, <2>3, <2>5 DEF IInv, Noticed
<1>8. Returned'
    BY <1>1, <1>2, <1>3 DEF IInv, Returned, NoEmptyTake, NoRepeat, appVars
<1> QED  BY <1>4, <1>5, <1>6, <1>7, <1>8 DEF IInv

LEMMA SignalKeeps ==
    ASSUME IInv, NEW d \in Deliverers, NEW r \in Readers, Signal(d, r)
    PROVE  IInv'
<1>1. UNCHANGED <<rdVars, observed, rhcLock, wsVars, appVars>>
    BY DEF Signal
<1>2. TypeOK'
    BY <1>1 DEF Signal, IInv, TypeOK, rdVars, wsVars, appVars
<1> QED  BY <1>1, <1>2 DEF IInv, SetUp, Held, Triggers, Noticed, Returned, NoEmptyTake, Setting,
             Linked, Entered, Looking, Passed, NoRepeat, rdVars, wsVars, appVars

LEMMA NotifyKeeps ==
    ASSUME IInv, NEW d \in Deliverers, NEW r \in Readers, Notify(d, r)
    PROVE  IInv'
<1> USE ThreadsAssumption
<1>1. /\ UNCHANGED <<rdVars, observed, k, triggered>>
      /\ rhcLock[r] = d
      /\ rhcLock' = [rhcLock EXCEPT ![r] = Nobody]
      /\ IF r \in observed THEN Observer(r) ELSE UNCHANGED <<wsVars, app>>
    BY DEF Notify
<1>2. /\ has \in [Readers -> BOOLEAN]
      /\ rhcLock \in [Readers -> Deliverers \cup {Nobody}]
      /\ entities \in Seq(Readers) /\ ntriggered \in 0..Len(entities) /\ Len(entities) \in Nat
      /\ DOMAIN entities = 1..Len(entities)
      /\ \A i \in 1..Len(entities) : entities[i] \in Readers
      /\ app \in {"create", "attach", "link", "wait", "scan", "blocked", "woken", "take"}
    BY DEF IInv, TypeOK
<1>3. rhcLock' \in [Readers -> Deliverers \cup {Nobody}]
    BY <1>1, <1>2
<1>4. obsLock' \in [Readers -> Deliverers \cup {App, Nobody}]
      /\ del' \in [Deliverers -> {"idle", "signal", "notify"}]
    BY DEF Notify, IInv, TypeOK
<1>5. has[r] /\ \A q \in Readers : q # r => rhcLock'[q] = rhcLock[q]
    BY <1>1, <1>2 DEF IInv, Triggers
<1>6. Triggers'
    BY <1>1, <1>2 DEF IInv, Triggers, rdVars
<1>7. CASE r \notin observed
  <2>1. UNCHANGED <<wsVars, app>>
      BY <1>1, <1>7
  <2>2. Setting \/ ~Looking
    <3>1. ~Setting => observed = Readers
        BY OrderFacts DEF IInv, SetUp, Setting, Linked
    <3> QED  BY <1>7, <3>1
  <2>3. ~Looking
      BY <2>2 DEF Setting, Looking
  <2>4. TypeOK'
      BY <1>1, <1>3, <1>4, <2>1 DEF IInv, TypeOK, rdVars, wsVars
  <2> QED  BY <1>1, <1>6, <2>1, <2>3, <2>4
           DEF IInv, SetUp, Held, Noticed, Returned, NoEmptyTake, Setting, Linked, Entered,
               Looking, NoRepeat, rdVars, wsVars
<1>8. CASE r \in observed
  <2> DEFINE i == CHOOSE j \in DOMAIN entities : entities[j] = r
  <2>1. /\ app # "scan"
        /\ IF i > ntriggered
             THEN /\ entities' = Promoted(entities, i, ntriggered)
                  /\ ntriggered' = ntriggered + 1
             ELSE UNCHANGED wsVars
        /\ app' = IF app = "blocked" THEN "woken" ELSE app
      BY <1>1, <1>8 DEF Observer, WaitLockFree
  <2>2. i \in 1..Len(entities) /\ entities[i] = r
    <3>1. \E j \in DOMAIN entities : entities[j] = r
      <4>1. r \in FirstOf(Entered)
        <5>1. CASE app = "link"
          <6>1. k \in 1..N
              BY <5>1 DEF IInv, SetUp, Setting
          <6> QED  BY <1>8, <5>1, <6>1, FirstOfNext DEF IInv, SetUp, Linked, Entered
        <5>2. CASE app # "link"
          <6>1. Linked = Entered
              BY <1>2, <5>2 DEF Linked, Entered
          <6> QED  BY <1>8, <6>1 DEF IInv, SetUp
        <5> QED  BY <5>1, <5>2
      <4> QED  BY <4>1 DEF IInv, Held, Entries
    <3> QED  BY <1>2, <3>1
  <2> HIDE DEF i
  <2>3. /\ entities' \in Seq(Readers) /\ Len(entities') = Len(entities)
        /\ Entries(entities') = Entries(entities)
        /\ NoRepeat(entities')
        /\ ntriggered' \in ntriggered..Len(entities)
        /\ \A j \in ntriggered'+1..Len(entities) : entities'[j] # r
        /\ app' = "woken" =>
             /\ \A j \in 1..ntriggered' : has[entities'[j]]
             /\ \A j \in ntriggered'+1..Len(entities) :
                  has[entities'[j]] => rhcLock[entities'[j]] # Nobody
    <3>0. app' = "woken" =>
             /\ \A j \in 1..ntriggered : has[entities[j]]
             /\ \A j \in ntriggered+1..Len(entities) :
                  has[entities[j]] => rhcLock[entities[j]] # Nobody
        BY <2>1 DEF IInv, Noticed, Looking, Passed
    <3>1. CASE i > ntriggered
      <4>1. /\ ntriggered \in 0..i-1
            /\ entities' = Promoted(entities, i, ntriggered) /\ ntriggered' = ntriggered + 1
          BY <1>2, <2>1, <2>2, <3>1
      <4>2. /\ entities' \in Seq(Readers) /\ Len(entities') = Len(entities)
            /\ Entries(entities') = Entries(entities)
            /\ NoRepeat(entities')
            /\ entities'[ntriggered + 1] = entities[i]
            /\ \A j \in 1..ntriggered : entities'[j] = entities[j]
            /\ \A j \in ntriggered+2..Len(entities) :
                 entities'[j] = IF j = i THEN entities[ntriggered + 1] ELSE entities[j]
          BY <1>2, <2>2, <4>1, PromotedFacts DEF IInv, Held
      <4>3. ASSUME NEW j \in ntriggered+2..Len(entities)
            PROVE  entities'[j] # r
          BY <1>2, <2>2, <4>2 DEF NoRepeat
      <4>4. ASSUME app' = "woken", NEW j \in ntriggered+2..Len(entities), has[entities'[j]]
            PROVE  rhcLock[entities'[j]] # Nobody
          BY <1>2, <2>2, <3>0, <3>1, <4>2, <4>4
      <4>5. ASSUME app' = "woken", NEW j \in 1..ntriggered+1
            PROVE  has[entities'[j]]
          BY <1>2, <1>5, <2>2, <3>0, <4>2, <4>5
      <4>6. ntriggered' + 1 = ntriggered + 2 /\ ntriggered' \in ntriggered..Len(entities)
          BY <1>2, <2>2, <4>1
      <4>7. \A j \in ntriggered'+1..Len(entities) : entities'[j] # r
          BY <4>3, <4>6
      <4>8. app' = "woken" => \A j \in 1..ntriggered' : has[entities'[j]]
          BY <4>1, <4>5
      <4>9. app' = "woken" => \A j \in ntriggered'+1..Len(entities) :
                                has[entities'[j]] => rhcLock[entities'[j]] # Nobody
          BY <4>4, <4>6
      <4> QED  BY <4>2, <4>6, <4>7, <4>8, <4>9
    <3>2. CASE ~(i > ntriggered)
      <4>1. UNCHANGED <<entities, ntriggered>>
          BY <2>1, <3>2 DEF wsVars
      <4>2. \A j \in ntriggered+1..Len(entities) : entities[j] # r
          BY <1>2, <2>2, <3>2 DEF IInv, Held, NoRepeat
      <4>3. ntriggered' \in ntriggered..Len(entities)
          BY <1>2, <4>1
      <4>4. NoRepeat(entities')
          BY <4>1 DEF IInv, Held, NoRepeat
      <4> QED  BY <1>2, <3>0, <4>1, <4>2, <4>3, <4>4
    <3> QED  BY <3>1, <3>2
  <2>4. TypeOK'
      BY <1>1, <1>2, <1>3, <1>4, <2>1, <2>3 DEF IInv, TypeOK, rdVars
  <2>5. SetUp'
      BY <1>1, <1>2, <2>1 DEF IInv, SetUp, Setting, Linked, rdVars
  <2>6. Held'
    <3>1. Entered' = Entered
        BY <1>1, <2>1 DEF Entered
    <3> QED  BY <2>3, <3>1 DEF IInv, Held, FirstOf
  <2>7. Noticed'
    <3> SUFFICES ASSUME Looking' PROVE Noticed'
        BY DEF Noticed
    <3>1. app' = "woken" /\ Passed' = Len(entities)
        BY <2>1, <2>3 DEF Looking, Passed
    <3>2. \A j \in 1..Len(entities) : entities'[j] \in Readers
        BY <1>2, <2>3
    <3>3. \A j \in ntriggered'+1..Len(entities) :
            has[entities'[j]] => rhcLock'[entities'[j]] # Nobody
      <4> SUFFICES ASSUME NEW j \in ntriggered'+1..Len(entities), has[entities'[j]]
                   PROVE  rhcLock'[entities'[j]] # Nobody
          OBVIOUS
      <4>1. entities'[j] \in Readers /\ entities'[j] # r
        <5>1. ntriggered' \in Nat /\ Len(entities) \in Nat
            BY <1>2, <2>3
        <5>2. \A n, l \in Nat : n+1..l \subseteq 1..l
            OBVIOUS
        <5> QED  BY <2>3, <3>2, <5>1, <5>2
      <4> QED  BY <1>5, <2>3, <3>1, <4>1
    <3>4. ntriggered' <= Passed' /\ Passed' <= Len(entities')
        BY <1>2, <2>3, <3>1
    <3>5. \A j \in 1..ntriggered' : has'[entities'[j]]
        BY <1>1, <2>3, <3>1 DEF rdVars
    <3>6. \A j \in ntriggered'+1..Passed' : has'[entities'[j]] => rhcLock'[entities'[j]] # Nobody
        BY <1>1, <3>1, <3>3 DEF rdVars
    <3> QED  BY <3>1, <3>4, <3>5, <3>6 DEF Noticed
  <2>8. Returned'
      BY <1>1, <1>2, <2>1 DEF IInv, Returned, NoEmptyTake, NoRepeat, rdVars
  <2> QED  BY <1>6, <2>4, <2>5, <2>6, <2>7, <2>8 DEF IInv
<1> QED  BY <1>7, <1>8

--------------------------------------------------------------------------------
(* The program's thread.                                                     *)

LEMMA CreateKeeps == ASSUME IInv, CreateCondition PROVE IInv'
<1> DEFINE r == Order[k]
<1>1. /\ app = "create" /\ k \in 1..N /\ r \in Readers
      /\ FirstOf(k) = FirstOf(k - 1) \cup {r}
      /\ N \in Nat /\ Len(Order) = N /\ FirstOf(0) = {} /\ FirstOf(N) = Readers
    BY OrderFacts, FirstOfNext DEF CreateCondition, IInv, SetUp, Setting
<1>2. /\ conds' = conds \cup {r}
      /\ m_trigger' = [m_trigger EXCEPT ![r] = IF has[r] THEN 1 ELSE 0]
      /\ rhcLock[r] = Nobody
      /\ UNCHANGED <<has, observed, rhcLock, obsLock, wsVars, triggered, del>>
    BY DEF CreateCondition
<1>3. IF k < N THEN k' = k + 1 /\ app' = "create" ELSE k' = 1 /\ app' = "attach"
    BY <1>1 DEF CreateCondition, Advance
<1> HIDE DEF r
<1>4. SetUp'
  <2>1. conds' = FirstOf(k) /\ observed' = {}
      BY <1>1, <1>2 DEF IInv, SetUp, Linked
  <2>2. CASE k < N
      BY <1>1, <1>3, <2>1, <2>2 DEF SetUp, Setting, Linked
  <2>3. CASE ~(k < N)
      BY <1>1, <1>3, <2>1, <2>3 DEF SetUp, Setting, Linked
  <2> QED  BY <2>2, <2>3
<1>5. Held'
  <2>1. Entered = 0 /\ Entered' = 0
      BY <1>1, <1>3 DEF Entered
  <2> QED  BY <1>2, <2>1 DEF IInv, Held, Entries, NoRepeat, wsVars
<1>6. Triggers'
    BY <1>1, <1>2 DEF IInv, TypeOK, Triggers
<1>7. TypeOK'
  <2>1. k' \in 1..N+1 /\ conds' \in SUBSET Readers /\ observed' \in SUBSET conds'
      BY <1>1, <1>2, <1>3 DEF IInv, TypeOK
  <2>2. m_trigger' \in [Readers -> {0, 1}]
      BY <1>2 DEF IInv, TypeOK
  <2> QED  BY <1>2, <1>3, <2>1, <2>2 DEF IInv, TypeOK, N, wsVars
<1> QED  BY <1>1, <1>2, <1>3, <1>4, <1>5, <1>6, <1>7
         DEF IInv, Noticed, Looking, Returned, NoEmptyTake, NoRepeat

LEMMA AttachKeeps == ASSUME IInv, Attach PROVE IInv'
<1> DEFINE r == Order[k]
           grown == Append(entities, r)
<1>1. /\ app = "attach" /\ k \in 1..N /\ r \in Readers
      /\ FirstOf(k) = FirstOf(k - 1) \cup {r} /\ r \notin FirstOf(k - 1)
      /\ N \in Nat
    BY OrderFacts, FirstOfNext DEF Attach, IInv, SetUp, Setting
<1>2. /\ obsLock' = [obsLock EXCEPT ![r] = App] /\ app' = "link"
      /\ IF m_trigger[r] # 0
           THEN /\ entities' = Promoted(grown, Len(grown), ntriggered)
                /\ ntriggered' = ntriggered + 1
           ELSE entities' = grown /\ UNCHANGED ntriggered
      /\ UNCHANGED <<rdVars, observed, rhcLock, k, triggered, del>>
    BY DEF Attach
<1>3. /\ entities \in Seq(Readers) /\ Len(entities) = k - 1
      /\ Entries(entities) = FirstOf(k - 1) /\ NoRepeat(entities)
      /\ ntriggered \in 0..k-1
    BY <1>1 DEF IInv, TypeOK, Held, Entered
<1> HIDE DEF r
<1>4. /\ grown \in Seq(Readers) /\ Len(grown) = k
      /\ Entries(grown) = FirstOf(k) /\ NoRepeat(grown)
  <2>1. r \notin {entities[j] : j \in DOMAIN entities}
      BY <1>1, <1>3 DEF Entries
  <2>2. /\ grown \in Seq(Readers) /\ Len(grown) = Len(entities) + 1
        /\ Entries(grown) = Entries(entities) \cup {r} /\ NoRepeat(grown)
      BY <1>1, <1>3, <2>1, AppendFacts DEF Entries
  <2> QED  BY <1>1, <1>3, <2>2
<1> HIDE DEF grown
<1>5. /\ entities' \in Seq(Readers) /\ Len(entities') = k
      /\ Entries(entities') = FirstOf(k) /\ NoRepeat(entities')
      /\ ntriggered' \in 0..k
  <2>1. CASE m_trigger[r] # 0
    <3>1. k \in 1..Len(grown) /\ ntriggered \in 0..k-1
        BY <1>1, <1>3, <1>4
    <3>2. /\ entities' = Promoted(grown, k, ntriggered) /\ ntriggered' = ntriggered + 1
        BY <1>2, <1>4, <2>1
    <3>3. /\ entities' \in Seq(Readers) /\ Len(entities') = Len(grown)
          /\ Entries(entities') = Entries(grown) /\ NoRepeat(entities')
        BY <1>4, <3>1, <3>2, PromotedFacts
    <3>4. ntriggered' \in 0..k
        BY <1>1, <3>1, <3>2
    <3> QED  BY <1>4, <3>3, <3>4
  <2>2. CASE ~(m_trigger[r] # 0)
    <3>1. entities' = grown /\ ntriggered' \in 0..k
        BY <1>1, <1>2, <1>3, <2>2
    <3> QED  BY <1>4, <3>1
  <2> QED  BY <2>1, <2>2
<1>6. SetUp'
    BY <1>1, <1>2 DEF IInv, SetUp, Setting, Linked, rdVars
<1>7. Held'
    BY <1>2, <1>5 DEF Held, Entered, FirstOf
<1>8. TypeOK'
  <2>1. obsLock' \in [Readers -> Deliverers \cup {App, Nobody}]
      BY <1>2 DEF IInv, TypeOK
  <2> QED  BY <1>2, <1>5, <2>1 DEF IInv, TypeOK, rdVars
<1> QED  BY <1>1, <1>2, <1>6, <1>7, <1>8
         DEF IInv, Triggers, Noticed, Looking, Returned, NoEmptyTake, NoRepeat, rdVars

LEMMA LinkKeeps == ASSUME IInv, Link PROVE IInv'
<1> DEFINE r == Order[k]
<1>1. /\ app = "link" /\ k \in 1..N /\ r \in Readers
      /\ FirstOf(k) = FirstOf(k - 1) \cup {r}
      /\ N \in Nat /\ N >= 1 /\ Len(Order) = N /\ FirstOf(N) = Readers
    BY OrderFacts, FirstOfNext DEF Link, IInv, SetUp, Setting
<1>2. /\ observed' = observed \cup {r}
      /\ obsLock' = [obsLock EXCEPT ![r] = Nobody]
      /\ IF k < N THEN k' = k + 1 /\ app' = "attach" ELSE k' = 1 /\ app' = "wait"
      /\ UNCHANGED <<rdVars, rhcLock, wsVars, triggered, del>>
    BY <1>1 DEF Link
<1> HIDE DEF r
<1>3. observed' = FirstOf(k) /\ conds' = Readers
    BY <1>1, <1>2 DEF IInv, SetUp, Linked, rdVars
<1>4. SetUp'
  <2>1. CASE k < N
      BY <1>1, <1>2, <1>3, <2>1 DEF SetUp, Setting, Linked
  <2>2. CASE ~(k < N)
      BY <1>1, <1>2, <1>3, <2>2 DEF SetUp, Setting, Linked
  <2> QED  BY <2>1, <2>2
<1>5. Held'
  <2>1. Entered' = k /\ Entered = k
      BY <1>1, <1>2 DEF Entered
  <2> QED  BY <1>2, <2>1 DEF IInv, Held, Entries, NoRepeat, FirstOf, wsVars
<1>6. TypeOK'
  <2>1. k' \in 1..N+1 /\ app' \in {"attach", "wait"}
      BY <1>1, <1>2
  <2>2. obsLock' \in [Readers -> Deliverers \cup {App, Nobody}]
      BY <1>2 DEF IInv, TypeOK
  <2>3. observed' \in SUBSET conds'
      BY <1>1, <1>2, <1>3 DEF IInv, TypeOK, rdVars
  <2> QED  BY <1>2, <2>1, <2>2, <2>3 DEF IInv, TypeOK, N, rdVars, wsVars
<1>7. app' \in {"attach", "wait"}
    BY <1>2
<1> QED  BY <1>1, <1>2, <1>4, <1>5, <1>6, <1>7
         DEF IInv, Triggers, Noticed, Looking, Returned, NoEmptyTake, NoRepeat, rdVars

LEMMA BeginKeeps == ASSUME IInv, BeginWait PROVE IInv'
<1>1. /\ app = "wait" /\ ntriggered' = 0 /\ k' = 1 /\ app' = "scan"
      /\ UNCHANGED <<rdVars, observed, rhcLock, obsLock, entities, triggered, del>>
    BY DEF BeginWait
<1>2. N \in Nat /\ N >= 1 /\ Len(entities) \in Nat
    BY OrderFacts DEF IInv, TypeOK
<1>3. TypeOK'
  <2>1. k' \in 1..N+1 /\ ntriggered' \in 0..Len(entities)
      BY <1>1, <1>2
  <2> QED  BY <1>1, <2>1 DEF IInv, TypeOK, N, rdVars
<1>4. SetUp' /\ Held'
    BY <1>1 DEF IInv, SetUp, Held, Setting, Linked, Entered, Entries, NoRepeat, FirstOf, rdVars
<1>5. Noticed'
  <2>1. Passed' = 0
      BY <1>1 DEF Passed
  <2> QED  BY <1>1, <1>2, <2>1 DEF Noticed
<1> QED  BY <1>1, <1>3, <1>4, <1>5
         DEF IInv, Triggers, Returned, NoEmptyTake, NoRepeat, rdVars

\* The entry the scan looks at joins the prefix if its reader has something;
\* what gives way for it has been seen with nothing.
LEMMA ScanKeeps == ASSUME IInv, Scan PROVE IInv'
<1> DEFINE r == entities[k]
<1>1. /\ app = "scan" /\ app' = "scan" /\ k' = k + 1
      /\ IF m_trigger[r] # 0
           THEN /\ entities' = Promoted(entities, k, ntriggered)
                /\ ntriggered' = ntriggered + 1
           ELSE UNCHANGED <<entities, ntriggered>>
      /\ UNCHANGED <<rdVars, observed, rhcLock, obsLock, triggered, del>>
    BY DEF Scan, wsVars
<1>2. /\ entities \in Seq(Readers) /\ Len(entities) \in Nat /\ DOMAIN entities = 1..Len(entities)
      /\ \A i \in 1..Len(entities) : entities[i] \in Readers
      /\ k \in 1..Len(entities) /\ r \in Readers
      /\ NoRepeat(entities) /\ Len(entities) = N
      /\ ntriggered \in 0..Len(entities) /\ ntriggered <= k - 1
      /\ \A i \in 1..ntriggered : has[entities[i]]
      /\ \A i \in ntriggered+1..k-1 : has[entities[i]] => rhcLock[entities[i]] # Nobody
    BY <1>1 DEF Scan, IInv, TypeOK, Held, Entered, Noticed, Looking, Passed
<1>3. m_trigger[r] # 0 <=> has[r]
    BY <1>1, <1>2 DEF IInv, SetUp, Triggers
<1> HIDE DEF r
<1>4. /\ entities' \in Seq(Readers) /\ Len(entities') = Len(entities)
      /\ Entries(entities') = Entries(entities) /\ NoRepeat(entities')
      /\ ntriggered' \in 0..k
      /\ \A i \in 1..ntriggered' : has[entities'[i]]
      /\ \A i \in ntriggered'+1..k : has[entities'[i]] => rhcLock[entities'[i]] # Nobody
  <2>1. CASE m_trigger[r] # 0
    <3>1. ntriggered \in 0..k-1 /\ ntriggered' = ntriggered + 1
        BY <1>1, <1>2, <2>1
    <3>2. /\ entities' \in Seq(Readers) /\ Len(entities') = Len(entities)
          /\ Entries(entities') = Entries(entities) /\ NoRepeat(entities')
          /\ entities'[ntriggered + 1] = r
          /\ \A i \in 1..ntriggered : entities'[i] = entities[i]
          /\ \A i \in ntriggered+2..Len(entities) :
               entities'[i] = IF i = k THEN entities[ntriggered + 1] ELSE entities[i]
        BY <1>1, <1>2, <2>1, <3>1, PromotedFacts DEF r
    <3>3. ASSUME NEW i \in 1..ntriggered+1 PROVE has[entities'[i]]
        BY <1>2, <1>3, <2>1, <3>1, <3>2
    <3>4. ASSUME NEW i \in ntriggered+2..k, has[entities'[i]]
          PROVE  rhcLock[entities'[i]] # Nobody
      <4>1. i \in ntriggered+2..Len(entities)
          BY <1>2, <3>1
      <4>2. CASE i = k
        <5>1. entities'[i] = entities[ntriggered + 1] /\ ntriggered + 1 \in ntriggered+1..k-1
            BY <1>2, <3>1, <3>2, <4>1, <4>2
        <5> QED  BY <1>2, <3>4, <5>1
      <4>3. CASE i # k
        <5>1. entities'[i] = entities[i] /\ i \in ntriggered+1..k-1
            BY <1>2, <3>1, <3>2, <4>1, <4>3
        <5> QED  BY <1>2, <3>4, <5>1
      <4> QED  BY <4>2, <4>3
    <3>5. ntriggered' \in 0..k /\ ntriggered' + 1 = ntriggered + 2
        BY <1>2, <3>1
    <3> QED  BY <3>1, <3>2, <3>3, <3>4, <3>5
  <2>2. CASE ~(m_trigger[r] # 0)
    <3>1. UNCHANGED <<entities, ntriggered>> /\ ~has[r]
        BY <1>1, <1>3, <2>2
    <3>2. ASSUME NEW i \in ntriggered+1..k, has[entities[i]]
          PROVE  rhcLock[entities[i]] # Nobody
      <4>1. i # k
          BY <3>1, <3>2 DEF r
      <4>2. i \in ntriggered+1..k-1
          BY <1>2, <4>1
      <4> QED  BY <1>2, <3>2, <4>2
    <3>3. ntriggered \in 0..k
        BY <1>2
    <3> QED  BY <1>2, <3>1, <3>2, <3>3
  <2> QED  BY <2>1, <2>2
<1>5. ntriggered' \in 0..Len(entities') /\ k' \in 1..N+1
  <2>1. ntriggered' \in Int /\ ntriggered' <= k
      BY <1>2, <1>4
  <2> QED  BY <1>1, <1>2, <1>4, <2>1
<1>6. TypeOK'
    BY <1>1, <1>4, <1>5 DEF IInv, TypeOK, N, rdVars
<1>7. SetUp' /\ Held'
    BY <1>1, <1>4 DEF IInv, SetUp, Held, Setting, Linked, Entered, FirstOf, rdVars
<1>8. Noticed'
  <2>1. Passed' = k
      BY <1>1, <1>2 DEF Passed
  <2>2. ntriggered' <= k /\ k <= Len(entities')
      BY <1>2, <1>4
  <2> QED  BY <1>1, <1>4, <2>1, <2>2 DEF Noticed, rdVars
<1> QED  BY <1>1, <1>6, <1>7, <1>8
         DEF IInv, Triggers, Returned, NoEmptyTake, NoRepeat, rdVars

LEMMA BlockKeeps == ASSUME IInv, BlockOrReturn PROVE IInv'
<1>1. /\ app \in {"scan", "woken"}
      /\ app = "scan" => k = Len(entities) + 1
      /\ IF ntriggered = 0 THEN app' = "blocked" /\ UNCHANGED triggered
         ELSE app' = "take" /\ triggered' = SubSeq(entities, 1, ntriggered)
      /\ UNCHANGED <<rdVars, observed, rhcLock, obsLock, wsVars, k, del>>
    BY DEF BlockOrReturn
<1>2. /\ entities \in Seq(Readers) /\ Len(entities) \in Nat /\ DOMAIN entities = 1..Len(entities)
      /\ NoRepeat(entities)
      /\ ntriggered \in 0..Len(entities)
      /\ Passed = Len(entities)
      /\ \A i \in 1..ntriggered : has[entities[i]]
      /\ triggered = <<>>
  <2>1. /\ entities \in Seq(Readers) /\ Len(entities) \in Nat
        /\ DOMAIN entities = 1..Len(entities) /\ ntriggered \in 0..Len(entities)
      BY DEF IInv, TypeOK
  <2>2. Looking /\ Passed = Len(entities)
      BY <1>1, <2>1 DEF Looking, Passed
  <2>3. triggered = <<>> /\ NoRepeat(entities)
      BY <1>1 DEF IInv, Returned, Held
  <2> QED  BY <2>1, <2>2, <2>3 DEF IInv, Noticed
<1>3. /\ triggered' \in Seq(Readers)
      /\ app' = "take" <=> triggered' # <<>>
      /\ \A i \in DOMAIN triggered' : has[triggered'[i]]
      /\ NoRepeat(triggered')
  <2>1. CASE ntriggered = 0
      BY <1>1, <1>2, <2>1 DEF NoRepeat
  <2>2. CASE ntriggered # 0
    <3>1. /\ ntriggered \in 1..Len(entities)
          /\ app' = "take" /\ triggered' = SubSeq(entities, 1, ntriggered)
        BY <1>1, <1>2, <2>2
    <3>2. /\ triggered' \in Seq(Readers) /\ Len(triggered') = ntriggered
          /\ DOMAIN triggered' = 1..ntriggered
          /\ \A i \in 1..ntriggered : triggered'[i] = entities[i]
        BY <1>2, <3>1
    <3>3. triggered' # <<>>
        BY <3>1, <3>2
    <3>4. NoRepeat(triggered')
        BY <1>2, <3>1, <3>2 DEF NoRepeat
    <3> QED  BY <1>2, <3>1, <3>2, <3>3, <3>4
  <2> QED  BY <2>1, <2>2
<1>4. TypeOK'
    BY <1>1, <1>3 DEF IInv, TypeOK, rdVars, wsVars
<1>5. app' \in {"blocked", "take"}
    BY <1>1
<1>6. SetUp' /\ Held'
  <2>1. SetUp'
      BY <1>1, <1>5 DEF IInv, SetUp, Setting, Linked, rdVars
  <2>2. Held'
      BY <1>1, <1>5 DEF IInv, Held, Entered, Entries, NoRepeat, FirstOf, wsVars
  <2> QED  BY <2>1, <2>2
<1>7. Noticed'
  <2>1. Looking' => ntriggered = 0 /\ Passed' = Len(entities)
      BY <1>1 DEF Looking, Passed, wsVars
  <2>2. ntriggered <= Len(entities)
      BY <1>2
  <2> QED  BY <1>1, <1>2, <2>1, <2>2 DEF IInv, Noticed, Looking, rdVars, wsVars
<1>8. Returned'
    BY <1>1, <1>3 DEF Returned, NoEmptyTake, rdVars
<1> QED  BY <1>1, <1>4, <1>6, <1>7, <1>8 DEF IInv, Triggers, rdVars

LEMMA SpuriousKeeps == ASSUME IInv, SpuriousWakeup PROVE IInv'
<1>1. /\ app = "blocked" /\ app' = "woken"
      /\ UNCHANGED <<rdVars, observed, rhcLock, obsLock, wsVars, k, triggered, del>>
    BY DEF SpuriousWakeup
<1>2. TypeOK'
    BY <1>1 DEF IInv, TypeOK, rdVars, wsVars
<1>3. SetUp'
    BY <1>1 DEF IInv, SetUp, Setting, Linked, rdVars
<1>4. Held'
    BY <1>1 DEF IInv, Held, Entered, Entries, NoRepeat, FirstOf, wsVars
<1>5. Triggers' /\ Returned'
    BY <1>1 DEF IInv, Triggers, Returned, NoEmptyTake, NoRepeat, rdVars
<1>6. Noticed'
    BY <1>1 DEF IInv, Noticed, Looking, Passed, rdVars, wsVars
<1> QED  BY <1>2, <1>3, <1>4, <1>5, <1>6 DEF IInv

\* Only the reader that is taken from loses what it has.
LEMMA TakeKeeps == ASSUME IInv, Take PROVE IInv'
<1> DEFINE r == Head(triggered)
<1>1. /\ app = "take" /\ rhcLock[r] = Nobody
      /\ has' = [has EXCEPT ![r] = FALSE]
      /\ m_trigger' = [m_trigger EXCEPT ![r] = IF has[r] THEN @ - 1 ELSE @]
      /\ triggered' = Tail(triggered)
      /\ app' = IF Len(triggered) = 1 THEN "wait" ELSE "take"
      /\ UNCHANGED <<conds, observed, rhcLock, obsLock, wsVars, k, del>>
    BY DEF Take
<1>2. /\ triggered \in Seq(Readers) /\ triggered # <<>>
      /\ \A i \in DOMAIN triggered : has[triggered[i]]
      /\ NoRepeat(triggered)
    BY <1>1 DEF IInv, TypeOK, Returned, NoEmptyTake
<1>3. /\ Len(triggered) \in Nat /\ Len(triggered) >= 1 /\ DOMAIN triggered = 1..Len(triggered)
      /\ r = triggered[1] /\ r \in Readers
      /\ triggered' \in Seq(Readers) /\ Len(triggered') = Len(triggered) - 1
      /\ DOMAIN triggered' = 1..Len(triggered)-1
      /\ \A i \in 1..Len(triggered)-1 : triggered'[i] = triggered[i + 1]
      /\ triggered' = <<>> <=> Len(triggered) = 1
  <2>1. /\ Len(triggered) \in Nat /\ Len(triggered) >= 1
        /\ DOMAIN triggered = 1..Len(triggered)
        /\ r = triggered[1] /\ r \in Readers
      BY <1>2
  <2>2. /\ triggered' \in Seq(Readers) /\ Len(triggered') = Len(triggered) - 1
        /\ DOMAIN triggered' = 1..Len(triggered)-1
        /\ \A i \in 1..Len(triggered)-1 : triggered'[i] = triggered[i + 1]
      BY <1>1, <1>2, <2>1
  <2>3. triggered' = <<>> <=> Len(triggered') = 0
      BY <2>2
  <2> QED  BY <2>1, <2>2, <2>3
<1>4. has[r]
    BY <1>2, <1>3
<1> HIDE DEF r
<1>5. /\ has' \in [Readers -> BOOLEAN] /\ m_trigger' \in [Readers -> {0, 1}]
      /\ Triggers'
    BY <1>1, <1>3, <1>4 DEF IInv, TypeOK, SetUp, Setting, Triggers
<1>6. TypeOK'
    BY <1>1, <1>3, <1>5 DEF IInv, TypeOK, wsVars
<1>7. SetUp' /\ Held'
    BY <1>1 DEF IInv, SetUp, Held, Setting, Linked, Entered, Entries, NoRepeat, FirstOf, wsVars
<1>8. Returned'
  <2>1. ASSUME NEW i \in 1..Len(triggered)-1
        PROVE  has'[triggered'[i]]
    <3>1. /\ i + 1 \in 1..Len(triggered) /\ i + 1 # 1 /\ 1 \in 1..Len(triggered)
          /\ triggered'[i] = triggered[i + 1]
        BY <1>3
    <3>2. triggered[i + 1] # r /\ has[triggered[i + 1]] /\ triggered[i + 1] \in Readers
        BY <1>2, <1>3, <3>1 DEF NoRepeat
    <3> QED  BY <1>1, <3>1, <3>2 DEF IInv, TypeOK
  <2>2. NoRepeat(triggered')
    <3> SUFFICES ASSUME NEW i \in 1..Len(triggered)-1, NEW j \in 1..Len(triggered)-1,
                        triggered'[i] = triggered'[j]
                 PROVE  i = j
        BY <1>3 DEF NoRepeat
    <3>1. /\ i + 1 \in 1..Len(triggered) /\ j + 1 \in 1..Len(triggered)
          /\ triggered[i + 1] = triggered[j + 1]
        BY <1>3
    <3>2. i + 1 = j + 1
        BY <1>2, <1>3, <3>1 DEF NoRepeat
    <3> QED  BY <1>3, <3>2
  <2>3. app' = "take" <=> triggered' # <<>>
      BY <1>1, <1>3
  <2> QED  BY <1>3, <2>1, <2>2, <2>3 DEF Returned, NoEmptyTake
<1> QED  BY <1>1, <1>5, <1>6, <1>7, <1>8 DEF IInv, Noticed, Looking

--------------------------------------------------------------------------------
(* The theorems.                                                             *)

LEMMA InvInit == Init => IInv
<1> SUFFICES ASSUME Init PROVE IInv
    OBVIOUS
<1>1. N \in Nat /\ N >= 1 /\ FirstOf(0) = {}
    BY OrderFacts
<1>2. TypeOK
    BY <1>1 DEF Init, TypeOK, N
<1>3. SetUp /\ Held
    BY <1>1 DEF Init, SetUp, Held, Setting, Linked, Entered, Entries, NoRepeat
<1> QED  BY <1>2, <1>3
         DEF Init, IInv, Triggers, Noticed, Looking, Returned, NoEmptyTake, NoRepeat

LEMMA InvNext == IInv /\ [Next]_vars => IInv'
<1> SUFFICES ASSUME IInv, [Next]_vars PROVE IInv'
    OBVIOUS
<1>1. CASE UNCHANGED vars
  <2>1. UNCHANGED <<rdVars, observed, rhcLock, obsLock, wsVars, appVars, del>>
      BY <1>1 DEF vars
  <2>2. TypeOK'
      BY <2>1 DEF IInv, TypeOK, rdVars, wsVars, appVars
  <2>3. SetUp' /\ Held'
      BY <2>1 DEF IInv, SetUp, Held, Setting, Linked, Entered, Entries, NoRepeat, FirstOf,
                  rdVars, wsVars, appVars
  <2>4. Triggers' /\ Returned'
      BY <2>1 DEF IInv, Triggers, Returned, NoEmptyTake, NoRepeat, rdVars, appVars
  <2>5. Noticed'
      BY <2>1 DEF IInv, Noticed, Looking, Passed, rdVars, wsVars, appVars
  <2> QED  BY <2>2, <2>3, <2>4, <2>5 DEF IInv
<1>2. CASE Next
    BY <1>2, DeliverKeeps, SignalKeeps, NotifyKeeps, CreateKeeps, AttachKeeps, LinkKeeps,
       BeginKeeps, ScanKeeps, BlockKeeps, SpuriousKeeps, TakeKeeps
       DEF Next, DelivererStep, AppStep
<1> QED  BY <1>1, <1>2

LEMMA Inductive == Spec => []IInv
BY InvInit, InvNext, PTL DEF Spec

\* The variables keep their types; in particular the triggered prefix never
\* runs past the entities (dds_waitset.c:68-77, 229-241, 252-262).
THEOREM WaitSetTypeOK == Spec => []TypeOK
<1>1. IInv => TypeOK
    BY DEF IInv
<1> QED  BY <1>1, Inductive, PTL

\* The waitset holds each attached condition exactly once, however often
\* entries are swapped by attach, observer and scan.
THEOREM HeldOnce == Spec => []AttachedOnce
<1>1. IInv => AttachedOnce
  <2> SUFFICES ASSUME IInv PROVE AttachedOnce
      OBVIOUS
  <2> DEFINE S == observed \cup (IF app = "link" THEN {Order[k]} ELSE {})
  <2>1. Entries(entities) = S
    <3>1. CASE app = "link"
      <4>1. k \in 1..N
          BY <3>1 DEF IInv, SetUp, Setting
      <4> QED  BY <3>1, <4>1, FirstOfNext DEF IInv, SetUp, Held, Linked, Entered
    <3>2. CASE app # "link"
      <4>1. Linked = Entered
          BY <3>2 DEF IInv, TypeOK, Linked, Entered
      <4> QED  BY <3>2, <4>1 DEF IInv, SetUp, Held
    <3> QED  BY <3>1, <3>2
  <2> HIDE DEF S
  <2>2. Len(entities) \in Nat /\ DOMAIN entities = 1..Len(entities)
      BY DEF IInv, TypeOK
  <2>3. entities \in Bijection(1..Len(entities), S)
    <3>1. entities \in [1..Len(entities) -> S]
        BY <2>1, <2>2 DEF IInv, TypeOK, Entries
    <3>2. \A x \in S : \E i \in 1..Len(entities) : entities[i] = x
        BY <2>1, <2>2 DEF Entries
    <3> QED  BY <2>2, <3>1, <3>2
             DEF IInv, Held, NoRepeat, Bijection, Injection, Surjection, IsInjective
  <2>4. Cardinality(S) = Len(entities)
    <3>1. ExistsBijection(1..Len(entities), S)
        BY <2>3 DEF ExistsBijection
    <3>2. \A n \in Nat : IsFiniteSet(1..n) /\ Cardinality(1..n) = n
        BY FS_Interval
    <3> QED  BY <2>2, <3>1, <3>2, FS_Bijection
  <2> QED  BY <2>1, <2>4 DEF AttachedOnce, Entries, S
<1> QED  BY <1>1, Inductive, PTL

\* A program that dds_waitset_wait returns to finds something in every reader
\* it was given.
THEOREM TakesSomething == Spec => []NoEmptyTake
<1>1. IInv => NoEmptyTake
    BY DEF IInv, Returned
<1> QED  BY <1>1, Inductive, PTL

\* A program asleep while one of its readers holds something is about to be
\* signalled: the delivering thread still has that reader's lock.
THEOREM WakeupsAreNotLost == Spec => []NoLostWakeup
<1>1. IInv => NoLostWakeup
  <2> SUFFICES ASSUME IInv, app = "blocked", NEW r \in Readers, has[r]
               PROVE  rhcLock[r] # Nobody
      BY DEF NoLostWakeup
  <2>1. /\ ntriggered = 0
        /\ \A i \in 1..Len(entities) : has[entities[i]] => rhcLock[entities[i]] # Nobody
      BY DEF IInv, Noticed, Looking, Passed
  <2>2. r \in Entries(entities)
      BY OrderFacts DEF IInv, Held, Entered
  <2>3. \E i \in 1..Len(entities) : entities[i] = r
      BY <2>2 DEF IInv, TypeOK, Entries
  <2> QED  BY <2>1, <2>3
<1> QED  BY <1>1, Inductive, PTL

\* Nothing but a delivery fills a reader and nothing but a take of something
\* empties it: the steps of TakeLoop.  (That the take comes is left to TLC.)
THEOREM TakesWhatArrived == Spec => TL!Init /\ [][TL!Next]_has
<1>1. Init => TL!Init
    BY DEF Init, TL!Init
<1>2. IInv /\ [Next]_vars => [TL!Next]_has
  <2> SUFFICES ASSUME IInv, [Next]_vars, has' # has PROVE TL!Next
      OBVIOUS
  <2>1. ASSUME NEW d \in Deliverers, NEW r \in Readers, Deliver(d, r)
        PROVE  TL!Next
      BY <2>1 DEF Deliver, TL!Next, TL!Arrive
  <2>2. CASE Take
    <3>1. Head(triggered) \in Readers /\ has[Head(triggered)]
      <4>1. triggered \in Seq(Readers) /\ triggered # <<>>
          BY <2>2 DEF Take, IInv, TypeOK, Returned
      <4>2. Head(triggered) = triggered[1] /\ 1 \in DOMAIN triggered /\ triggered[1] \in Readers
          BY <4>1
      <4> QED  BY <4>2 DEF IInv, Returned, NoEmptyTake
    <3> QED  BY <2>2, <3>1 DEF Take, TL!Next, TL!Take
  <2> QED  BY <2>1, <2>2
           DEF Next, vars, DelivererStep, AppStep, Signal, Notify, CreateCondition, Attach,
               Link, BeginWait, Scan, BlockOrReturn, SpuriousWakeup, rdVars
<1> QED  BY <1>1, <1>2, Inductive, PTL DEF Spec
================================================================================
