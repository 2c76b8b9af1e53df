-------------------------------- MODULE WaitSet --------------------------------
(***************************************************************************)
(* A program that waits for its readers with one waitset and one read        *)
(* condition per reader (pong.cpp: two; baz.cpp, hoge.cpp: one), and the      *)
(* threads of CycloneDDS that deliver into these readers and signal it.       *)
(*                                                                           *)
(* Three kinds of locks, always taken in this order: the reader's rhc->lock,  *)
(* the condition's m_observers_lock, the waitset's wait_lock.  A critical     *)
(* section is one action unless another thread can see into the middle of    *)
(* it; m_trigger is an atomic that is read without the lock it is written     *)
(* under.  What a reader holds is reduced to "something" (has): ReaderCache   *)
(* has the detail and shows that m_trigger follows it.                       *)
(***************************************************************************)
EXTENDS Integers, Sequences, FiniteSets

CONSTANTS
    Readers,      \* the program's readers, each with its read condition
    Order,        \* the sequence in which conditions are created and attached
    Deliverers,   \* threads of CycloneDDS: receive threads, lease expiry
    App,          \* the program's thread, as owner of a lock
    Nobody        \* owner of a lock that is free

ASSUME ThreadsAssumption ==
    /\ App \notin Deliverers
    /\ Nobody \notin Deliverers \cup {App}

ASSUME OrderAssumption ==
    /\ Order \in [1..Cardinality(Readers) -> Readers]
    /\ IsFiniteSet(Readers) /\ Readers # {}
    /\ \A r \in Readers : \E k \in DOMAIN Order : Order[k] = r

VARIABLES
    has,          \* the reader's cache is not empty
    m_trigger,    \* m_trigger of the reader's condition
    conds,        \* readers whose condition is in rhc->conds
    observed,     \* readers whose condition has the waitset in m_observers
    rhcLock,      \* owner of rhc->lock, across steps
    obsLock,      \* owner of m_observers_lock, across steps
    entities,     \* ws->entities
    ntriggered,   \* ws->ntriggered: the length of the triggered prefix
    app,          \* what the program's thread does next
    k,            \* position in Order while setting up, in entities in a scan
    triggered,    \* what dds_waitset_wait returned and is still to be taken
    del           \* what each delivering thread does next

rdVars  == <<has, m_trigger, conds>>
wsVars  == <<entities, ntriggered>>
appVars == <<app, k, triggered>>
vars    == <<rdVars, observed, rhcLock, obsLock, wsVars, appVars, del>>

Init ==
    /\ has = [r \in Readers |-> FALSE]
    /\ m_trigger = [r \in Readers |-> 0]
    /\ conds = {}
    /\ observed = {}
    /\ rhcLock = [r \in Readers |-> Nobody]
    /\ obsLock = [r \in Readers |-> Nobody]
    /\ entities = <<>>
    /\ ntriggered = 0
    /\ app = "create"
    /\ k = 1
    /\ triggered = <<>>
    /\ del = [d \in Deliverers |-> "idle"]

\* wait_lock: only the program's thread keeps it across steps, in a scan.
WaitLockFree == app # "scan"

\* Slip: the entry that gives way is lost.
PromotedOver(s, i, n) == [s EXCEPT ![n + 1] = s[i]]

\* s with its i-th entry moved to the end of the triggered prefix of length n.
Promoted(s, i, n) == [s EXCEPT ![i] = s[n + 1], ![n + 1] = s[i]]

--------------------------------------------------------------------------------
(* Delivery: a sample, or the notice that the last writer died.              *)

\* dds_rhc_default_store / unregister_wr up to the signal: a condition that
\* starts to match is counted, and the thread keeps rhc->lock to signal it.
Deliver(d, r) ==
    LET counts == r \in conds /\ ~has[r]
    IN  /\ del[d] = "idle"
        /\ rhcLock[r] = Nobody
        /\ has' = [has EXCEPT ![r] = TRUE]
        /\ m_trigger' = IF counts THEN [m_trigger EXCEPT ![r] = @ + 1] ELSE m_trigger
        /\ IF counts /\ m_trigger[r] = 0
             THEN /\ rhcLock' = [rhcLock EXCEPT ![r] = d]
                  /\ del' = [del EXCEPT ![d] = "signal"]
             ELSE UNCHANGED <<rhcLock, del>>
        /\ UNCHANGED <<conds, observed, obsLock, wsVars, appVars>>

\* dds_entity_status_signal: the observers are locked against attach.
Signal(d, r) ==
    /\ del[d] = "signal" /\ rhcLock[r] = d
    /\ obsLock[r] = Nobody
    /\ obsLock' = [obsLock EXCEPT ![r] = d]
    /\ del' = [del EXCEPT ![d] = "notify"]
    /\ UNCHANGED <<rdVars, observed, rhcLock, wsVars, appVars>>

\* Slip: the waiting thread is not woken.
ObserverQuiet(r) ==
    LET i == CHOOSE j \in DOMAIN entities : entities[j] = r
    IN  /\ WaitLockFree
        /\ IF i > ntriggered
             THEN /\ entities' = Promoted(entities, i, ntriggered)
                  /\ ntriggered' = ntriggered + 1
             ELSE UNCHANGED wsVars
        /\ UNCHANGED app

\* Slip: the waiting thread is woken but the entity stays where it is.
ObserverUnmoved(r) ==
    /\ WaitLockFree
    /\ app' = IF app = "blocked" THEN "woken" ELSE app
    /\ UNCHANGED wsVars

\* Slip: an entity already in the triggered prefix is moved again.
ObserverAgain(r) ==
    LET i == CHOOSE j \in DOMAIN entities : entities[j] = r
    IN  /\ WaitLockFree
        /\ entities' = IF ntriggered < Len(entities)
                         THEN Promoted(entities, i, ntriggered) ELSE entities
        /\ ntriggered' = ntriggered + 1
        /\ app' = IF app = "blocked" THEN "woken" ELSE app

\* dds_waitset_observer: the entity joins the triggered prefix unless it is
\* there already, and the waiting thread, if it waits, is woken.
Observer(r) ==
    LET i == CHOOSE j \in DOMAIN entities : entities[j] = r
    IN  /\ WaitLockFree
        /\ IF i > ntriggered
             THEN /\ entities' = Promoted(entities, i, ntriggered)
                  /\ ntriggered' = ntriggered + 1
             ELSE UNCHANGED wsVars
        /\ app' = IF app = "blocked" THEN "woken" ELSE app

\* dds_entity_observers_signal, then both locks are released.
Notify(d, r) ==
    /\ del[d] = "notify" /\ rhcLock[r] = d
    /\ IF r \in observed THEN Observer(r) ELSE UNCHANGED <<wsVars, app>>
    /\ obsLock' = [obsLock EXCEPT ![r] = Nobody]
    /\ rhcLock' = [rhcLock EXCEPT ![r] = Nobody]
    /\ del' = [del EXCEPT ![d] = "idle"]
    /\ UNCHANGED <<rdVars, observed, k, triggered>>

--------------------------------------------------------------------------------
(* The program's thread: set-up.                                             *)

\* The position after k, or on to the next phase when Order is used up.
Advance(next) ==
    IF k < Len(Order) THEN k' = k + 1 /\ app' = app ELSE k' = 1 /\ app' = next

\* dds_create_readcondition: data may have arrived since the reader exists.
\* (The signal it ends with finds no observer yet.)
CreateCondition ==
    LET r == Order[k]
    IN  /\ app = "create"
        /\ rhcLock[r] = Nobody
        /\ conds' = conds \cup {r}
        /\ m_trigger' = [m_trigger EXCEPT ![r] = IF has[r] THEN 1 ELSE 0]
        /\ Advance("attach")
        /\ UNCHANGED <<has, observed, rhcLock, obsLock, wsVars, triggered, del>>

\* dds_waitset_attach, first half: the condition enters the waitset, in the
\* triggered prefix if it is triggered.  Its observers stay locked.
Attach ==
    LET r     == Order[k]
        grown == Append(entities, r)
    IN  /\ app = "attach"
        /\ obsLock[r] = Nobody
        /\ obsLock' = [obsLock EXCEPT ![r] = App]
        /\ IF m_trigger[r] # 0
             THEN /\ entities' = Promoted(grown, Len(grown), ntriggered)
                  /\ ntriggered' = ntriggered + 1
             ELSE entities' = grown /\ UNCHANGED ntriggered
        /\ app' = "link"
        /\ UNCHANGED <<rdVars, observed, rhcLock, k, triggered, del>>

\* Second half: the waitset becomes an observer of the condition.
Link ==
    LET r == Order[k]
    IN  /\ app = "link"
        /\ observed' = observed \cup {r}
        /\ obsLock' = [obsLock EXCEPT ![r] = Nobody]
        /\ IF k < Len(Order) THEN k' = k + 1 /\ app' = "attach"
                             ELSE k' = 1 /\ app' = "wait"
        /\ UNCHANGED <<rdVars, rhcLock, wsVars, triggered, del>>

--------------------------------------------------------------------------------
(* The program's thread: dds_waitset_wait and the takes after it.            *)

\* wait_lock is taken and every entity counts as not triggered.
BeginWait ==
    /\ app = "wait"
    /\ ntriggered' = 0
    /\ k' = 1
    /\ app' = "scan"
    /\ UNCHANGED <<rdVars, observed, rhcLock, obsLock, entities, triggered, del>>

\* The scan looks at the next entity's trigger, which may change behind it.
Scan ==
    /\ app = "scan"
    /\ k \in DOMAIN entities
    /\ IF m_trigger[entities[k]] # 0
         THEN /\ entities' = Promoted(entities, k, ntriggered)
              /\ ntriggered' = ntriggered + 1
         ELSE UNCHANGED wsVars
    /\ k' = k + 1
    /\ UNCHANGED <<rdVars, observed, rhcLock, obsLock, app, triggered, del>>

\* ddsrt_cond_waituntil, or the return with the triggered prefix: the end of
\* the scan, and again whenever the thread has been woken.
BlockOrReturn ==
    /\ app = "woken" \/ (app = "scan" /\ k = Len(entities) + 1)
    /\ IF ntriggered = 0
         THEN app' = "blocked" /\ UNCHANGED triggered
         ELSE app' = "take" /\ triggered' = SubSeq(entities, 1, ntriggered)
    /\ UNCHANGED <<rdVars, observed, rhcLock, obsLock, wsVars, k, del>>

\* A condition variable may wake its waiter for no reason.
SpuriousWakeup ==
    /\ app = "blocked"
    /\ app' = "woken"
    /\ UNCHANGED <<rdVars, observed, rhcLock, obsLock, wsVars, k, triggered, del>>

\* Slip: the take empties the reader but leaves its condition triggered.
TakeTriggered ==
    LET r == Head(triggered)
    IN  /\ app = "take"
        /\ rhcLock[r] = Nobody
        /\ has' = [has EXCEPT ![r] = FALSE]
        /\ triggered' = Tail(triggered)
        /\ app' = IF Len(triggered) = 1 THEN "wait" ELSE "take"
        /\ UNCHANGED <<m_trigger, conds, observed, rhcLock, obsLock, wsVars, k, del>>

\* dds_take on the reader of the next returned condition takes all it holds.
Take ==
    LET r == Head(triggered)
    IN  /\ app = "take"
        /\ rhcLock[r] = Nobody
        /\ has' = [has EXCEPT ![r] = FALSE]
        /\ m_trigger' = [m_trigger EXCEPT ![r] = IF has[r] THEN @ - 1 ELSE @]
        /\ triggered' = Tail(triggered)
        /\ app' = IF Len(triggered) = 1 THEN "wait" ELSE "take"
        /\ UNCHANGED <<conds, observed, rhcLock, obsLock, wsVars, k, del>>

--------------------------------------------------------------------------------
AppStep == \/ CreateCondition \/ Attach \/ Link
           \/ BeginWait \/ Scan \/ BlockOrReturn \/ Take

DelivererStep(d) == \E r \in Readers : Signal(d, r) \/ Notify(d, r)

Next ==
    \/ \E d \in Deliverers, r \in Readers : Deliver(d, r)
    \/ \E d \in Deliverers : DelivererStep(d)
    \/ AppStep
    \/ SpuriousWakeup

\* Threads are scheduled.  An action that begins with a lock is enabled when
\* the lock is free, so weak fairness also says that a mutex is not kept from
\* a thread for ever by the short critical sections of the others.  Nothing
\* makes data arrive.
Fairness == WF_vars(AppStep) /\ \A d \in Deliverers : WF_vars(DelivererStep(d))

Spec == Init /\ [][Next]_vars /\ Fairness

--------------------------------------------------------------------------------
(* Properties.                                                               *)

\* Every variable has its type; the triggered prefix stays inside entities,
\* whose bounds dds_waitset_observer and the scan never check.
TypeOK ==
    /\ has \in [Readers -> BOOLEAN]
    /\ m_trigger \in [Readers -> {0, 1}]
    /\ conds \in SUBSET Readers
    /\ observed \in SUBSET conds
    /\ rhcLock \in [Readers -> Deliverers \cup {Nobody}]
    /\ obsLock \in [Readers -> Deliverers \cup {App, Nobody}]
    /\ entities \in Seq(Readers)
    /\ ntriggered \in 0..Len(entities)
    /\ app \in {"create", "attach", "link", "wait", "scan", "blocked", "woken", "take"}
    /\ k \in 1..Cardinality(Readers) + 1
    /\ triggered \in Seq(Readers)
    /\ del \in [Deliverers -> {"idle", "signal", "notify"}]

\* Swapping entries in and out of the triggered prefix never loses or
\* duplicates a condition: the waitset holds every attached one exactly once.
AttachedOnce ==
    LET linking == IF app = "link" THEN {Order[k]} ELSE {}
    IN  /\ {entities[i] : i \in DOMAIN entities} = observed \cup linking
        /\ Len(entities) = Cardinality(observed \cup linking)

\* The program is not woken for nothing: when dds_waitset_wait has returned a
\* condition, the take it is followed by finds something (the signal is given
\* under rhc->lock, and only the program takes).
NoEmptyTake == \A i \in DOMAIN triggered : has[triggered[i]]

\* No lost wake-up: a program asleep in the waitset while a reader holds
\* something is about to be signalled, whatever the order in which delivery,
\* attach, scan and take ran.
NoLostWakeup ==
    app = "blocked" => \A r \in Readers : has[r] => rhcLock[r] # Nobody

\* The loop around the waitset takes whatever arrives, eventually.
TL == INSTANCE TakeLoop
Implements == TL!Spec
================================================================================
