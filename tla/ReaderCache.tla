------------------------------ MODULE ReaderCache ------------------------------
(***************************************************************************)
(* The reader history cache of CycloneDDS (dds_rhc_default.c) as the        *)
(* programs of this repository use it: keyless topics, hence one instance;  *)
(* BY_RECEPTION, SHARED ownership, KEEP_LAST; writers that write and may    *)
(* die but never dispose or unregister; readers that take and never read.   *)
(* Every operation runs under rhc->lock, so each is one action.             *)
(***************************************************************************)
EXTENDS Integers, Sequences, FiniteSets

CONSTANTS
    Writers,      \* writers of the topic: wr_iid values
    NoWriter,     \* wr_iid of an instance that does not exist
    Values,       \* payloads
    Depth,        \* rhc->history_depth
    MaxSamples,   \* max_samples of dds_take, kMaxSamples of the programs
    AutoDispose   \* the writers' autodispose_unregistered_instances

ASSUME ConstantsAssumption ==
    /\ NoWriter \notin Writers
    /\ Depth \in Nat \ {0}
    /\ MaxSamples \in Nat \ {0}
    /\ AutoDispose \in BOOLEAN

VARIABLES
    present,      \* the instance is in rhc->instances
    samples,      \* inst->latest: the circular list, oldest sample first
    inv_exists,   \* inst->inv_exists: an invalid sample is to be returned
    isnew,        \* inst->isnew: view state
    isdisposed,   \* inst->isdisposed
    wrcount,      \* inst->wrcount: number of live writers
    wr_iid,       \* inst->wr_iid: writer of the latest sample
    wr_iid_islive,\* inst->wr_iid_islive: wr_iid is a registered writer
    registrations,\* rhc->registrations: explicit registrations of writers
    n_instances,             \* counters of struct dds_rhc_default, each kept
    n_nonempty_instances,    \* up to date step by step
    n_not_alive_disposed,
    n_not_alive_no_writers,
    n_new,
    n_vsamples,
    n_invsamples,
    cond,         \* a read condition with DDS_ANY_STATE has been created
    m_trigger     \* its m_trigger: the number of instances that match it

instVars == <<present, samples, inv_exists, isnew, isdisposed>>
wrVars   == <<wrcount, wr_iid, wr_iid_islive, registrations>>
condVars == <<cond, m_trigger>>
counters == <<n_instances, n_nonempty_instances, n_not_alive_disposed,
              n_not_alive_no_writers, n_new, n_vsamples, n_invsamples>>
vars     == <<instVars, wrVars, counters, condVars>>

Count(b) == IF b THEN 1 ELSE 0

Empty == samples = <<>> /\ ~inv_exists

Init ==
    /\ present = FALSE
    /\ samples = <<>>
    /\ inv_exists = FALSE
    /\ isnew = FALSE
    /\ isdisposed = FALSE
    /\ wrcount = 0
    /\ wr_iid = NoWriter
    /\ wr_iid_islive = FALSE
    /\ registrations = {}
    /\ n_instances = 0
    /\ n_nonempty_instances = 0
    /\ n_not_alive_disposed = 0
    /\ n_not_alive_no_writers = 0
    /\ n_new = 0
    /\ n_vsamples = 0
    /\ n_invsamples = 0
    /\ cond = FALSE
    /\ m_trigger = 0

--------------------------------------------------------------------------------
(* Writers: the writer of the latest sample is cached in the instance, and   *)
(* the table is consulted only when the cache cannot answer.                 *)

\* The writer of the latest sample writes again.
RegisterCached(w) ==
    /\ wr_iid_islive /\ wr_iid = w
    /\ UNCHANGED wrVars

\* The instance has no writers: the new one lives in the cache only.
RegisterFirst(w) ==
    /\ wrcount = 0
    /\ wrcount' = 1
    /\ wr_iid' = w
    /\ wr_iid_islive' = TRUE
    /\ UNCHANGED registrations

\* One writer is left and it is not cached: w may be that one, which moves
\* back from the table to the cache, or a second one.
RegisterUncached(w) ==
    /\ wrcount = 1 /\ ~wr_iid_islive
    /\ IF w \in registrations
         THEN /\ registrations' = registrations \ {w}
              /\ UNCHANGED wrcount
         ELSE /\ registrations' = registrations \cup {w}
              /\ wrcount' = wrcount + 1
    /\ wr_iid' = w
    /\ wr_iid_islive' = TRUE

\* Several writers: all of them are in the table, where the one that was
\* alone and cached until now is entered first ("rescue").
RegisterMore(w) ==
    LET rescued == IF wrcount = 1 THEN {wr_iid} ELSE {}
        known   == registrations \cup rescued
    IN  /\ wrcount > 0
        /\ ~(wr_iid_islive /\ wr_iid = w)
        /\ ~(wrcount = 1 /\ ~wr_iid_islive)
        /\ registrations' = known \cup {w}
        /\ wrcount' = wrcount + Count(w \notin known)
        /\ wr_iid' = w
        /\ wr_iid_islive' = TRUE

Register(w) ==
    \/ RegisterCached(w)
    \/ RegisterFirst(w)
    \/ RegisterUncached(w)
    \/ RegisterMore(w)

\* Slip: the writer that remains is cached and stays in the table too.
DeleteRegistrationOnly(w) ==
    IF wrcount = 1 /\ wr_iid_islive
      THEN wr_iid = w /\ UNCHANGED registrations
      ELSE w \in registrations /\ registrations' = registrations \ {w}

\* The table after the registration of w is gone.  With two writers, one of
\* them cached and not w, the cached one leaves the table as well.
DeleteRegistration(w) ==
    LET remain == IF wrcount = 2 /\ wr_iid_islive /\ wr_iid # w THEN {wr_iid} ELSE {}
    IN  IF wrcount = 1 /\ wr_iid_islive
          THEN wr_iid = w /\ UNCHANGED registrations
          ELSE w \in registrations /\ registrations' = registrations \ ({w} \cup remain)

--------------------------------------------------------------------------------
(* Samples.                                                                  *)

\* Slip: the history depth is not looked at.
PushUnlimited(v) == Append(samples, v)

\* add_sample: a full history reuses its oldest sample for the new one.
Push(v) ==
    IF Len(samples) = Depth THEN Append(Tail(samples), v) ELSE Append(samples, v)

\* The first max_samples samples have been taken from the history.
Rest == IF MaxSamples < Len(samples)
          THEN SubSeq(samples, MaxSamples + 1, Len(samples)) ELSE <<>>

\* Slip: the condition is counted up for every sample, matched before or not.
UpdateConditionsAlways(nonemptyBefore, nonemptyAfter) ==
    /\ m_trigger' = IF ~cond THEN m_trigger
                    ELSE IF nonemptyAfter THEN m_trigger + 1 ELSE m_trigger - 1
    /\ UNCHANGED cond

\* update_conditions_locked: a DDS_ANY_STATE condition matches an instance
\* that holds something, and counts the instances that match.
UpdateConditions(nonemptyBefore, nonemptyAfter) ==
    /\ m_trigger' = IF cond
                      THEN m_trigger + Count(nonemptyAfter) - Count(nonemptyBefore)
                      ELSE m_trigger
    /\ UNCHANGED cond

\* dds_rhc_default_store, sample of an unknown instance.
StoreNew(w, v) ==
    /\ ~present
    /\ present' = TRUE
    /\ samples' = <<v>>
    /\ inv_exists' = FALSE
    /\ isnew' = TRUE
    /\ isdisposed' = FALSE
    /\ wrcount' = 1
    /\ wr_iid' = w
    /\ wr_iid_islive' = TRUE
    /\ UNCHANGED registrations
    /\ n_instances' = n_instances + 1
    /\ n_nonempty_instances' = n_nonempty_instances + 1
    /\ n_new' = n_new + 1
    /\ n_vsamples' = n_vsamples + 1
    /\ UNCHANGED <<n_not_alive_disposed, n_not_alive_no_writers, n_invsamples>>
    /\ UpdateConditions(FALSE, TRUE)

\* dds_rhc_default_store, sample of the known instance.
StoreKnown(w, v) ==
    /\ present
    /\ Register(w)
    /\ samples' = Push(v)
    /\ inv_exists' = FALSE
    /\ isnew' = (isnew \/ wrcount = 0 \/ isdisposed)
    /\ isdisposed' = FALSE
    /\ n_not_alive_no_writers' =
         n_not_alive_no_writers - Count(wrcount = 0 /\ ~Empty /\ ~isdisposed)
    /\ n_nonempty_instances' = n_nonempty_instances + Count(Empty)
    /\ n_not_alive_disposed' = n_not_alive_disposed - Count(~Empty /\ isdisposed)
    /\ n_new' = n_new + Count(isnew') - Count(isnew)
    /\ n_vsamples' = n_vsamples + Count(Len(samples) < Depth)
    /\ n_invsamples' = n_invsamples - Count(inv_exists)
    /\ UNCHANGED n_instances
    /\ UNCHANGED present
    /\ UpdateConditions(~Empty, TRUE)

Store(w, v) == StoreNew(w, v) \/ StoreKnown(w, v)

--------------------------------------------------------------------------------
(* A writer has died: its process ended or its lease expired.                *)

\* Slip: the dead writer stays cached.
UnregisterKeepingCache(w) ==
    /\ wrcount > 1
    /\ wrcount' = wrcount - 1
    /\ UNCHANGED <<instVars, wr_iid, wr_iid_islive, counters, condVars>>

\* Others remain; if w was the cached writer nobody is cached for now.
UnregisterOneOfMany(w) ==
    /\ wrcount > 1
    /\ wrcount' = wrcount - 1
    /\ wr_iid_islive' = (wr_iid_islive /\ wr_iid # w)
    /\ UNCHANGED <<instVars, wr_iid, counters, condVars>>

\* Slip: an instance that holds samples changes state but is not recounted.
UnregisterLastUncounted(w) ==
    /\ wrcount = 1
    /\ wrcount' = 0
    /\ wr_iid_islive' = FALSE
    /\ inv_exists' = (inv_exists \/ samples = <<>>)
    /\ isdisposed' = (isdisposed \/ AutoDispose)
    /\ n_nonempty_instances' = n_nonempty_instances + Count(Empty)
    /\ n_invsamples' = n_invsamples + Count(Empty)
    /\ n_not_alive_disposed' = n_not_alive_disposed + Count(Empty /\ AutoDispose)
    /\ n_not_alive_no_writers' =
         n_not_alive_no_writers + Count(Empty /\ ~AutoDispose)
    /\ UNCHANGED <<n_instances, n_new, n_vsamples>>
    /\ UNCHANGED <<present, samples, isnew, wr_iid>>
    /\ UpdateConditions(~Empty, TRUE)

\* It was the last: an instance with nothing to take gets an invalid sample
\* that carries the change, and the instance is disposed if so configured.
\* (An instance with a writer has not been disposed, as no writer disposes; the
\* branch that drops an empty, disposed instance at once is not reached.)
UnregisterLast(w) ==
    /\ wrcount = 1
    /\ wrcount' = 0
    /\ wr_iid_islive' = FALSE
    /\ inv_exists' = (inv_exists \/ samples = <<>>)
    /\ isdisposed' = (isdisposed \/ AutoDispose)
    /\ n_nonempty_instances' = n_nonempty_instances + Count(Empty)
    /\ n_invsamples' = n_invsamples + Count(Empty)
    /\ n_not_alive_disposed' = n_not_alive_disposed + Count(~isdisposed /\ AutoDispose)
    /\ n_not_alive_no_writers' =
         n_not_alive_no_writers + Count(~isdisposed /\ ~AutoDispose)
    /\ UNCHANGED <<n_instances, n_new, n_vsamples>>
    /\ UNCHANGED <<present, samples, isnew, wr_iid>>
    /\ UpdateConditions(~Empty, TRUE)

\* dds_rhc_default_unregister_wr.  A writer the instance does not know is
\* not looked at.
UnregisterWr(w) ==
    /\ present
    /\ (wr_iid_islive /\ wr_iid = w) \/ w \in registrations
    /\ DeleteRegistration(w)
    /\ UnregisterOneOfMany(w) \/ UnregisterLast(w)

--------------------------------------------------------------------------------
(* The application.                                                          *)

\* Slip: the emptied instance is left in the table of instances.
KeepInstance == UNCHANGED <<present, isdisposed, wrVars>>

\* The last sample has been taken and no writer is left: the instance goes.
DropInstance ==
    /\ present' = FALSE
    /\ isdisposed' = FALSE
    /\ wr_iid' = NoWriter
    /\ UNCHANGED <<wrcount, wr_iid_islive, registrations>>

\* take_w_qminv on a non-empty instance: samples first, oldest first, then
\* the invalid sample if there is room for it.
Take ==
    LET takesInv == inv_exists /\ Len(samples) < MaxSamples
        empties  == Rest = <<>> /\ (inv_exists => takesInv)
        drops    == empties /\ wrcount = 0
    IN  /\ ~Empty
        /\ samples' = Rest
        /\ inv_exists' = (inv_exists /\ ~takesInv)
        /\ isnew' = FALSE
        /\ n_vsamples' = n_vsamples - (Len(samples) - Len(Rest))
        /\ n_invsamples' = n_invsamples - Count(takesInv)
        /\ n_new' = n_new - Count(isnew)
        /\ n_nonempty_instances' = n_nonempty_instances - Count(empties)
        /\ n_not_alive_disposed' = n_not_alive_disposed - Count(empties /\ isdisposed)
        /\ n_not_alive_no_writers' = n_not_alive_no_writers - Count(drops /\ ~isdisposed)
        /\ n_instances' = n_instances - Count(drops)
        /\ UpdateConditions(TRUE, ~empties)
        /\ IF drops THEN DropInstance ELSE UNCHANGED <<present, isdisposed, wrVars>>

\* dds_rhc_default_add_readcondition: the program creates its condition after
\* the reader, which may hold something by then.
AddReadCondition ==
    /\ ~cond
    /\ cond' = TRUE
    /\ m_trigger' = Count(~Empty)
    /\ UNCHANGED <<instVars, wrVars, counters>>

Next ==
    \/ \E w \in Writers, v \in Values : Store(w, v)
    \/ \E w \in Writers : UnregisterWr(w)
    \/ Take
    \/ AddReadCondition

Spec == Init /\ [][Next]_vars

--------------------------------------------------------------------------------
(* Properties.                                                               *)

\* Every field has its type; the history never exceeds its depth.
TypeOK ==
    /\ present \in BOOLEAN
    /\ samples \in Seq(Values) /\ Len(samples) <= Depth
    /\ inv_exists \in BOOLEAN
    /\ isnew \in BOOLEAN
    /\ isdisposed \in BOOLEAN
    /\ wrcount \in Nat
    /\ wr_iid \in Writers \cup {NoWriter}
    /\ wr_iid_islive \in BOOLEAN
    /\ registrations \in SUBSET Writers
    /\ n_instances \in Nat
    /\ n_nonempty_instances \in Nat
    /\ n_not_alive_disposed \in Nat
    /\ n_not_alive_no_writers \in Nat
    /\ n_new \in Nat
    /\ n_vsamples \in Nat
    /\ n_invsamples \in Nat
    /\ cond \in BOOLEAN
    /\ m_trigger \in Nat

\* The writers the instance knows: the cached one alone, or the table.
Registered == IF wrcount = 1 /\ wr_iid_islive THEN {wr_iid} ELSE registrations

\* The cache and the table never disagree: wrcount counts the writers that
\* are known, a cached writer is one of them, and a writer that is alone and
\* cached is not in the table (the invariant dds_rhc_default.c states in
\* rhc_unregister_delete_registration and relies on in dds_rhc_register, where
\* lwregs_add of the rescued writer must succeed).
RegistrationsConsistent ==
    /\ wrcount = Cardinality(Registered)
    /\ wr_iid_islive => wr_iid \in Registered
    /\ wrcount = 1 /\ wr_iid_islive => registrations = {}

\* rhc_check_counts_locked, which a release build leaves out: the counters
\* kept incrementally by store, unregister and take are what a recount over
\* the instance gives.
CountsExact ==
    /\ n_instances = Count(present)
    /\ n_nonempty_instances = Count(~Empty)
    /\ n_not_alive_disposed = Count(~Empty /\ isdisposed)
    /\ n_not_alive_no_writers = Count(~Empty /\ ~isdisposed /\ wrcount = 0)
    /\ n_new = Count(isnew)
    /\ n_vsamples = Len(samples)
    /\ n_invsamples = Count(inv_exists)

\* The waitset looks at m_trigger and nothing else: it is non-zero exactly
\* when a take would return something, so a program that waits is neither
\* left asleep over data nor woken for nothing.
TriggerExact == cond => m_trigger = Count(~Empty)

\* An instance stays only for a writer or for something to take, and what is
\* there to take belongs to an instance: nothing leaks when writers die
\* before or after the last take.
NoOrphan ==
    /\ present => wrcount > 0 \/ ~Empty
    /\ ~present => Empty /\ wrcount = 0 /\ registrations = {}

\* The cache implements the keep-last cache the programs rely on: the writers
\* behind cache and table, the samples, the notice that the last writer left.
SC == INSTANCE SampleCache WITH writers <- Registered, queue <- samples,
                                notice <- inv_exists
Implements == SC!Spec
================================================================================
