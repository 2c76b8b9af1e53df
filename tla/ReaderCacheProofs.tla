--------------------------- MODULE ReaderCacheProofs ---------------------------
(***************************************************************************)
(* Proofs about the reader history cache, for any set of writers and        *)
(* values, any depth, any dds_take limit and either autodispose setting.    *)
(***************************************************************************)
EXTENDS ReaderCache, FiniteSetTheorems, SequenceTheorems, TLAPS

USE DEF Count

\* The types of the fields that are not counters: the counters and m_trigger
\* get theirs from CountsExact and TriggerExact.
FieldTypes ==
    /\ present \in BOOLEAN
    /\ samples \in Seq(Values) /\ Len(samples) <= Depth
    /\ inv_exists \in BOOLEAN
    /\ isnew \in BOOLEAN
    /\ isdisposed \in BOOLEAN
    /\ wrcount \in Nat
    /\ wr_iid \in Writers \cup {NoWriter}
    /\ wr_iid_islive \in BOOLEAN
    /\ registrations \in SUBSET Writers
    /\ cond \in BOOLEAN

\* RegistrationsConsistent is about cardinalities: the table must be finite,
\* and it is because writers enter it one at a time.
RegInv ==
    /\ RegistrationsConsistent
    /\ IsFiniteSet(registrations)

\* What an instance that has been dropped, an invalid sample and a condition
\* that does not exist yet imply for the other fields.
ShapeInv ==
    /\ inv_exists => samples = <<>> /\ wrcount = 0
    /\ wr_iid_islive => wrcount > 0
    /\ wr_iid_islive => wr_iid \in Writers
    /\ ~present => ~isnew /\ ~isdisposed
    /\ isdisposed => wrcount = 0
    /\ ~cond => m_trigger = 0

IInv ==
    /\ FieldTypes
    /\ RegInv
    /\ ShapeInv
    /\ CountsExact
    /\ TriggerExact
    /\ NoOrphan

--------------------------------------------------------------------------------
(* Samples.                                                                  *)

\* Storing into the history keeps its bound and never leaves it empty.
LEMMA PushFacts ==
    ASSUME FieldTypes, NEW v \in Values
    PROVE  /\ Push(v) \in Seq(Values)
           /\ Len(Push(v)) = Len(samples) + Count(Len(samples) < Depth)
           /\ Len(Push(v)) \in 1..Depth
<1>1. samples \in Seq(Values) /\ Len(samples) \in Nat /\ Len(samples) <= Depth
  BY LenProperties DEF FieldTypes
<1>2. Depth \in Nat \ {0}
  BY ConstantsAssumption
<1>3. CASE Len(samples) = Depth
  <2>1. samples # <<>>
    BY <1>1, <1>2, <1>3, EmptySeq
  <2>2. Tail(samples) \in Seq(Values) /\ Len(Tail(samples)) = Len(samples) - 1
    BY <1>1, <2>1, HeadTailProperties
  <2>3. /\ Append(Tail(samples), v) \in Seq(Values)
        /\ Len(Append(Tail(samples), v)) = Len(Tail(samples)) + 1
    BY <2>2, AppendProperties
  <2> QED
    BY <1>1, <1>2, <1>3, <2>2, <2>3 DEF Push
<1>4. CASE Len(samples) # Depth
  <2>1. /\ Append(samples, v) \in Seq(Values)
        /\ Len(Append(samples, v)) = Len(samples) + 1
    BY <1>1, AppendProperties
  <2> QED
    BY <1>1, <1>2, <1>4, <2>1 DEF Push
<1> QED
  BY <1>3, <1>4

\* Taking leaves a suffix of the history.
LEMMA RestFacts ==
    ASSUME FieldTypes
    PROVE  /\ Rest \in Seq(Values)
           /\ Len(Rest) <= Len(samples)
           /\ Rest = <<>> <=> Len(samples) <= MaxSamples
<1>1. samples \in Seq(Values) /\ Len(samples) \in Nat
  BY LenProperties DEF FieldTypes
<1>2. MaxSamples \in Nat \ {0}
  BY ConstantsAssumption
<1>3. CASE MaxSamples < Len(samples)
  <2>1. MaxSamples + 1 \in 1..Len(samples) + 1 /\ Len(samples) \in 0..Len(samples)
    BY <1>1, <1>2, <1>3
  <2>2. /\ Rest \in Seq(Values)
        /\ Len(Rest) = Len(samples) - MaxSamples
    BY <1>1, <1>2, <1>3, <2>1 DEF Rest
  <2> QED
    BY <1>1, <1>2, <1>3, <2>2, EmptySeq
<1>4. CASE ~(MaxSamples < Len(samples))
  BY <1>1, <1>2, <1>4, EmptySeq DEF Rest
<1> QED
  BY <1>3, <1>4

--------------------------------------------------------------------------------
(* Registrations.                                                            *)

\* What a registration does, whatever path through the cache and the table it
\* takes: w is among the known writers, once, and cached.
LEMMA RegisterFacts ==
    ASSUME FieldTypes, RegInv, ShapeInv, NEW w \in Writers, Register(w)
    PROVE  /\ Registered' = Registered \cup {w}
           /\ registrations' \in SUBSET Writers
           /\ wrcount' \in Nat /\ wrcount' > 0
           /\ wr_iid' = w /\ wr_iid_islive' = TRUE
           /\ RegInv'
<1>1. /\ wrcount \in Nat /\ registrations \in SUBSET Writers
      /\ wr_iid_islive \in BOOLEAN /\ wr_iid \in Writers \cup {NoWriter}
  BY DEF FieldTypes
<1>2. /\ wrcount = Cardinality(Registered)
      /\ wr_iid_islive => wr_iid \in Registered
      /\ wrcount = 1 /\ wr_iid_islive => registrations = {}
      /\ IsFiniteSet(registrations)
  BY DEF RegInv, RegistrationsConsistent
<1>3. IsFiniteSet(Registered)
  BY <1>2, FS_Singleton DEF Registered
<1>4. wr_iid_islive => wr_iid \in Writers /\ wrcount > 0
  BY DEF ShapeInv
<1>5. CASE RegisterCached(w)
  <2>1. wr_iid = w /\ wr_iid_islive /\ UNCHANGED wrVars
    BY <1>5 DEF RegisterCached
  <2>2. Registered' = Registered /\ RegInv'
    BY <2>1 DEF wrVars, Registered, RegInv, RegistrationsConsistent
  <2> QED
    BY <1>1, <1>2, <1>4, <2>1, <2>2 DEF wrVars
<1>6. CASE RegisterFirst(w)
  <2>1. Registered = registrations /\ registrations = {}
    BY <1>2, <1>6, FS_EmptySet DEF RegisterFirst, Registered
  <2>2. /\ wrcount' = 1 /\ wr_iid' = w /\ wr_iid_islive' = TRUE
        /\ registrations' = {}
    BY <1>6, <2>1 DEF RegisterFirst
  <2>3. Registered' = {w}
    BY <2>2 DEF Registered
  <2>4. RegInv'
    BY <2>2, <2>3, FS_Singleton, FS_EmptySet DEF RegInv, RegistrationsConsistent
  <2> QED
    BY <2>1, <2>2, <2>3, <2>4
<1>7. CASE RegisterUncached(w)
  <2>1. /\ wrcount = 1 /\ ~wr_iid_islive /\ wr_iid' = w /\ wr_iid_islive' = TRUE
        /\ Registered = registrations
    BY <1>7 DEF RegisterUncached, Registered
  <2>2. CASE w \in registrations
    <3>1. registrations' = registrations \ {w} /\ wrcount' = 1
      BY <1>7, <2>1, <2>2 DEF RegisterUncached
    <3>2. \E x : registrations = {x}
      BY <1>2, <2>1, FS_Singleton
    <3>3. registrations = {w} /\ registrations' = {}
      BY <2>2, <3>1, <3>2
    <3>4. Registered' = {w}
      BY <2>1, <3>1 DEF Registered
    <3>5. RegInv'
      BY <2>1, <3>1, <3>3, <3>4, FS_Singleton, FS_EmptySet
      DEF RegInv, RegistrationsConsistent
    <3> QED
      BY <2>1, <3>1, <3>3, <3>4, <3>5
  <2>3. CASE w \notin registrations
    <3>1. registrations' = registrations \cup {w} /\ wrcount' = 2
      BY <1>7, <2>1, <2>3 DEF RegisterUncached
    <3>2. Registered' = registrations \cup {w}
      BY <3>1 DEF Registered
    <3>3. IsFiniteSet(registrations') /\ Cardinality(registrations') = 2
      <4>1. Cardinality(registrations) = 1
        BY <1>2, <2>1
      <4>2. /\ IsFiniteSet(registrations \cup {w})
            /\ Cardinality(registrations \cup {w}) = Cardinality(registrations) + 1
        BY <1>2, <2>3, FS_AddElement
      <4> QED
        BY <3>1, <4>1, <4>2
    <3>4. RegInv'
      BY <2>1, <3>1, <3>2, <3>3 DEF RegInv, RegistrationsConsistent
    <3> QED
      BY <1>1, <2>1, <3>1, <3>2, <3>4
  <2> QED
    BY <2>2, <2>3
<1>8. CASE RegisterMore(w)
  <2> DEFINE known == registrations \cup (IF wrcount = 1 THEN {wr_iid} ELSE {})
  <2>1. /\ wrcount > 0 /\ ~(wr_iid_islive /\ wr_iid = w)
        /\ ~(wrcount = 1 /\ ~wr_iid_islive)
        /\ registrations' = known \cup {w}
        /\ wrcount' = wrcount + Count(w \notin known)
        /\ wr_iid' = w /\ wr_iid_islive' = TRUE
    BY <1>8 DEF RegisterMore
  <2>2. known = Registered
    BY <1>1, <1>2, <2>1 DEF Registered
  <2>3. wrcount' >= 2 /\ wrcount' \in Nat
    <3>1. CASE wrcount = 1
      <4>1. w \notin known
        BY <1>2, <2>1, <3>1
      <4> QED
        BY <2>1, <3>1, <4>1
    <3>2. CASE wrcount # 1
      BY <1>1, <2>1, <3>2
    <3> QED
      BY <3>1, <3>2
  <2>4. Registered' = known \cup {w} /\ Registered' = registrations'
    BY <2>1, <2>3 DEF Registered
  <2>5. /\ IsFiniteSet(known \cup {w})
        /\ Cardinality(known \cup {w}) =
             IF w \in known THEN Cardinality(known) ELSE Cardinality(known) + 1
    BY <1>3, <2>2, FS_AddElement
  <2>6. wrcount' = Cardinality(known \cup {w})
    <3>1. wrcount = Cardinality(known)
      BY <1>2, <2>2
    <3>2. wrcount' = wrcount + (IF w \in known THEN 0 ELSE 1)
      BY <2>1
    <3> HIDE DEF known
    <3> QED
      BY <1>1, <2>5, <3>1, <3>2
  <2>7. RegInv'
    BY <2>1, <2>3, <2>4, <2>5, <2>6 DEF RegInv, RegistrationsConsistent
  <2>8. known \in SUBSET Writers
    BY <1>1, <1>4, <2>1
  <2> QED
    BY <2>1, <2>2, <2>3, <2>4, <2>7, <2>8
<1> QED
  BY <1>5, <1>6, <1>7, <1>8 DEF Register

\* Losing a writer that others outlive removes it from the known writers.
LEMMA UnregisterManyFacts ==
    ASSUME FieldTypes, RegInv, ShapeInv, NEW w \in Writers,
           DeleteRegistration(w), UnregisterOneOfMany(w)
    PROVE  /\ w \in Registered
           /\ Registered' = Registered \ {w}
           /\ Registered' # {}
           /\ registrations' \in SUBSET Writers
           /\ wrcount' \in Nat /\ wrcount' > 0
           /\ RegInv'
<1>1. /\ wrcount \in Nat /\ registrations \in SUBSET Writers
      /\ wr_iid_islive \in BOOLEAN
  BY DEF FieldTypes
<1>2. /\ wrcount > 1 /\ wrcount' = wrcount - 1 /\ wr_iid' = wr_iid
      /\ wr_iid_islive' = (wr_iid_islive /\ wr_iid # w)
  BY DEF UnregisterOneOfMany
<1>3. Registered = registrations /\ w \in registrations
  BY <1>2 DEF Registered, DeleteRegistration
<1>4. /\ wrcount = Cardinality(registrations) /\ IsFiniteSet(registrations)
      /\ wr_iid_islive => wr_iid \in registrations
  BY <1>3 DEF RegInv, RegistrationsConsistent
<1>5. /\ IsFiniteSet(registrations \ {w})
      /\ Cardinality(registrations \ {w}) = wrcount - 1
  BY <1>3, <1>4, FS_RemoveElement
<1>6. CASE wrcount = 2 /\ wr_iid_islive /\ wr_iid # w
  <2>1. registrations' = registrations \ ({w} \cup {wr_iid})
    BY <1>2, <1>6 DEF DeleteRegistration
  <2>2. \E x : registrations \ {w} = {x}
    <3>1. Cardinality(registrations \ {w}) = 1
      BY <1>5, <1>6
    <3> QED
      BY <1>5, <3>1, FS_Singleton
  <2>3. registrations \ {w} = {wr_iid}
    BY <1>4, <1>6, <2>2
  <2>4. registrations' = {}
    BY <2>1, <2>3
  <2>5. Registered' = {wr_iid} /\ wrcount' = 1 /\ wr_iid_islive'
    <3>1. wrcount' = 1
      BY <1>2, <1>6
    <3>2. wr_iid_islive'
      BY <1>2, <1>6
    <3> QED
      BY <1>2, <3>1, <3>2 DEF Registered
  <2>6. RegInv'
    BY <1>2, <2>4, <2>5, FS_Singleton, FS_EmptySet DEF RegInv, RegistrationsConsistent
  <2> QED
    BY <1>3, <2>3, <2>4, <2>5, <2>6
<1>7. CASE ~(wrcount = 2 /\ wr_iid_islive /\ wr_iid # w)
  <2>1. registrations' = registrations \ {w}
    BY <1>2, <1>7 DEF DeleteRegistration
  <2>2. ~(wrcount' = 1 /\ wr_iid_islive')
    <3>1. wrcount' = 1 => wrcount = 2
      BY <1>1, <1>2
    <3>2. wrcount = 2 => ~wr_iid_islive'
      BY <1>2, <1>7
    <3> QED
      BY <3>1, <3>2
  <2>3. Registered' = registrations \ {w}
    BY <2>1, <2>2 DEF Registered
  <2>4. RegInv'
    BY <1>2, <1>4, <1>5, <2>1, <2>2, <2>3 DEF RegInv, RegistrationsConsistent
  <2>5. registrations \ {w} # {}
    BY <1>1, <1>2, <1>5, FS_EmptySet
  <2> QED
    BY <1>1, <1>2, <1>3, <2>1, <2>3, <2>4, <2>5
<1> QED
  BY <1>6, <1>7

\* Losing the only writer leaves no writer.
LEMMA UnregisterLastFacts ==
    ASSUME FieldTypes, RegInv, ShapeInv, NEW w \in Writers,
           DeleteRegistration(w), UnregisterLast(w)
    PROVE  /\ w \in Registered
           /\ Registered' = {} /\ Registered \ {w} = {}
           /\ registrations' = {}
           /\ RegInv'
<1>1. wrcount = 1 /\ wrcount' = 0 /\ wr_iid_islive' = FALSE
  BY DEF UnregisterLast
<1>2. /\ wrcount = Cardinality(Registered) /\ IsFiniteSet(registrations)
      /\ wr_iid_islive => registrations = {}
  BY <1>1 DEF RegInv, RegistrationsConsistent
<1>3. w \in Registered /\ registrations' = registrations \ {w}
  BY <1>1, <1>2 DEF DeleteRegistration, Registered
<1>4. IsFiniteSet(Registered)
  BY <1>2, FS_Singleton DEF Registered
<1>5. \E x : Registered = {x}
  BY <1>1, <1>2, <1>4, FS_Singleton
<1>6. Registered \ {w} = {} /\ registrations' = {}
  BY <1>1, <1>2, <1>3, <1>5 DEF Registered
<1>7. Registered' = {}
  BY <1>1, <1>6 DEF Registered
<1>8. RegInv'
  BY <1>1, <1>6, <1>7, FS_EmptySet DEF RegInv, RegistrationsConsistent
<1> QED
  BY <1>3, <1>6, <1>7, <1>8

--------------------------------------------------------------------------------
(* The inductive invariant.                                                  *)

\* The inductive invariant gives every field its type.
LEMMA IInvTypes == IInv => TypeOK
<1> SUFFICES ASSUME IInv PROVE TypeOK
  OBVIOUS
<1>1. FieldTypes /\ CountsExact /\ TriggerExact /\ ShapeInv
  BY DEF IInv
<1>2. Len(samples) \in Nat
  BY <1>1, LenProperties DEF FieldTypes
<1>3. /\ n_instances \in Nat /\ n_nonempty_instances \in Nat
      /\ n_not_alive_disposed \in Nat /\ n_not_alive_no_writers \in Nat
      /\ n_new \in Nat /\ n_vsamples \in Nat /\ n_invsamples \in Nat
  BY <1>1, <1>2 DEF CountsExact
<1>4. m_trigger \in Nat
  BY <1>1 DEF TriggerExact, ShapeInv
<1> QED
  BY <1>1, <1>3, <1>4 DEF FieldTypes, TypeOK

\* A reader starts with a cache that satisfies the inductive invariant.
LEMMA InitInv == Init => IInv
<1> SUFFICES ASSUME Init PROVE IInv
  OBVIOUS
<1> USE ConstantsAssumption DEF Init
<1>1. FieldTypes
  <2>1. samples \in Seq(Values) /\ Len(samples) <= Depth
    BY EmptySeq
  <2> QED
    BY <2>1 DEF FieldTypes
<1>2. RegInv
  BY FS_EmptySet DEF RegInv, RegistrationsConsistent, Registered
<1>3. ShapeInv
  BY DEF ShapeInv
<1>4. CountsExact
  BY EmptySeq DEF CountsExact, Empty
<1>5. TriggerExact /\ NoOrphan
  BY DEF TriggerExact, NoOrphan, Empty
<1> QED
  BY <1>1, <1>2, <1>3, <1>4, <1>5 DEF IInv

\* Storing the first sample of the instance keeps the inductive invariant.
LEMMA StoreNewInv ==
    ASSUME IInv, NEW w \in Writers, NEW v \in Values, StoreNew(w, v)
    PROVE  IInv'
<1>1. /\ FieldTypes /\ RegInv /\ ShapeInv /\ CountsExact /\ TriggerExact /\ NoOrphan
      /\ Depth \in Nat \ {0}
  BY ConstantsAssumption DEF IInv
<1>2. ~present /\ Empty /\ wrcount = 0 /\ registrations = {} /\ ~isnew /\ ~isdisposed
  BY <1>1 DEF StoreNew, NoOrphan, ShapeInv
<1>3. /\ samples' = <<v>> /\ samples' \in Seq(Values) /\ Len(samples') = 1
      /\ ~Empty'
  BY DEF StoreNew, Empty
<1>4. cond' = cond /\ cond \in BOOLEAN
  BY <1>1 DEF FieldTypes, StoreNew, UpdateConditions
<1>5. FieldTypes'
  <2>1. samples' \in Seq(Values) /\ Len(samples') <= Depth
    BY <1>1, <1>3
  <2> QED
    BY <1>1, <1>4, <2>1 DEF FieldTypes, StoreNew
<1>6. RegInv'
  <2>1. Registered' = {w}
    BY <1>2 DEF StoreNew, Registered
  <2> QED
    BY <1>2, <2>1, FS_Singleton, FS_EmptySet
    DEF StoreNew, RegInv, RegistrationsConsistent
<1>7. ShapeInv'
  BY <1>1 DEF ShapeInv, StoreNew, UpdateConditions
<1>8. CountsExact'
  BY <1>1, <1>2, <1>3, EmptySeq DEF CountsExact, StoreNew, Empty
<1>9. TriggerExact' /\ NoOrphan'
  BY <1>1, <1>2, <1>3 DEF FieldTypes, TriggerExact, NoOrphan, StoreNew, UpdateConditions, Empty
<1> QED
  BY <1>5, <1>6, <1>7, <1>8, <1>9 DEF IInv

\* Storing a further sample keeps it, whichever writer it comes from.
LEMMA StoreKnownInv ==
    ASSUME IInv, NEW w \in Writers, NEW v \in Values, StoreKnown(w, v)
    PROVE  IInv'
<1>1. /\ FieldTypes /\ RegInv /\ ShapeInv /\ CountsExact /\ TriggerExact /\ NoOrphan
      /\ Depth \in Nat \ {0}
  BY ConstantsAssumption DEF IInv
<1>2. /\ present /\ present' = present /\ samples' = Push(v) /\ Register(w)
      /\ inv_exists' = FALSE /\ isdisposed' = FALSE
      /\ isnew' = (isnew \/ wrcount = 0 \/ isdisposed)
      /\ cond' = cond
  BY DEF StoreKnown, UpdateConditions
<1>3. /\ registrations' \in SUBSET Writers
      /\ wrcount' \in Nat /\ wrcount' > 0
      /\ wr_iid' = w /\ wr_iid_islive' = TRUE
      /\ RegInv'
  BY <1>1, <1>2, RegisterFacts
<1>4. /\ samples' \in Seq(Values)
      /\ Len(samples') = Len(samples) + Count(Len(samples) < Depth)
      /\ Len(samples') <= Depth
      /\ samples' # <<>>
  BY <1>1, <1>2, PushFacts, EmptySeq
<1>5. ~Empty'
  BY <1>4 DEF Empty
<1>6. FieldTypes'
  BY <1>1, <1>2, <1>3, <1>4 DEF FieldTypes
<1>7. ShapeInv'
  <2>1. ~cond => m_trigger' = m_trigger
    BY DEF StoreKnown, UpdateConditions
  <2> QED
    BY <1>1, <1>2, <1>3, <2>1 DEF ShapeInv
<1>8. CountsExact'
  <2>1. n_instances' = Count(present')
    BY <1>1, <1>2 DEF CountsExact, StoreKnown
  <2>2. n_nonempty_instances' = Count(~Empty')
    BY <1>1, <1>5 DEF CountsExact, StoreKnown
  <2>3. n_not_alive_disposed' = Count(~Empty' /\ isdisposed')
    BY <1>1, <1>2 DEF CountsExact, StoreKnown
  <2>4. n_not_alive_no_writers' = Count(~Empty' /\ ~isdisposed' /\ wrcount' = 0)
    BY <1>1, <1>3 DEF CountsExact, StoreKnown
  <2>5. n_new' = Count(isnew')
    BY <1>1 DEF CountsExact, StoreKnown
  <2>6. n_vsamples' = Len(samples')
    BY <1>1, <1>4 DEF CountsExact, StoreKnown
  <2>7. n_invsamples' = Count(inv_exists')
    BY <1>1, <1>2 DEF CountsExact, StoreKnown
  <2> QED
    BY <2>1, <2>2, <2>3, <2>4, <2>5, <2>6, <2>7 DEF CountsExact
<1>9. TriggerExact'
  BY <1>1, <1>2, <1>5 DEF TriggerExact, StoreKnown, UpdateConditions
<1>10. NoOrphan'
  BY <1>2, <1>3 DEF NoOrphan
<1> QED
  BY <1>3, <1>6, <1>7, <1>8, <1>9, <1>10 DEF IInv

\* The death of a writer keeps it, be it the last one or not.
LEMMA UnregisterWrInv ==
    ASSUME IInv, NEW w \in Writers, UnregisterWr(w)
    PROVE  IInv'
<1>1. /\ FieldTypes /\ RegInv /\ ShapeInv /\ CountsExact /\ TriggerExact /\ NoOrphan
      /\ AutoDispose \in BOOLEAN
  BY ConstantsAssumption DEF IInv
<1>2. present /\ DeleteRegistration(w)
  BY DEF UnregisterWr
<1>3. CASE UnregisterOneOfMany(w)
  <2>1. /\ registrations' \in SUBSET Writers
        /\ wrcount' \in Nat /\ wrcount' > 0
        /\ RegInv'
    BY <1>1, <1>2, <1>3, UnregisterManyFacts
  <2>2. /\ UNCHANGED <<present, samples, inv_exists, isnew, isdisposed>>
        /\ UNCHANGED <<wr_iid, counters, cond, m_trigger>>
        /\ wr_iid_islive' = (wr_iid_islive /\ wr_iid # w)
        /\ wrcount > 1
    BY <1>3 DEF UnregisterOneOfMany, instVars, condVars
  <2>3. Empty' = Empty
    BY <2>2 DEF Empty
  <2>4. FieldTypes'
    BY <1>1, <2>1, <2>2 DEF FieldTypes
  <2>5. ShapeInv'
    <3>1. ~inv_exists /\ ~isdisposed
      BY <1>1, <2>2 DEF ShapeInv
    <3>2. wr_iid_islive' => wr_iid \in Writers
      BY <1>1, <2>2 DEF ShapeInv
    <3>3. ~cond => m_trigger = 0
      BY <1>1 DEF ShapeInv
    <3> QED
      BY <1>2, <2>1, <2>2, <3>1, <3>2, <3>3 DEF ShapeInv
  <2>6. CountsExact'
    <3>1. ~(wrcount = 0) /\ ~(wrcount' = 0)
      BY <2>1, <2>2
    <3> QED
      BY <1>1, <2>2, <2>3, <3>1 DEF CountsExact, counters
  <2>7. TriggerExact' /\ NoOrphan'
    BY <1>1, <1>2, <2>1, <2>2, <2>3 DEF TriggerExact, NoOrphan
  <2> QED
    BY <2>1, <2>4, <2>5, <2>6, <2>7 DEF IInv
<1>4. CASE UnregisterLast(w)
  <2>1. registrations' = {} /\ RegInv'
    BY <1>1, <1>2, <1>4, UnregisterLastFacts
  <2>2. /\ UNCHANGED <<present, samples, isnew, wr_iid, cond>>
        /\ wrcount = 1 /\ wrcount' = 0 /\ wr_iid_islive' = FALSE
        /\ inv_exists' = (inv_exists \/ samples = <<>>)
        /\ isdisposed' = (isdisposed \/ AutoDispose)
        /\ ~isdisposed /\ ~inv_exists
    BY <1>1, <1>4 DEF UnregisterLast, UpdateConditions, ShapeInv
  <2>3. ~Empty' /\ (Empty <=> samples = <<>>)
    BY <2>2 DEF Empty
  <2>4. FieldTypes'
    BY <1>1, <2>1, <2>2 DEF FieldTypes
  <2>5. ShapeInv'
    <3>1. ~cond => m_trigger' = m_trigger
      BY <1>4 DEF UnregisterLast, UpdateConditions
    <3> QED
      BY <1>1, <1>2, <2>2, <3>1 DEF ShapeInv
  <2>6. CountsExact'
    <3>1. n_instances' = Count(present') /\ n_new' = Count(isnew')
      BY <1>1, <1>4, <2>2 DEF CountsExact, UnregisterLast
    <3>2. n_nonempty_instances' = Count(~Empty')
      BY <1>1, <1>4, <2>3 DEF CountsExact, UnregisterLast
    <3>3. n_not_alive_disposed' = Count(~Empty' /\ isdisposed')
      BY <1>1, <1>4, <2>2, <2>3 DEF CountsExact, UnregisterLast
    <3>4. n_not_alive_no_writers' = Count(~Empty' /\ ~isdisposed' /\ wrcount' = 0)
      BY <1>1, <1>4, <2>2, <2>3 DEF CountsExact, UnregisterLast
    <3>5. n_vsamples' = Len(samples')
      BY <1>1, <1>4, <2>2 DEF CountsExact, UnregisterLast
    <3>6. n_invsamples' = Count(inv_exists')
      <4>1. n_invsamples = 0
        BY <1>1, <2>2 DEF CountsExact
      <4>2. n_invsamples' = n_invsamples + Count(Empty)
        BY <1>4 DEF UnregisterLast
      <4>3. inv_exists' <=> Empty
        BY <2>2, <2>3
      <4> QED
        BY <4>1, <4>2, <4>3
    <3> QED
      BY <3>1, <3>2, <3>3, <3>4, <3>5, <3>6 DEF CountsExact
  <2>7. TriggerExact'
    BY <1>1, <1>4, <2>2, <2>3 DEF TriggerExact, UnregisterLast, UpdateConditions
  <2>8. NoOrphan'
    BY <1>2, <2>2, <2>3 DEF NoOrphan
  <2> QED
    BY <2>1, <2>4, <2>5, <2>6, <2>7, <2>8 DEF IInv
<1> QED
  BY <1>3, <1>4 DEF UnregisterWr

\* A take keeps it, whether or not it empties or drops the instance.
LEMMA TakeInv ==
    ASSUME IInv, Take
    PROVE  IInv'
<1> DEFINE takesInv == inv_exists /\ Len(samples) < MaxSamples
           empties  == Rest = <<>> /\ (inv_exists => takesInv)
           drops    == empties /\ wrcount = 0
<1>1. /\ FieldTypes /\ RegInv /\ ShapeInv /\ CountsExact /\ TriggerExact /\ NoOrphan
      /\ MaxSamples \in Nat \ {0}
  BY ConstantsAssumption DEF IInv
<1>2. /\ ~Empty
      /\ samples' = Rest
      /\ inv_exists' = (inv_exists /\ ~takesInv)
      /\ isnew' = FALSE
      /\ n_vsamples' = n_vsamples - (Len(samples) - Len(Rest))
      /\ n_invsamples' = n_invsamples - Count(takesInv)
      /\ n_new' = n_new - Count(isnew)
      /\ n_nonempty_instances' = n_nonempty_instances - Count(empties)
      /\ n_not_alive_disposed' = n_not_alive_disposed - Count(empties /\ isdisposed)
      /\ n_not_alive_no_writers' = n_not_alive_no_writers - Count(drops /\ ~isdisposed)
      /\ n_instances' = n_instances - Count(drops)
      /\ UpdateConditions(TRUE, ~empties)
      /\ IF drops THEN DropInstance ELSE UNCHANGED <<present, isdisposed, wrVars>>
  BY DEF Take
<1>3. present /\ wrcount \in Nat
  BY <1>1, <1>2 DEF NoOrphan, FieldTypes
<1>4. /\ Rest \in Seq(Values) /\ Len(Rest) <= Depth
      /\ Len(samples) \in Nat /\ Len(Rest) \in Nat
  BY <1>1, RestFacts, LenProperties, ConstantsAssumption DEF FieldTypes
<1>5. inv_exists => Len(samples) = 0 /\ takesInv /\ Rest = <<>>
  BY <1>1, RestFacts, EmptySeq DEF ShapeInv
<1>6. ~inv_exists' /\ (Empty' <=> empties)
  <2>1. ~inv_exists'
    BY <1>2, <1>5
  <2> QED
    BY <1>2, <1>5, <2>1 DEF Empty
<1>7. /\ wrcount' = wrcount /\ wr_iid_islive' = wr_iid_islive
      /\ registrations' = registrations
      /\ ~drops => /\ wr_iid' = wr_iid /\ present' = present
                   /\ isdisposed' = isdisposed
      /\ drops => wr_iid' = NoWriter /\ present' = FALSE /\ isdisposed' = FALSE
  BY <1>2 DEF DropInstance, wrVars
<1>8. drops => ~wr_iid_islive /\ registrations = {}
  <2> SUFFICES ASSUME drops PROVE ~wr_iid_islive /\ registrations = {}
    OBVIOUS
  <2>1. wrcount = 0
    OBVIOUS
  <2>2. ~wr_iid_islive
    BY <1>1, <2>1 DEF ShapeInv
  <2>3. registrations = {}
    BY <1>1, <2>1, FS_EmptySet DEF RegInv, RegistrationsConsistent, Registered
  <2> QED
    BY <2>2, <2>3
<1> HIDE DEF takesInv, empties, drops
<1>9. drops <=> empties /\ wrcount = 0
  BY DEF drops
<1>10. empties \in BOOLEAN /\ drops \in BOOLEAN /\ takesInv \in BOOLEAN
  BY DEF drops, empties, takesInv
<1>11. FieldTypes'
  <2>1. samples' \in Seq(Values) /\ Len(samples') <= Depth
    BY <1>2, <1>4
  <2>2. /\ present' \in BOOLEAN /\ inv_exists' \in BOOLEAN /\ isnew' \in BOOLEAN
        /\ isdisposed' \in BOOLEAN /\ wr_iid_islive' \in BOOLEAN /\ cond' \in BOOLEAN
    BY <1>1, <1>2, <1>7 DEF FieldTypes, UpdateConditions
  <2>3. /\ wrcount' \in Nat /\ wr_iid' \in Writers \cup {NoWriter}
        /\ registrations' \in SUBSET Writers
    BY <1>1, <1>7 DEF FieldTypes
  <2> QED
    BY <2>1, <2>2, <2>3 DEF FieldTypes
<1>12. RegInv'
  <2>1. Registered' = Registered
    BY <1>7, <1>8, <1>9 DEF Registered
  <2>2. wr_iid_islive' => wr_iid' \in Registered'
    BY <1>1, <1>7, <1>8, <2>1 DEF RegInv, RegistrationsConsistent
  <2> QED
    BY <1>1, <1>7, <2>1, <2>2 DEF RegInv, RegistrationsConsistent
<1>13. ShapeInv'
  <2>1. wr_iid_islive' => wrcount' > 0 /\ wr_iid' \in Writers
    BY <1>1, <1>7, <1>8 DEF ShapeInv
  <2>2. ~present' => ~isnew' /\ ~isdisposed'
    BY <1>2, <1>3, <1>7
  <2>3. isdisposed' => wrcount' = 0
    BY <1>1, <1>7 DEF ShapeInv
  <2>4. ~cond' => m_trigger' = 0
    BY <1>1, <1>2 DEF ShapeInv, UpdateConditions
  <2> QED
    BY <1>6, <2>1, <2>2, <2>3, <2>4 DEF ShapeInv
<1>14. CountsExact'
  <2>1. n_instances' = Count(present')
    <3>1. n_instances = 1 /\ n_instances' = 1 - Count(drops)
      BY <1>1, <1>2, <1>3 DEF CountsExact
    <3>2. present' <=> ~drops
      BY <1>3, <1>7
    <3> QED
      BY <3>1, <3>2
  <2>2. n_nonempty_instances' = Count(~Empty')
    BY <1>1, <1>2, <1>6, <1>10 DEF CountsExact
  <2>3. n_not_alive_disposed' = Count(~Empty' /\ isdisposed')
    BY <1>1, <1>2, <1>6, <1>7, <1>9, <1>10 DEF CountsExact
  <2>4. n_not_alive_no_writers' = Count(~Empty' /\ ~isdisposed' /\ wrcount' = 0)
    BY <1>1, <1>2, <1>6, <1>7, <1>9, <1>10 DEF CountsExact
  <2>5. n_new' = Count(isnew')
    BY <1>1, <1>2 DEF CountsExact
  <2>6. n_vsamples' = Len(samples')
    BY <1>1, <1>2, <1>4 DEF CountsExact
  <2>7. n_invsamples' = Count(inv_exists')
    <3>1. takesInv <=> inv_exists
      BY <1>5 DEF takesInv
    <3> QED
      BY <1>1, <1>2, <1>6, <3>1 DEF CountsExact
  <2> QED
    BY <2>1, <2>2, <2>3, <2>4, <2>5, <2>6, <2>7 DEF CountsExact
<1>15. TriggerExact'
  BY <1>1, <1>2, <1>6 DEF TriggerExact, UpdateConditions
<1>16. NoOrphan'
  <2>1. CASE drops
    BY <1>6, <1>7, <1>8, <1>9, <2>1 DEF NoOrphan
  <2>2. CASE ~drops
    BY <1>3, <1>6, <1>7, <1>9, <2>2 DEF NoOrphan
  <2> QED
    BY <2>1, <2>2
<1> QED
  BY <1>11, <1>12, <1>13, <1>14, <1>15, <1>16 DEF IInv

\* Creating the read condition keeps it.
LEMMA AddReadConditionInv ==
    ASSUME IInv, AddReadCondition
    PROVE  IInv'
<1>1. /\ UNCHANGED <<instVars, wrVars, counters>>
      /\ cond' = TRUE /\ m_trigger' = Count(~Empty)
  BY DEF AddReadCondition
<1>2. Empty' = Empty /\ Registered' = Registered
  BY <1>1 DEF instVars, wrVars, Empty, Registered
<1> QED
  BY <1>1, <1>2 DEF IInv, FieldTypes, RegInv, RegistrationsConsistent, ShapeInv,
     CountsExact, TriggerExact, NoOrphan, instVars, wrVars, counters

\* A step that changes nothing keeps it.
LEMMA StutterInv ==
    ASSUME IInv, UNCHANGED vars
    PROVE  IInv'
<1>1. Empty' = Empty /\ Registered' = Registered
  BY DEF vars, instVars, wrVars, Empty, Registered
<1> QED
  BY <1>1 DEF IInv, FieldTypes, RegInv, RegistrationsConsistent, ShapeInv,
     CountsExact, TriggerExact, NoOrphan, vars, instVars, wrVars, counters, condVars

\* Every operation of dds_rhc_default.c keeps the inductive invariant.
LEMMA NextInv == IInv /\ [Next]_vars => IInv'
BY StoreNewInv, StoreKnownInv, UnregisterWrInv, TakeInv, AddReadConditionInv,
   StutterInv DEF Next, Store

\* The inductive invariant holds after every sequence of operations.
THEOREM SpecInv == Spec => []IInv
BY InitInv, NextInv, PTL DEF Spec

\* Every field keeps its type and the history its bound, whatever the writers
\* and the application do.
THEOREM CacheTypeOK == Spec => []TypeOK
BY SpecInv, IInvTypes, PTL

\* The cached writer, the explicit registrations and wrcount always agree.
THEOREM CacheRegistrations == Spec => []RegistrationsConsistent
<1>1. IInv => RegistrationsConsistent
  BY DEF IInv, RegInv
<1> QED
  BY <1>1, SpecInv, PTL

\* The recount that rhc_check_counts_locked makes in a debug build would
\* succeed after every operation of a release build.
THEOREM CacheCounts == Spec => []CountsExact
<1>1. IInv => CountsExact
  BY DEF IInv
<1> QED
  BY <1>1, SpecInv, PTL

\* A condition triggers exactly when there is something to take.
THEOREM CacheTrigger == Spec => []TriggerExact
<1>1. IInv => TriggerExact
  BY DEF IInv
<1> QED
  BY <1>1, SpecInv, PTL

\* Instances neither leak nor go too early.
THEOREM CacheNoOrphan == Spec => []NoOrphan
<1>1. IInv => NoOrphan
  BY DEF IInv
<1> QED
  BY <1>1, SpecInv, PTL

--------------------------------------------------------------------------------
(* The cache implements SampleCache.                                         *)

\* Storing is Put of SampleCache.
LEMMA StoreRefines ==
    ASSUME IInv, NEW w \in Writers, NEW v \in Values, Store(w, v)
    PROVE  SC!Put(w, v)
<1>1. /\ FieldTypes /\ RegInv /\ ShapeInv /\ NoOrphan
      /\ Depth \in Nat \ {0}
  BY ConstantsAssumption DEF IInv
<1>2. CASE StoreNew(w, v)
  <2>1. /\ samples = <<>> /\ wrcount = 0 /\ registrations = {}
        /\ samples' = <<v>> /\ inv_exists' = FALSE
        /\ wrcount' = 1 /\ wr_iid' = w /\ wr_iid_islive' = TRUE
    BY <1>1, <1>2 DEF StoreNew, NoOrphan, Empty
  <2>2. Registered = {} /\ Registered' = {w}
    BY <2>1 DEF Registered
  <2>3. SC!Push(samples, v) = samples'
    BY <1>1, <2>1, EmptySeq DEF SC!Push
  <2> QED
    BY <2>1, <2>2, <2>3 DEF SC!Put
<1>3. CASE StoreKnown(w, v)
  <2>1. samples' = Push(v) /\ inv_exists' = FALSE /\ Register(w)
    BY <1>3 DEF StoreKnown
  <2>2. Registered' = Registered \cup {w}
    BY <1>1, <2>1, RegisterFacts
  <2> QED
    BY <2>1, <2>2 DEF SC!Put, SC!Push, Push
<1> QED
  BY <1>2, <1>3 DEF Store

\* Unregistering a writer is WriterLost of SampleCache.
LEMMA UnregisterRefines ==
    ASSUME IInv, NEW w \in Writers, UnregisterWr(w)
    PROVE  SC!WriterLost(w)
<1>1. /\ FieldTypes /\ RegInv /\ ShapeInv
      /\ DeleteRegistration(w)
  BY DEF IInv, UnregisterWr
<1>2. CASE UnregisterOneOfMany(w)
  <2>1. /\ w \in Registered /\ Registered' = Registered \ {w} /\ Registered' # {}
    BY <1>1, <1>2, UnregisterManyFacts
  <2>2. /\ wrcount > 1 /\ samples' = samples /\ inv_exists' = inv_exists
    BY <1>2 DEF UnregisterOneOfMany, instVars
  <2>3. inv_exists' = FALSE
    BY <1>1, <2>2 DEF ShapeInv, FieldTypes
  <2> QED
    BY <2>1, <2>2, <2>3 DEF SC!WriterLost
<1>3. CASE UnregisterLast(w)
  <2>1. w \in Registered /\ Registered' = {} /\ Registered' = Registered \ {w}
    BY <1>1, <1>3, UnregisterLastFacts
  <2>2. /\ samples' = samples /\ wrcount = 1
        /\ inv_exists' = (inv_exists \/ samples = <<>>)
    BY <1>3 DEF UnregisterLast
  <2>3. ~inv_exists
    BY <1>1, <2>2 DEF ShapeInv
  <2>4. inv_exists' = (Registered' = {} /\ samples = <<>>)
    BY <2>1, <2>2, <2>3
  <2> QED
    BY <2>1, <2>2, <2>4 DEF SC!WriterLost
<1> QED
  BY <1>2, <1>3 DEF UnregisterWr

\* A take is Take of SampleCache.
LEMMA TakeRefines ==
    ASSUME IInv, Take
    PROVE  SC!Take
<1>1. /\ FieldTypes /\ RegInv /\ ShapeInv /\ MaxSamples \in Nat \ {0}
  BY ConstantsAssumption DEF IInv
<1>2. /\ ~Empty /\ samples' = Rest
      /\ inv_exists' = (inv_exists /\ ~(inv_exists /\ Len(samples) < MaxSamples))
      /\ wrcount' = wrcount /\ wr_iid_islive' = wr_iid_islive
      /\ registrations' = registrations
      /\ wrcount = 0 \/ wr_iid' = wr_iid
  BY DEF Take, DropInstance, wrVars
<1>3. inv_exists => Len(samples) < MaxSamples
  BY <1>1, EmptySeq DEF ShapeInv
<1>4. inv_exists' = FALSE
  BY <1>2, <1>3
<1>5. Registered' = Registered
  <2>1. CASE wrcount = 1
    BY <1>2, <2>1 DEF Registered
  <2>2. CASE wrcount # 1
    BY <1>2, <2>2 DEF Registered
  <2> QED
    BY <2>1, <2>2
<1> QED
  BY <1>2, <1>4, <1>5 DEF SC!Take, SC!Drop, Rest, Empty

\* Each operation of the cache is the operation of the keep-last cache of the
\* same name, with the writers it holds in two places read as one set.
THEOREM CacheImplements == Spec => Implements
<1>1. Init => SC!Init
  BY DEF Init, SC!Init, Registered
<1>2. ASSUME IInv, [Next]_vars
      PROVE  [SC!Next]_(SC!vars)
  <2>1. CASE \E w \in Writers, v \in Values : Store(w, v)
    BY <1>2, <2>1, StoreRefines DEF SC!Next
  <2>2. CASE \E w \in Writers : UnregisterWr(w)
    BY <1>2, <2>2, UnregisterRefines DEF SC!Next
  <2>3. CASE Take
    BY <1>2, <2>3, TakeRefines DEF SC!Next
  <2>4. CASE AddReadCondition
    BY <2>4 DEF AddReadCondition, instVars, wrVars, SC!vars, Registered
  <2>5. CASE UNCHANGED vars
    BY <2>5 DEF vars, instVars, wrVars, SC!vars, Registered
  <2> QED
    BY <1>2, <2>1, <2>2, <2>3, <2>4, <2>5 DEF Next
<1> QED
  BY <1>1, <1>2, SpecInv, PTL DEF Spec, SC!Spec, Implements
================================================================================
