------------------------ MODULE DecisionEngineProofs ------------------------
(***************************************************************************)
(* What holds of the evaluations of the decision engine for all packs,     *)
(* callers, requests, quotas and minutes, while models come and go, and    *)
(* of the tools that drive it for all processes, jobs and assignments.     *)
(*                                                                         *)
(* First the engine alone: its invariant and its types.  Then the tools:   *)
(* the types of everything, from what is said of one tool at a time; the   *)
(* networks that they start and stop; what their reports are worth; and    *)
(* the workflow of local_integration.                                      *)
(***************************************************************************)
EXTENDS Harness, ModelLifecycleProofs, FiniteSetTheorems

\* The counters of a quota: what a caller has used is a bound of what was computed for it.
QuotaInv ==
    /\ DOMAIN callers \subseteq Caller /\ spent \in [Caller -> Nat]
    /\ \A c \in DOMAIN callers :
         /\ callers[c].epoch \in Nat /\ callers[c].used \in Nat /\ callers[c].max \in Nat
         /\ callers[c] = [epoch |-> callers[c].epoch, used |-> callers[c].used, max |-> callers[c].max]
         /\ callers[c].used <= callers[c].max
         /\ spent[c] <= Used(callers[c])

\* What was computed is cached, and was computed once.
CacheInv ==
    /\ DOMAIN runs \subseteq DOMAIN cache /\ \A k \in DOMAIN runs : runs[k] = 1
    /\ \A k \in DOMAIN cache :
         cache[k].result.ok =>
           /\ cache[k].result.request = cache[k].request
           /\ cache[k].result.by = cache[k].request.model
           /\ cache[k].result.by \in Pack => cache[k].result.qtype = Qtype[cache[k].result.by]

\* The part of ReceiptsAreFresh that evaluations answer for.
ReceiptsInTime ==
    reply # None /\ reply.result.ok =>
      /\ reply.result.by = activeModel /\ Backend = activeModel
      /\ clock < reply.request.expires
      /\ reply.request.calibration # None => clock < Calibrated[reply.request.calibration].expires

EngineInv ==
    clock \in Nat /\ QuotaInv /\ CacheInv /\ ReceiptsFitRequests /\ ReceiptsInTime
-----------------------------------------------------------------------------
\* A new engine has no callers, no cache and no receipt.
LEMMA EngineInitHolds == EngineInit => EngineInv
  BY DEF EngineInit, CoreInit, EngineInv, QuotaInv, CacheInv, ReceiptsFitRequests, ReceiptsInTime, EmptyMap

\* A step that sends no receipt and computes nothing.
LEMMA QuietKeeps ==
    ASSUME EngineInv, reply' = None, UNCHANGED <<cache, clock, runs, callers, spent>>
    PROVE  EngineInv'
  BY DEF EngineInv, QuotaInv, CacheInv, ReceiptsFitRequests, ReceiptsInTime, Used

\* allow_caller starts a quota anew and leaves what was cached and handed out.
LEMMA AllowKeeps ==
    ASSUME EngineInv, NEW c \in Caller, NEW max \in PerMinute, AllowCaller(c, max)
    PROVE  EngineInv'
  <1>1. CacheInv' /\ clock' \in Nat /\ ReceiptsFitRequests' /\ ReceiptsInTime'
    BY DEF AllowCaller, EngineInv, CacheInv, ReceiptsFitRequests, ReceiptsInTime
  <1>2. QuotaInv'
    <2>1. max \in Nat  BY EvaluationAssumption
    <2>2. DOMAIN callers' = DOMAIN callers \cup {c} /\ spent' \in [Caller -> Nat]
      BY DEF AllowCaller, Put, EngineInv, QuotaInv
    <2>3. ASSUME NEW k \in DOMAIN callers', k # c
          PROVE  k \in DOMAIN callers /\ callers'[k] = callers[k] /\ spent'[k] = spent[k] /\ k \in Caller
      BY <2>2, <2>3 DEF AllowCaller, Put, EngineInv, QuotaInv
    <2>4. callers'[c] = [epoch |-> 0, used |-> 0, max |-> max] /\ spent'[c] = 0
      BY DEF AllowCaller, Put, EngineInv, QuotaInv
    <2>5. Used(callers[c])' = Used(callers'[c])
      BY DEF AllowCaller, Used
    <2>6. Used(callers'[c]) = 0
      BY <2>4 DEF Used
    <2>7. ASSUME NEW k \in DOMAIN callers'
          PROVE  /\ callers'[k].epoch \in Nat /\ callers'[k].used \in Nat /\ callers'[k].max \in Nat
                 /\ callers'[k] = [epoch |-> callers'[k].epoch, used |-> callers'[k].used, max |-> callers'[k].max]
                 /\ callers'[k].used <= callers'[k].max
                 /\ spent'[k] <= Used(callers[k])'
      <3>1. CASE k = c
        BY <2>1, <2>4, <2>5, <2>6, <3>1
      <3>2. CASE k # c
        BY <2>3, <3>2 DEF AllowCaller, EngineInv, QuotaInv, Used
      <3> QED  BY <3>1, <3>2
    <2> QED
      BY <2>2, <2>7, EngineInv DEF QuotaInv, EngineInv
  <1> QED  BY <1>1, <1>2 DEF EngineInv

\* Within a minute nothing changes; in another, the counters of both sides begin again.
LEMMA TickKeeps ==
    ASSUME EngineInv, Tick
    PROVE  EngineInv'
  <1>. USE EvaluationAssumption
  <1>1. clock' = clock + 1 /\ clock \in Nat /\ clock' \in Nat /\ Minute \in Nat \ {0}
    BY DEF Tick, EngineInv
  <1>2. CacheInv' /\ ReceiptsFitRequests' /\ ReceiptsInTime'
    BY DEF Tick, core, EngineInv, CacheInv, ReceiptsFitRequests, ReceiptsInTime
  <1>3. QuotaInv'
    <2>1. callers' = callers /\ spent' \in [Caller -> Nat]
      BY DEF Tick, core, EngineInv, QuotaInv
    <2>2. ASSUME NEW c \in DOMAIN callers PROVE spent'[c] <= Used(callers[c])'
      <3>1. CASE clock' \div Minute = clock \div Minute
        BY <2>1, <3>1 DEF Tick, EngineInv, QuotaInv, Used
      <3>2. CASE clock' \div Minute # clock \div Minute
        <4>1. spent'[c] = 0
          BY <3>2 DEF Tick, EngineInv, QuotaInv
        <4>2. Used(callers[c])' \in Nat
          BY <2>1 DEF EngineInv, QuotaInv, Used
        <4> QED  BY <4>1, <4>2
      <3> QED  BY <3>1, <3>2
    <2> QED  BY <2>1, <2>2 DEF EngineInv, QuotaInv
  <1> QED  BY <1>1, <1>2, <1>3 DEF EngineInv

\* An inference that is admitted is that of the active pack, which the request names.
LEMMA ComputedFits ==
    ASSUME NEW c, NEW q, Admissible(c, q)
    PROVE  /\ Computed(q).request = q /\ Computed(q).by = q.model
           /\ Computed(q).by \in Pack => Computed(q).qtype = Qtype[Computed(q).by]
           /\ q.model = activeModel /\ Backend = activeModel /\ clock < q.expires
           /\ q.calibration # None => clock < Calibrated[q.calibration].expires
  <1>1. Backend = q.model /\ q.model = activeModel /\ MappingHolds(q.key)
    BY DEF Admissible
  <1>2. ~fixture => schemas[q.key] = Qtype[activeModel]
    BY <1>1 DEF MappingHolds
  <1>3. fixture => q.model = Synthetic
    BY <1>1 DEF Backend
  <1>4. Computed(q).by = q.model /\ Computed(q).request = q /\ Computed(q).qtype = schemas[q.key]
    BY <1>1 DEF Computed
  <1>5. Computed(q).by \in Pack => ~fixture
    BY <1>3, <1>4, EvaluationAssumption
  <1>6. clock < q.expires /\ (q.calibration # None => clock < Calibrated[q.calibration].expires)
    BY EvaluationAssumption DEF Admissible
  <1> QED  BY <1>1, <1>2, <1>4, <1>5, <1>6

\* A receipt from the cache is one for the same request, found before any quota is charged.
LEMMA ReplayKeeps ==
    ASSUME EngineInv, NEW c \in Caller, NEW q, Admissible(c, q), Replay(c, q), UNCHANGED <<lifecycle, clock>>
    PROVE  EngineInv'
  <1>1. UNCHANGED <<schemas, calibrations, callers, cache, spent, runs, clock, fixture, model, activeModel>>
    BY DEF Replay, core, lifecycle, stable, heap
  <1>2. QuotaInv' /\ CacheInv' /\ clock' \in Nat
    BY <1>1 DEF EngineInv, QuotaInv, CacheInv, Used
  <1>3. /\ reply' = [caller |-> c, request |-> q, result |-> cache[<<c, q.id>>].result]
        /\ <<c, q.id>> \in DOMAIN cache /\ cache[<<c, q.id>>].request = q
    BY DEF Replay
  <1>4. ASSUME reply'.result.ok
        PROVE  /\ reply'.result.request = q /\ reply'.result.by = q.model
               /\ reply'.result.by \in Pack => reply'.result.qtype = Qtype[reply'.result.by]
    BY <1>3, <1>4 DEF EngineInv, CacheInv
  <1>5. Backend' = Backend
    BY <1>1 DEF Backend
  <1>6. ReceiptsFitRequests'
    BY <1>3, <1>4 DEF ReceiptsFitRequests
  <1>7. ReceiptsInTime'
    BY <1>1, <1>3, <1>4, <1>5, ComputedFits DEF ReceiptsInTime
  <1> QED  BY <1>2, <1>6, <1>7 DEF EngineInv

\* A computed result enters the cache under an id that had none, and is charged to its minute.
LEMMA ComputeKeeps ==
    ASSUME EngineInv, NEW c \in Caller, NEW q, NEW result, Admissible(c, q), Compute(c, q, result),
           UNCHANGED <<lifecycle, clock>>,
           \/ result = Computed(q)
           \/ result = Failed
    PROVE  EngineInv'
  <1>. DEFINE id == <<c, q.id>>
  <1>. USE EvaluationAssumption
  <1>1. UNCHANGED <<schemas, calibrations, clock, fixture, model, activeModel>>
    BY DEF Compute, lifecycle, stable, heap
  <1>2. /\ id \notin DOMAIN cache /\ id \notin DOMAIN runs
        /\ reply' = [caller |-> c, request |-> q, result |-> result]
        /\ cache' = Put(cache, id, [request |-> q, result |-> result])
        /\ runs' = Put(runs, id, 1)
    BY DEF Compute, EngineInv, CacheInv
  <1>3. result.ok =>
          /\ result.request = q /\ result.by = q.model
          /\ result.by \in Pack => result.qtype = Qtype[result.by]
    BY ComputedFits DEF Failed
  <1>4. CacheInv'
    <2>1. DOMAIN cache' = DOMAIN cache \cup {id} /\ DOMAIN runs' = DOMAIN runs \cup {id}
      BY <1>2 DEF Put
    <2>2. cache'[id] = [request |-> q, result |-> result] /\ runs'[id] = 1
      BY <1>2 DEF Put
    <2>3. /\ \A k \in DOMAIN cache : cache'[k] = cache[k]
          /\ \A k \in DOMAIN runs : runs'[k] = runs[k]
      BY <1>2 DEF Put
    <2>. HIDE DEF id
    <2> QED  BY <1>3, <2>1, <2>2, <2>3 DEF EngineInv, CacheInv
  <1>5. QuotaInv'
    <2>1. /\ c \in DOMAIN callers /\ spent' = [spent EXCEPT ![c] = @ + 1]
          /\ callers' = [callers EXCEPT ![c] = Charged(callers[c])]
          /\ Used(callers[c]) < callers[c].max
      BY DEF Compute, Admissible
    <2>2. Used(callers[c]) \in Nat /\ clock \div Minute \in Nat
      <3>1. callers[c].used \in Nat
        BY <2>1 DEF EngineInv, QuotaInv
      <3>2. clock \in Nat /\ Minute \in Nat \ {0}
        BY DEF EngineInv
      <3>3. clock \div Minute \in Nat
        BY <3>2
      <3> QED  BY <3>1, <3>3 DEF Used
    <2>3. callers'[c] = [epoch |-> clock \div Minute, used |-> Used(callers[c]) + 1,
                         max |-> callers[c].max]
      BY <2>1 DEF Charged
    <2>4. Used(callers[c])' = Used(callers[c]) + 1
      BY <1>1, <2>3 DEF Used
    <2>5. spent'[c] = spent[c] + 1 /\ spent' \in [Caller -> Nat] /\ spent[c] \in Nat
      BY <2>1 DEF EngineInv, QuotaInv
    <2>6. ASSUME NEW k \in DOMAIN callers', k # c
          PROVE  k \in DOMAIN callers /\ callers'[k] = callers[k] /\ spent'[k] = spent[k]
                 /\ Used(callers[k])' = Used(callers[k])
      BY <1>1, <2>1, <2>6 DEF EngineInv, QuotaInv, Used
    <2>7. ASSUME NEW k \in DOMAIN callers'
          PROVE  /\ callers'[k].epoch \in Nat /\ callers'[k].used \in Nat /\ callers'[k].max \in Nat
                 /\ callers'[k] = [epoch |-> callers'[k].epoch, used |-> callers'[k].used, max |-> callers'[k].max]
                 /\ callers'[k].used <= callers'[k].max
                 /\ spent'[k] <= Used(callers[k])'
      <3>1. CASE k = c
        BY <2>1, <2>2, <2>3, <2>4, <2>5, <3>1 DEF EngineInv, QuotaInv
      <3>2. CASE k # c
        BY <2>6, <3>2 DEF EngineInv, QuotaInv
      <3> QED  BY <3>1, <3>2
    <2>8. DOMAIN callers' \subseteq Caller
      BY <2>1 DEF EngineInv, QuotaInv
    <2> QED  BY <2>5, <2>7, <2>8 DEF QuotaInv
  <1>6. ReceiptsFitRequests'
    BY <1>2, <1>3 DEF ReceiptsFitRequests
  <1>7. ReceiptsInTime'
    <2>1. Backend' = Backend
      BY <1>1 DEF Backend
    <2> QED  BY <1>1, <1>2, <1>3, <2>1, ComputedFits DEF ReceiptsInTime
  <1> QED  BY <1>1, <1>4, <1>5, <1>6, <1>7 DEF EngineInv

\* Every step keeps the invariant.
LEMMA EngineStepHolds == EngineInv /\ [EngineNext]_engineVars => EngineInv'
  <1> SUFFICES ASSUME EngineInv, [EngineNext]_engineVars PROVE EngineInv'
    OBVIOUS
  <1>1. CASE Tick  BY <1>1, TickKeeps
  <1>2. CASE ModelStep
    BY <1>2, QuietKeeps DEF ModelStep, Quiet, core
  <1>3. ASSUME NEW c \in Caller, NEW max \in PerMinute, AllowCaller(c, max) PROVE EngineInv'
    BY <1>3, AllowKeeps
  <1>4. ASSUME NEW s \in Schema, NEW qtype, RegisterSchema(s, qtype) PROVE EngineInv'
    BY <1>4, QuietKeeps DEF RegisterSchema, Quiet
  <1>5. ASSUME NEW k \in Calibration, RegisterCalibration(k) PROVE EngineInv'
    BY <1>5, QuietKeeps DEF RegisterCalibration, Quiet
  <1>6. ASSUME NEW c \in Caller, NEW q \in Request, Evaluate(c, q) PROVE EngineInv'
    BY <1>6, ReplayKeeps, ComputeKeeps DEF Evaluate
  <1>7. CASE UNCHANGED engineVars
    BY <1>7 DEF engineVars, lifecycle, stable, heap, core, observed, EngineInv, QuotaInv, CacheInv,
                ReceiptsFitRequests, ReceiptsInTime, Used, Backend
  <1> QED
    BY <1>1, <1>2, <1>3, <1>4, <1>5, <1>6, <1>7 DEF EngineNext

\* The invariant holds throughout.
LEMMA EngineInvariant == EngineSpec => []EngineInv
  <1> QED  BY EngineInitHolds, EngineStepHolds, PTL DEF EngineSpec
-----------------------------------------------------------------------------
\* Cached or computed, a receipt is that of its request, its pack and its qtype: the id alone
\* does not bring back a result (engine.rs:59, lib.rs:35).
THEOREM ReceiptsFit == EngineSpec => []ReceiptsFitRequests
  <1>1. EngineInv => ReceiptsFitRequests  BY DEF EngineInv
  <1> QED  BY <1>1, EngineInvariant, PTL

\* A failure is cached like a success: no id is computed twice.
THEOREM OneInference == EngineSpec => []OneInferencePerId
  <1>1. EngineInv => OneInferencePerId  BY DEF EngineInv, CacheInv, OneInferencePerId
  <1> QED  BY <1>1, EngineInvariant, PTL

\* The quota is that of each minute, at its boundaries too, and survives no new grant.
THEOREM Quota == EngineSpec => []QuotaHolds
  <1>1. EngineInv => QuotaHolds
    <2> SUFFICES ASSUME EngineInv, NEW c \in DOMAIN callers PROVE spent[c] <= callers[c].max
      BY DEF QuotaHolds
    <2>1. Used(callers[c]) <= callers[c].max /\ Used(callers[c]) \in Nat
      BY DEF Used, EngineInv, QuotaInv
    <2> QED  BY <2>1 DEF EngineInv, QuotaInv
  <1> QED  BY <1>1, EngineInvariant, PTL

\* Evaluations leave the model alone: the engine implements the life cycle of its models.
THEOREM EngineImplementsLifecycle == EngineSpec => LifecycleSpec
  <1>1. EngineInit => LifecycleInit  BY DEF EngineInit
  <1>2. [EngineNext]_engineVars => [LifecycleNext]_lifecycle
    BY DEF EngineNext, engineVars, Tick, ModelStep, AllowCaller, RegisterSchema, RegisterCalibration, Evaluate
  <1> QED  BY <1>1, <1>2, PTL DEF EngineSpec, LifecycleSpec

\* No receipt is sent once its pack was replaced or its calibration has expired, although the
\* cache still holds it (engine.rs:50-56 come before the cache), nor while the model in memory
\* has a tensor of another pack (lib.rs:216).
THEOREM ReceiptsFresh == EngineSpec => []ReceiptsAreFresh
  <1>1. EngineInv /\ ModelIsIntact => ReceiptsAreFresh
    BY DEF EngineInv, ReceiptsInTime, ReceiptsAreFresh
  <1> QED  BY <1>1, EngineInvariant, EngineImplementsLifecycle, ModelIntact, PTL
-----------------------------------------------------------------------------
\* The maps of the engine have their types, and the cache its limit.
CoreTypes ==
    /\ IsMap(schemas, Key, Nat) /\ calibrations \subseteq Calibration
    /\ IsMap(callers, Caller, [epoch : Nat, used : Nat, max : PerMinute])
    /\ IsMap(cache, Caller \X EvaluationId, [request : Request, result : Receipts \cup {Failed}])
    /\ IsFiniteSet(DOMAIN cache) /\ Cardinality(DOMAIN cache) <= MaxCached
    /\ clock \in 0..MaxTime

\* An entry with a key and a value of the right types leaves a map a map.
LEMMA PutIsMap ==
    ASSUME NEW K, NEW V, NEW f, IsMap(f, K, V), NEW k \in K, NEW v \in V
    PROVE  IsMap(Put(f, k, v), K, V) /\ DOMAIN Put(f, k, v) = DOMAIN f \cup {k}
  BY DEF IsMap, Put

\* A new engine has no entries.
LEMMA CoreInitTypes ==
    ASSUME schemas = EmptyMap, calibrations = {}, callers = EmptyMap, cache = EmptyMap, clock \in 0..MaxTime
    PROVE  CoreTypes
  <1>1. DOMAIN EmptyMap = {}
    BY DEF EmptyMap
  <1>2. \A K, V : IsMap(EmptyMap, K, V)
    BY <1>1 DEF IsMap, EmptyMap
  <1>3. IsFiniteSet({}) /\ Cardinality({}) = 0 /\ MaxCached \in Nat
    BY FS_EmptySet, EvaluationAssumption
  <1> QED  BY <1>1, <1>2, <1>3 DEF CoreTypes

\* A step that leaves the maps alone.
LEMMA CoreKept ==
    ASSUME CoreTypes, UNCHANGED <<core, clock>>
    PROVE  CoreTypes'
  BY DEF CoreTypes, core

\* allow_caller adds a quota that begins anew.
LEMMA AllowTypes ==
    ASSUME CoreTypes, NEW c \in Caller, NEW max \in PerMinute, AllowCaller(c, max)
    PROVE  CoreTypes'
  <1> DEFINE quota == [epoch |-> 0, used |-> 0, max |-> max]
  <1>1. quota \in [epoch : Nat, used : Nat, max : PerMinute]
    OBVIOUS
  <1> HIDE DEF quota
  <1>2. callers' = Put(callers, c, quota) /\ UNCHANGED <<schemas, calibrations, cache, clock>>
    BY DEF AllowCaller, quota
  <1>3. IsMap(callers', Caller, [epoch : Nat, used : Nat, max : PerMinute])
    BY <1>1, <1>2, PutIsMap DEF CoreTypes
  <1> QED  BY <1>2, <1>3 DEF CoreTypes

\* register_schema compiles with the tokenizer in use, and keeps the number of its pack.
LEMMA SchemaTypes ==
    ASSUME CoreTypes, LifecycleTypeOK, NEW s \in Schema, NEW p \in Pack, RegisterSchema(s, Qtype[p])
    PROVE  CoreTypes'
  <1> DEFINE key == [schema |-> s, tokenizer |-> TokenizerInUse]
  <1>1. TokenizerInUse \in Cell \cup {FixtureCell}
    BY DEF RegisterSchema, TokenizerInUse, LifecycleTypeOK
  <1>2. key \in Key /\ Qtype[p] \in Nat
    BY <1>1, EvaluationAssumption DEF Key
  <1>3. schemas' = Put(schemas, key, Qtype[p]) /\ UNCHANGED <<calibrations, callers, cache, clock>>
    BY DEF RegisterSchema
  <1> HIDE DEF key
  <1>4. IsMap(schemas', Key, Nat)
    BY <1>2, <1>3, PutIsMap DEF CoreTypes
  <1> QED  BY <1>3, <1>4 DEF CoreTypes

\* What a request buys: an admitted one is computed by a backend, with a number of its schema.
LEMMA ComputedTypes ==
    ASSUME CoreTypes, NEW c, NEW q \in Request, Admissible(c, q)
    PROVE  Computed(q) \in Receipts
  <1>1. Backend = q.model /\ q.key \in DOMAIN schemas
    BY DEF Admissible, MappingHolds
  <1>2. q.model \in Pack \cup {Synthetic}
    BY EvaluationAssumption
  <1>3. schemas[q.key] \in Nat
    BY <1>1 DEF CoreTypes, IsMap
  <1> QED  BY <1>1, <1>2, <1>3 DEF Computed, Receipts

\* A computed result is one more entry of the cache, which was not full.
LEMMA ComputeTypes ==
    ASSUME CoreTypes, NEW c \in Caller, NEW q \in Request, Admissible(c, q), UNCHANGED clock,
           NEW result \in Receipts \cup {Failed}, Compute(c, q, result)
    PROVE  CoreTypes'
  <1> DEFINE id == <<c, q.id>>
             entry == [request |-> q, result |-> result]
             Ids == Caller \X EvaluationId
             Entries == [request : Request, result : Receipts \cup {Failed}]
  <1>1. id \in Ids
    BY EvaluationAssumption
  <1>2. entry \in Entries
    OBVIOUS
  <1>3. /\ id \notin DOMAIN cache /\ Cardinality(DOMAIN cache) < MaxCached
        /\ cache' = Put(cache, id, entry) /\ UNCHANGED <<schemas, calibrations, clock>>
        /\ callers' = [callers EXCEPT ![c] = Charged(callers[c])] /\ c \in DOMAIN callers
    BY DEF Compute, Admissible
  <1>4. IsMap(cache, Ids, Entries)
    BY DEF CoreTypes
  <1> HIDE DEF id, entry, Ids, Entries
  <1>5. IsMap(Put(cache, id, entry), Ids, Entries) /\ DOMAIN Put(cache, id, entry) = DOMAIN cache \cup {id}
    BY <1>1, <1>2, <1>4 DEF IsMap, Put
  <1>6. IsMap(cache', Ids, Entries) /\ DOMAIN cache' = DOMAIN cache \cup {id}
    BY <1>3, <1>5
  <1>7. IsFiniteSet(DOMAIN cache') /\ Cardinality(DOMAIN cache') = Cardinality(DOMAIN cache) + 1
    BY <1>3, <1>6, FS_AddElement DEF CoreTypes
  <1>8. Cardinality(DOMAIN cache) \in Nat /\ MaxCached \in Nat
    BY FS_CardinalityType, EvaluationAssumption DEF CoreTypes
  <1>9. callers[c] \in [epoch : Nat, used : Nat, max : PerMinute]
    BY <1>3 DEF CoreTypes, IsMap
  <1>10. clock \div Minute \in Nat
    <2>1. clock \in Nat /\ Minute \in Nat \ {0}
      BY EvaluationAssumption DEF CoreTypes
    <2> QED  BY <2>1
  <1>11. Charged(callers[c]) \in [epoch : Nat, used : Nat, max : PerMinute]
    BY <1>9, <1>10 DEF Charged, Used
  <1>12. IsMap(callers', Caller, [epoch : Nat, used : Nat, max : PerMinute])
    BY <1>3, <1>11 DEF CoreTypes, IsMap
  <1> QED  BY <1>3, <1>6, <1>7, <1>8, <1>12 DEF CoreTypes, Ids, Entries

\* evaluate() adds at most one entry.
LEMMA EvaluateTypes ==
    ASSUME CoreTypes, NEW c \in Caller, NEW q \in Request, Evaluate(c, q)
    PROVE  CoreTypes'
  <1>1. Admissible(c, q) /\ UNCHANGED clock
    BY DEF Evaluate
  <1>2. CASE Replay(c, q)
    BY <1>1, <1>2, CoreKept DEF Replay
  <1>3. CASE Compute(c, q, Computed(q))
    BY <1>1, <1>3, ComputedTypes, ComputeTypes
  <1>4. CASE Compute(c, q, Failed)
    BY <1>1, <1>4, ComputeTypes
  <1> QED  BY <1>2, <1>3, <1>4 DEF Evaluate

\* Every step keeps the types.
LEMMA CoreStepTypes == CoreTypes /\ LifecycleTypeOK /\ [EngineNext]_engineVars => CoreTypes'
  <1> SUFFICES ASSUME CoreTypes, LifecycleTypeOK, [EngineNext]_engineVars PROVE CoreTypes'
    OBVIOUS
  <1>1. CASE Tick
    <2>1. clock' \in 0..MaxTime /\ UNCHANGED core
      BY <1>1, EvaluationAssumption DEF Tick, CoreTypes
    <2> QED  BY <2>1 DEF CoreTypes, core
  <1>2. CASE ModelStep
    BY <1>2, CoreKept DEF ModelStep
  <1>3. ASSUME NEW c \in Caller, NEW max \in PerMinute, AllowCaller(c, max) PROVE CoreTypes'
    BY <1>3, AllowTypes
  <1>4. ASSUME NEW s \in Schema, NEW p \in Pack, RegisterSchema(s, Qtype[p]) PROVE CoreTypes'
    BY <1>4, SchemaTypes
  <1>5. ASSUME NEW k \in Calibration, RegisterCalibration(k) PROVE CoreTypes'
    BY <1>5 DEF RegisterCalibration, CoreTypes
  <1>6. ASSUME NEW c \in Caller, NEW q \in Request, Evaluate(c, q) PROVE CoreTypes'
    BY <1>6, EvaluateTypes
  <1>7. CASE UNCHANGED engineVars
    BY <1>7, CoreKept DEF engineVars
  <1> QED
    BY <1>1, <1>2, <1>3, <1>4, <1>5, <1>6, <1>7 DEF EngineNext

\* The types of the engine and of its model are those of its parts.
LEMMA EngineTypes == LifecycleTypeOK /\ CoreTypes => EngineTypeOK
  BY DEF CoreTypes, EngineTypeOK

\* The maps of the engine keep their types, and the cache never exceeds its limit: evaluate()
\* refuses when it is full (engine.rs:60).
THEOREM EngineTypeCorrect == EngineSpec => []EngineTypeOK
  <1>1. EngineInit => CoreTypes
    <2>1. EngineInit => clock \in 0..MaxTime
      BY EvaluationAssumption DEF EngineInit
    <2> QED  BY <2>1, CoreInitTypes DEF EngineInit, CoreInit
  <1>2. LifecycleInv => LifecycleTypeOK
    BY DEF LifecycleInv
  <1> QED
    BY <1>1, <1>2, CoreStepTypes, EngineTypes, EngineImplementsLifecycle, LifecycleInvariant, PTL
    DEF EngineSpec
-----------------------------------------------------------------------------
\* The places and the records of the tools, apart from what the engine, the network and the
\* payments are.
Bundles == Pack \cup {Synthetic, NoBundle, None}
Tools == [at : Places, here : BOOLEAN, tier : Nat \ {0}, count : Nat, asked : Nat, by : Bundles,
          before : Bundles, results : Seq([pack : Bundles, by : Bundles]),
          passed : BOOLEAN, left : BOOLEAN]

\* The places that a tool of each kind comes to.
Loading == {"upload", "chunk", "warm", "warming"}
InferPlaces == {"begin", "look", "provision", "install", "read", "infer", "name", "ended"} \cup Loading
IntegratePlaces == {"begin", "look", "start", "port", "provision", "install", "admit",
                    "schemas", "calibrate", "stopping", "ended"} \cup InWorkflow
Early == {"begin", "look", "start", "provision", "install", "admit"}
MeasurePlaces == Early \cup InTier \cup {"report", "stopping", "ended"}

InferLocal(j, x) ==
    j.kind = "infer" =>
      /\ x.at \in InferPlaces /\ x.tier = 1 /\ ~x.here
      /\ x.at \in Loading => j.packs # <<>>

IntegrateLocal(j, x) ==
    j.kind = "integrate" =>
      /\ x.at \in IntegratePlaces /\ x.tier = 1 /\ x.results = <<>>
      /\ x.at \in {"submit", "advance", "dispatch"} => x.count \in {0, 1}
      /\ x.at = "retry" => x.count = 0
      /\ x.at = "guard" => x.count = 1

\* The records are those of the tiers that are over.
MeasureLocal(j, x) ==
    j.kind \in {"measure", "phases"} =>
      /\ x.at \in MeasurePlaces /\ x.tier <= Len(j.packs) + 1
      /\ x.at \in Early => x.tier = 1
      /\ x.at \in InTier => x.tier <= Len(j.packs)
      /\ x.at = "report" \/ x.passed => x.tier = Len(j.packs) + 1
      /\ x.passed => x.at \in {"stopping", "ended"}
      /\ x.at = "probe" => x.by = j.packs[x.tier]
      /\ Len(x.results) = x.tier - 1
      /\ \A i \in 1..(x.tier - 1) :
           x.results[i].pack = j.packs[i] /\ x.results[i].by \in {None, j.packs[i]}

ChunkLocal(j, x) == x.at = "chunk" => x.count < Total(j.packs[x.tier])

Local(j, x) == /\ j \in Jobs /\ x \in Tools /\ InferLocal(j, x) /\ IntegrateLocal(j, x)
               /\ MeasureLocal(j, x) /\ ChunkLocal(j, x)

EngineSide == LifecycleInv /\ EngineInv /\ CoreTypes

\* A request of the workflow, and what its status says of its signals.
Request1 == [status : {"Received", "Evaluating", "NeedsReview", "ReadyToDispatch", "OutcomeUnknown",
                       "Succeeded", "FailedDefinitive"},
             answered : 0..Signals, booked : BOOLEAN]
Counted(r) ==
    /\ r.status \in {"Received", "Evaluating"} => r.answered < Signals
    /\ r.status \in {"ReadyToDispatch", "OutcomeUnknown", "Succeeded", "FailedDefinitive"} =>
         r.answered = Signals
    /\ r.status = "Succeeded" => r.booked
Payments == [controller : Caller \cup {None}, installed : BOOLEAN, requests : Seq(Request1)]

\* What the canisters and the network are.
NetworkSide ==
    /\ network \in [up : BOOLEAN, managed : BOOLEAN, starter : Process \cup {None}]
    /\ canister \in [controller : Caller \cup {None}, installed : BOOLEAN]
    /\ canister.installed => canister.controller # None

PaySide ==
    /\ pay \in Payments /\ Len(pay.requests) <= 2
    /\ pay.controller = None => pay.requests = <<>>
    /\ \A i \in DOMAIN pay.requests : Counted(pay.requests[i])

HarnessTypes ==
    /\ EngineSide /\ NetworkSide /\ PaySide
    /\ job \in Assignment /\ tool \in [Process -> Tools]
    /\ \A t \in Process : Local(job[t], tool[t])
-----------------------------------------------------------------------------
\* A new engine, in the next state.
LEMMA FreshLifecycle == LifecycleInit' => LifecycleInv'
  BY LifecycleInitHolds, PTL

\* A replica that was started, or a canister that was reinstalled, has a new engine.
LEMMA FreshSide ==
    ASSUME EngineSide, FreshEngine
    PROVE  EngineSide'
  <1>1. LifecycleInv'
    BY FreshLifecycle DEF FreshEngine, LifecycleInit
  <1>2. EngineInv'
    BY DEF FreshEngine, EngineSide, EngineInv, QuotaInv, CacheInv, ReceiptsFitRequests, ReceiptsInTime,
           EmptyMap
  <1>3. CoreTypes'
    <2>1. DOMAIN EmptyMap = {} /\ \A K, V : IsMap(EmptyMap, K, V)
      BY DEF IsMap, EmptyMap
    <2>2. IsFiniteSet({}) /\ Cardinality({}) = 0 /\ MaxCached \in Nat
      BY FS_EmptySet, EvaluationAssumption
    <2> QED  BY <2>1, <2>2 DEF FreshEngine, EngineSide, CoreTypes
  <1> QED  BY <1>1, <1>2, <1>3 DEF EngineSide

\* The engine stands still.
LEMMA EngineStays ==
    ASSUME EngineSide, NoEngineStep
    PROVE  EngineSide'
  <1>1. LifecycleInv'
    BY StutterKeeps DEF NoEngineStep, engineVars, EngineSide
  <1>2. EngineInv'
    BY DEF NoEngineStep, engineVars, lifecycle, stable, heap, core, observed, EngineSide, EngineInv, QuotaInv,
           CacheInv, ReceiptsFitRequests, ReceiptsInTime, Used, Backend
  <1>3. CoreTypes'
    BY CoreKept DEF NoEngineStep, engineVars, EngineSide
  <1> QED  BY <1>1, <1>2, <1>3 DEF EngineSide

\* A step of the life cycle of the models.
LEMMA LifecycleSide ==
    ASSUME EngineSide, LifecycleInv', EngineOnly
    PROVE  EngineSide'
  <1>1. EngineInv'
    BY QuietKeeps DEF EngineSide, EngineOnly, Quiet, core
  <1>2. CoreTypes'
    BY CoreKept DEF EngineSide, EngineOnly
  <1> QED  BY <1>1, <1>2 DEF EngineSide

\* Registrations and evaluations leave the model alone.
LEMMA CoreSide ==
    ASSUME EngineSide,
           \/ \E c \in Caller : AllowCaller(c, Granted)
           \/ \E s \in Schema, p \in Pack : RegisterSchema(s, Qtype[p])
           \/ \E k \in Calibration : RegisterCalibration(k)
           \/ \E c \in Caller, q \in Request : Evaluate(c, q)
    PROVE  EngineSide'
  <1>1. Granted \in PerMinute
    BY HarnessAssumption
  <1>2. LifecycleInv'
    BY StutterKeeps DEF EngineSide, AllowCaller, RegisterSchema, RegisterCalibration, Evaluate
  <1>3. LifecycleTypeOK
    BY DEF EngineSide, LifecycleInv
  <1>4. ASSUME NEW c \in Caller, AllowCaller(c, Granted) PROVE EngineInv' /\ CoreTypes'
    BY <1>1, <1>4, AllowKeeps, AllowTypes DEF EngineSide
  <1>5. ASSUME NEW s \in Schema, NEW p \in Pack, RegisterSchema(s, Qtype[p]) PROVE EngineInv' /\ CoreTypes'
    BY <1>3, <1>5, QuietKeeps, SchemaTypes DEF EngineSide, RegisterSchema, Quiet
  <1>6. ASSUME NEW k \in Calibration, RegisterCalibration(k) PROVE EngineInv' /\ CoreTypes'
    <2>1. CoreTypes'
      BY <1>6 DEF RegisterCalibration, CoreTypes, EngineSide
    <2> QED  BY <1>6, <2>1, QuietKeeps DEF EngineSide, RegisterCalibration, Quiet
  <1>7. ASSUME NEW c \in Caller, NEW q \in Request, Evaluate(c, q) PROVE EngineInv' /\ CoreTypes'
    BY <1>7, ReplayKeeps, ComputeKeeps, EvaluateTypes DEF Evaluate, EngineSide
  <1> QED  BY <1>2, <1>4, <1>5, <1>6, <1>7 DEF EngineSide
-----------------------------------------------------------------------------
\* A step of one tool leaves the others where they are.
Steps(t) == /\ job' = job /\ tool' \in [Process -> Tools] /\ Local(job[t], tool'[t])
            /\ \A u \in Process \ {t} : tool'[u] = tool[u]

\* A tool goes to another place.
LEMMA GoesTo ==
    ASSUME tool \in [Process -> Tools], NEW t \in Process, NEW place \in Places, Goes(t, place)
    PROVE  /\ tool' \in [Process -> Tools]
           /\ \A u \in Process \ {t} : tool'[u] = tool[u]
           /\ tool'[t] = [tool[t] EXCEPT !.at = place]
  BY DEF Goes, Tools

\* Where a tool may go that only goes.
MayGo(j, x, place) ==
    /\ place # "chunk"
    /\ j.kind = "infer" => place \in InferPlaces /\ (place \in Loading => j.packs # <<>>)
    /\ j.kind = "integrate" =>
         /\ place \in IntegratePlaces
         /\ place \in {"submit", "advance", "dispatch"} => x.count \in {0, 1}
         /\ place = "retry" => x.count = 0
         /\ place = "guard" => x.count = 1
    /\ j.kind \in {"measure", "phases"} =>
         /\ place \in MeasurePlaces \ {"probe"}
         /\ place \in Early => x.tier = 1
         /\ place \in InTier => x.tier <= Len(j.packs)
         /\ place = "report" => x.tier = Len(j.packs) + 1
         /\ x.passed => place \in {"stopping", "ended"}

\* The same, said of the record of the tool.
LEMMA LocalGoes ==
    ASSUME NEW j, NEW x, Local(j, x), NEW place \in Places,
           MayGo(j, x, place)
    PROVE  Local(j, [x EXCEPT !.at = place])
  <1> DEFINE y == [x EXCEPT !.at = place]
  <1>1. /\ y.at = place /\ y \in Tools /\ y.tier = x.tier /\ y.here = x.here /\ y.results = x.results
        /\ y.count = x.count /\ y.by = x.by /\ y.passed = x.passed
    BY DEF Local, Tools
  <1> HIDE DEF y
  <1>2. InferLocal(j, y)
    BY <1>1 DEF Local, MayGo, InferLocal
  <1>3. IntegrateLocal(j, y)
    BY <1>1 DEF Local, MayGo, IntegrateLocal
  <1>4. MeasureLocal(j, y)
    BY <1>1 DEF Local, MayGo, MeasureLocal
  <1>5. ChunkLocal(j, y)
    BY <1>1 DEF MayGo, ChunkLocal
  <1>6. Local(j, y)
    BY <1>1, <1>2, <1>3, <1>4, <1>5 DEF Local
  <1> QED  BY <1>6 DEF y

\* What the types say of one tool.
LEMMA TypesOf ==
    ASSUME HarnessTypes, NEW t \in Process
    PROVE  /\ tool \in [Process -> Tools] /\ tool[t] \in Tools /\ job[t] \in Jobs /\ Local(job[t], tool[t])
           /\ job[t].kind \in {"measure", "phases", "integrate", "infer"}
           /\ job[t].packs \in Seq(Pack) /\ Len(job[t].packs) \in Nat
  <1>1. job[t] \in Jobs
    BY DEF HarnessTypes, Local
  <1> QED  BY <1>1 DEF HarnessTypes, Jobs

\* A tool that only goes keeps what is said of it.
LEMMA GoesStep ==
    ASSUME HarnessTypes, NEW t \in Process, NEW place \in Places, Goes(t, place), job' = job,
           MayGo(job[t], tool[t], place)
    PROVE  Steps(t)
  <1>1. Local(job[t], tool[t]) /\ tool \in [Process -> Tools]
    BY TypesOf
  <1>2. /\ tool' \in [Process -> Tools] /\ tool'[t] = [tool[t] EXCEPT !.at = place]
        /\ \A u \in Process \ {t} : tool'[u] = tool[u]
    BY <1>1, GoesTo
  <1>3. Local(job[t], [tool[t] EXCEPT !.at = place])
    BY <1>1, LocalGoes
  <1> QED  BY <1>2, <1>3 DEF Steps

\* Where a tool goes on, by its kind.
LEMMA ReadyPlace ==
    ASSUME NEW t, job[t].kind \in {"measure", "phases", "integrate", "infer"}
    PROVE  /\ job[t].kind = "integrate" => Ready(t) = "port"
           /\ job[t].kind \in {"measure", "phases"} => Ready(t) = "provision"
           /\ job[t].kind = "infer" =>
                Ready(t) = IF job[t].initialize THEN "provision" ELSE IF job[t].packs = <<>> THEN Asks(t) ELSE "upload"
  BY DEF Ready

\* Outside of the tiers.
LEMMA OutsideSteps ==
    ASSUME HarnessTypes, NEW t \in Process,
           \/ RequireLocal(t) \/ StartNetwork(t) \/ Provision(t) \/ Install(t) \/ Admit(t)
           \/ RegistersSchema(t) \/ InstallsExecutor(t) \/ EnablesFixture(t) \/ ChecksGuard(t)
    PROVE  Steps(t)
  <1> DEFINE j == job[t]
             x == tool[t]
  <1>1. /\ Local(j, x) /\ j.kind \in {"measure", "phases", "integrate", "infer"}
        /\ j.packs \in Seq(Pack) /\ Len(j.packs) \in Nat /\ (Len(j.packs) = 0 <=> j.packs = <<>>)
        /\ x \in Tools /\ x.tier \in Nat \ {0} /\ x.at \in Places
    <2>1. j.packs \in Seq(Pack) /\ Len(j.packs) \in Nat
      BY TypesOf
    <2>2. Len(j.packs) = 0 <=> j.packs = <<>>
      BY <2>1
    <2>3. x \in Tools
      BY TypesOf
    <2> QED  BY <2>1, <2>2, <2>3, TypesOf DEF Tools
  <1> USE DEF Places, Outside, InTier, InWorkflow, InferPlaces, IntegratePlaces, MeasurePlaces, Early, Loading,
              Local, InferLocal, IntegrateLocal, MeasureLocal, MayGo
  <1>2. ASSUME RequireLocal(t) PROVE Steps(t)
    <2>1. PICK place \in {"ended", "look"} : Goes(t, place)
      BY <1>2 DEF RequireLocal
    <2>2. x.at = "begin" /\ job' = job
      BY <1>2 DEF RequireLocal, Unmoved
    <2>3. MayGo(j, x, place)
      BY <1>1, <2>1, <2>2
    <2> QED  BY <2>1, <2>2, <2>3, GoesStep
  <1>3. ASSUME StartNetwork(t) PROVE Steps(t)
    <2>1. x.at = "start" /\ job' = job /\ Goes(t, Ready(t))
      BY <1>3 DEF StartNetwork
    <2>2. j.kind # "infer"
      BY <1>1, <2>1
    <2>3. Ready(t) = IF j.kind = "integrate" THEN "port" ELSE "provision"
      BY <1>1, <2>2, ReadyPlace
    <2> DEFINE place == Ready(t)
    <2> HIDE DEF place
    <2>4. place \in Places /\ MayGo(j, x, place)
      BY <1>1, <2>1, <2>2, <2>3 DEF place
    <2> QED  BY <2>1, <2>4, GoesStep DEF place
  <1>4. ASSUME ChecksGuard(t) PROVE Steps(t)
    <2>1. PICK place \in {"stopping"} : Goes(t, place)
      BY <1>4 DEF ChecksGuard
    <2>2. x.at = "guard" /\ job' = job
      BY <1>4 DEF ChecksGuard
    <2>3. MayGo(j, x, place)
      BY <1>1, <2>1, <2>2
    <2> QED  BY <2>1, <2>2, <2>3, GoesStep
  <1>5. ASSUME Provision(t) PROVE Steps(t)
    <2>1. PICK place \in {"install"} : Goes(t, place)
      BY <1>5 DEF Provision
    <2>2. x.at = "provision" /\ job' = job
      BY <1>5 DEF Provision
    <2>3. MayGo(j, x, place)
      BY <1>1, <2>1, <2>2
    <2> QED  BY <2>1, <2>2, <2>3, GoesStep
  <1>6. ASSUME Install(t) PROVE Steps(t)
    <2> DEFINE place == CASE j.kind = "integrate" -> "executor"
                          [] j.kind = "infer" -> (IF j.packs = <<>> THEN Asks(t) ELSE "upload")
                          [] OTHER -> "admit"
    <2>1. x.at = "install" /\ job' = job /\ Goes(t, place)
      BY <1>6 DEF Install
    <2>2. place \in Places /\ MayGo(j, x, place)
      BY <1>1, <2>1 DEF Asks
    <2> HIDE DEF place
    <2> QED  BY <2>1, <2>2, GoesStep
  <1>7. ASSUME Admit(t) PROVE Steps(t)
    <2> DEFINE place == IF j.kind = "integrate" THEN "schemas" ELSE IF j.packs = <<>> THEN "report" ELSE "upload"
    <2>1. x.at = "admit" /\ job' = job /\ Goes(t, place)
      BY <1>7 DEF Admit, Unmoved
    <2>2. place \in Places /\ MayGo(j, x, place)
      BY <1>1, <2>1
    <2> HIDE DEF place
    <2> QED  BY <2>1, <2>2, GoesStep
  <1>8. ASSUME RegistersSchema(t) PROVE Steps(t)
    <2>1. PICK place \in {"calibrate"} : Goes(t, place)
      BY <1>8 DEF RegistersSchema, Unmoved
    <2>2. x.at = "schemas" /\ job' = job
      BY <1>8 DEF RegistersSchema, Unmoved
    <2>3. MayGo(j, x, place)
      BY <1>1, <2>1, <2>2
    <2> QED  BY <2>1, <2>2, <2>3, GoesStep
  <1>9. ASSUME InstallsExecutor(t) PROVE Steps(t)
    <2>1. PICK place \in {"fixture"} : Goes(t, place)
      BY <1>9 DEF InstallsExecutor
    <2>2. x.at = "executor" /\ job' = job
      BY <1>9 DEF InstallsExecutor
    <2>3. MayGo(j, x, place)
      BY <1>1, <2>1, <2>2
    <2> QED  BY <2>1, <2>2, <2>3, GoesStep
  <1>10. ASSUME EnablesFixture(t) PROVE Steps(t)
    <2>1. PICK place \in {"admit"} : Goes(t, place)
      BY <1>10 DEF EnablesFixture, Unmoved
    <2>2. x.at = "fixture" /\ job' = job
      BY <1>10 DEF EnablesFixture, Unmoved
    <2>3. MayGo(j, x, place)
      BY <1>1, <2>1, <2>2
    <2> QED  BY <2>1, <2>2, <2>3, GoesStep
  <1> QED  BY <1>2, <1>3, <1>4, <1>5, <1>6, <1>7, <1>8, <1>9, <1>10
-----------------------------------------------------------------------------
\* A receipt is of the pack that the request names.
LEMMA AnswerIsOfModel ==
    ASSUME EngineSide, NEW c \in Caller, NEW q \in Request, Evaluate(c, q), reply'.result.ok
    PROVE  reply'.result.by = q.model
  <1>1. Admissible(c, q)
    BY DEF Evaluate
  <1>2. CASE Replay(c, q)
    <2>1. /\ reply'.result = cache[<<c, q.id>>].result /\ <<c, q.id>> \in DOMAIN cache
          /\ cache[<<c, q.id>>].request = q
      BY <1>2 DEF Replay
    <2> QED  BY <2>1 DEF EngineSide, EngineInv, CacheInv
  <1>3. CASE Compute(c, q, Computed(q))
    <2>1. reply'.result = Computed(q)
      BY <1>3 DEF Compute
    <2> QED  BY <1>1, <2>1, ComputedFits
  <1>4. CASE Compute(c, q, Failed)
    <2>1. reply'.result = Failed
      BY <1>4 DEF Compute
    <2> QED  BY <2>1 DEF Failed
  <1> QED  BY <1>2, <1>3, <1>4 DEF Evaluate

\* A tool whose record is known.
LEMMA BecomesStep ==
    ASSUME HarnessTypes, NEW t \in Process, NEW y, tool' = [tool EXCEPT ![t] = y], job' = job, Local(job[t], y)
    PROVE  Steps(t)
  <1>1. tool \in [Process -> Tools] /\ y \in Tools
    BY TypesOf DEF Local
  <1> QED  BY <1>1 DEF Steps

\* The record of a tool after a tier.
LEMMA RecordFields ==
    ASSUME NEW x \in Tools, NEW results \in Seq([pack : Bundles, by : Bundles]), NEW place \in Places,
           NEW next \in Nat \ {0}
    PROVE  [x EXCEPT !.results = results, !.tier = next, !.by = None, !.at = place] \in Tools
  <1> DEFINE Records == Seq([pack : Bundles, by : Bundles])
  <1>1. None \in Bundles
    BY DEF Bundles
  <1>2. results \in Records
    OBVIOUS
  <1>3. x \in [at : Places, here : BOOLEAN, tier : Nat \ {0}, count : Nat, asked : Nat, by : Bundles,
               before : Bundles, results : Records, passed : BOOLEAN, left : BOOLEAN]
    BY DEF Tools
  <1> HIDE DEF Records
  <1>4. [x EXCEPT !.results = results, !.tier = next, !.by = None, !.at = place]
        \in [at : Places, here : BOOLEAN, tier : Nat \ {0}, count : Nat, asked : Nat, by : Bundles,
               before : Bundles, results : Records, passed : BOOLEAN, left : BOOLEAN]
    BY <1>1, <1>2, <1>3
  <1> QED  BY <1>4 DEF Tools, Records

\* A record of the tier, true or empty, and on to the next one.
LEMMA RecordStep ==
    ASSUME HarnessTypes, NEW t \in Process, job[t].kind \in {"measure", "phases"}, tool[t].at \in InTier,
           NEW by \in {None, PackOf(t)}, Recorded(t, [pack |-> PackOf(t), by |-> by]), job' = job
    PROVE  Steps(t)
  <1> DEFINE j == job[t]
             x == tool[t]
             r == [pack |-> PackOf(t), by |-> by]
             y == [x EXCEPT !.results = Append(@, r), !.tier = @ + 1, !.by = None,
                            !.at = IF x.tier = Len(j.packs) THEN "report" ELSE "upload"]
  <1>1. /\ x \in Tools /\ j \in Jobs /\ Local(j, x) /\ j.packs \in Seq(Pack) /\ Len(j.packs) \in Nat
        /\ tool \in [Process -> Tools]
    BY TypesOf
  <1>2. /\ x.tier \in Nat \ {0} /\ x.results \in Seq([pack : Bundles, by : Bundles]) /\ x.tier <= Len(j.packs)
        /\ ~x.passed /\ Len(x.results) = x.tier - 1
        /\ \A i \in 1..(x.tier - 1) :
             x.results[i].pack = j.packs[i] /\ x.results[i].by \in {None, j.packs[i]}
    BY <1>1 DEF Tools, Local, MeasureLocal, InTier
  <1>3. PackOf(t) \in Pack /\ PackOf(t) = j.packs[x.tier]
    BY <1>1, <1>2 DEF PackOf
  <1>4. r \in [pack : Bundles, by : Bundles]
    BY <1>3 DEF Bundles
  <1>5. /\ y.results = Append(x.results, r) /\ y.tier = x.tier + 1 /\ y.by = None /\ y.passed = x.passed
        /\ y.at = IF x.tier = Len(j.packs) THEN "report" ELSE "upload"
        /\ y \in Tools
    <2> DEFINE place == IF x.tier = Len(j.packs) THEN "report" ELSE "upload"
               results == Append(x.results, r)
    <2>1. place \in Places
      BY DEF Places, InTier
    <2> HIDE DEF r
    <2>2. results \in Seq([pack : Bundles, by : Bundles])
      BY <1>2, <1>4
    <2>3. y = [x EXCEPT !.results = results, !.tier = x.tier + 1, !.by = None, !.at = place]
      OBVIOUS
    <2>4. x.tier + 1 \in Nat \ {0} /\ x \in Tools
      BY <1>1, <1>2
    <2> HIDE DEF results, place, y, x
    <2>5. y \in Tools
      BY <2>1, <2>2, <2>3, <2>4, RecordFields
    <2>6. y.results = results /\ y.tier = x.tier + 1 /\ y.by = None /\ y.at = place /\ y.passed = x.passed
      BY <2>3, <2>4 DEF Tools
    <2> QED  BY <2>5, <2>6 DEF results, place
  <1>6. tool' = [tool EXCEPT ![t] = y]
    BY DEF Recorded
  <1> HIDE DEF y
  <1>7. Len(y.results) = y.tier - 1 /\ y.results[x.tier] = r
        /\ \A i \in 1..(x.tier - 1) : y.results[i] = x.results[i]
    <2> HIDE DEF r
    <2> QED  BY <1>2, <1>4, <1>5
  <1>8. ASSUME NEW i \in 1..(y.tier - 1)
        PROVE  y.results[i].pack = j.packs[i] /\ y.results[i].by \in {None, j.packs[i]}
    <2>1. CASE i = x.tier
      <3> QED  BY <1>3, <1>7, <2>1
    <2>2. CASE i # x.tier
      <3>1. i \in 1..(x.tier - 1) /\ y.results[i] = x.results[i]
        BY <1>2, <1>5, <1>7, <2>2
      <3> QED  BY <1>2, <3>1
    <2> QED  BY <2>1, <2>2
  <1>9. MeasureLocal(j, y)
    <2>1. /\ y.tier <= Len(j.packs) + 1 /\ y.at \in {"report", "upload"} /\ ~y.passed
          /\ y.at = "report" => y.tier = Len(j.packs) + 1
          /\ y.at = "upload" => y.tier <= Len(j.packs)
      BY <1>1, <1>2, <1>5
    <2>2. y.at \in MeasurePlaces /\ y.at \notin Early /\ y.at # "probe"
          /\ (y.at \in InTier => y.at = "upload")
      BY <2>1 DEF MeasurePlaces, Early, InTier
    <2> QED  BY <2>1, <2>2, <1>7, <1>8 DEF MeasureLocal
  <1>10. InferLocal(j, y) /\ IntegrateLocal(j, y) /\ ChunkLocal(j, y)
    BY <1>5 DEF InferLocal, IntegrateLocal, ChunkLocal
  <1> QED  BY <1>1, <1>5, <1>6, <1>9, <1>10, BecomesStep DEF Local

\* A step within the tiers, of the questions or at the end.
LEMMA PlaceSteps ==
    ASSUME HarnessTypes, NEW t \in Process,
           \/ Look(t) \/ CheckPort(t) \/ BeginsUpload(t) \/ SendsChunk(t) \/ StartsWarmup(t) \/ WarmsNext(t)
           \/ RegistersCalibration(t) \/ MeasuresPhases(t) \/ WritesReport(t) \/ ReadsActive(t) \/ Infers(t)
           \/ StopNetwork(t) \/ Killed(t)
    PROVE  Steps(t)
  <1> DEFINE j == job[t]
             x == tool[t]
  <1>1. /\ j.kind \in {"measure", "phases", "integrate", "infer"}
        /\ j.packs \in Seq(Pack) /\ Len(j.packs) \in Nat /\ (Len(j.packs) = 0 <=> j.packs = <<>>)
        /\ j \in Jobs /\ x \in Tools /\ x.tier \in Nat \ {0} /\ x.at \in Places /\ x.count \in Nat
        /\ InferLocal(j, x) /\ IntegrateLocal(j, x) /\ MeasureLocal(j, x) /\ ChunkLocal(j, x)
    <2>1. j.packs \in Seq(Pack) /\ Len(j.packs) \in Nat
      BY TypesOf
    <2>2. Len(j.packs) = 0 <=> j.packs = <<>>
      BY <2>1
    <2>3. x \in Tools
      BY TypesOf
    <2> QED  BY <2>1, <2>2, <2>3, TypesOf DEF Tools, Local
  <1>2. tool \in [Process -> Tools]
    BY TypesOf
  <1>3. /\ activeModel \in Bundles /\ (model # None => model.bundle \in Pack /\ model.bundle = activeModel)
        /\ Pack \subseteq Bundles /\ network.up \in BOOLEAN /\ network.managed \in BOOLEAN
    BY DEF HarnessTypes, EngineSide, LifecycleInv, LifecycleTypeOK, MemoryInv, HotModelIsActive, Bundles, NetworkSide
  <1>4. x.at \in Loading \cup {"measure", "probe"} /\ j.kind # "integrate" => PackOf(t) \in Pack /\ PackOf(t) = j.packs[x.tier]
    <2> SUFFICES ASSUME x.at \in Loading \cup {"measure", "probe"}, j.kind # "integrate"
                 PROVE  x.tier \in 1..Len(j.packs)
      BY <1>1 DEF PackOf
    <2>1. CASE j.kind = "infer"
      <3>1. x.at \in InferPlaces /\ x.tier = 1 /\ (x.at \in Loading => j.packs # <<>>)
        BY <1>1, <2>1 DEF InferLocal
      <3>2. x.at \in Loading
        BY <3>1 DEF InferPlaces, Loading
      <3> QED  BY <1>1, <3>1, <3>2
    <2>2. CASE j.kind \in {"measure", "phases"}
      <3>1. x.at \in InTier
        BY DEF InTier, Loading
      <3> QED  BY <1>1, <2>2, <3>1 DEF MeasureLocal
    <2> QED  BY <1>1, <2>1, <2>2
  <1> USE DEF Places, Outside, InTier, InWorkflow, InferPlaces, IntegratePlaces, MeasurePlaces, Early, Loading
  <1>5. ASSUME StartsWarmup(t) PROVE Steps(t)
    <2> DEFINE y == [x EXCEPT !.at = "warming", !.count = 0]
    <2>1. x.at = "warm" /\ job' = job /\ tool' = [tool EXCEPT ![t] = y]
      BY <1>1, <1>2, <1>5 DEF StartsWarmup, Unmoved
    <2>2. y \in Tools /\ y.tier = x.tier /\ y.results = x.results /\ y.passed = x.passed /\ y.here = x.here /\ y.at = "warming"
      BY <1>1, <2>1 DEF Tools
    <2> HIDE DEF y
    <2>3. InferLocal(j, y) /\ IntegrateLocal(j, y) /\ MeasureLocal(j, y) /\ ChunkLocal(j, y)
      BY <1>1, <2>1, <2>2 DEF InferLocal, IntegrateLocal, MeasureLocal, ChunkLocal
    <2> QED  BY <1>1, <2>1, <2>2, <2>3, BecomesStep DEF Local
  <1>6. ASSUME WritesReport(t) PROVE Steps(t)
    <2> DEFINE y == [x EXCEPT !.at = "stopping", !.passed = TRUE]
    <2>1. x.at = "report" /\ job' = job /\ tool' = [tool EXCEPT ![t] = y]
      BY <1>1, <1>2, <1>6 DEF WritesReport, Unmoved
    <2>2. y \in Tools /\ y.tier = x.tier /\ y.results = x.results /\ y.here = x.here /\ y.at = "stopping"
      BY <1>1, <2>1 DEF Tools
    <2> HIDE DEF y
    <2>3. InferLocal(j, y) /\ IntegrateLocal(j, y) /\ MeasureLocal(j, y) /\ ChunkLocal(j, y)
      BY <1>1, <2>1, <2>2 DEF InferLocal, IntegrateLocal, MeasureLocal, ChunkLocal
    <2> QED  BY <1>1, <2>1, <2>2, <2>3, BecomesStep DEF Local
  <1>7. ASSUME Killed(t) PROVE Steps(t)
    <2> DEFINE y == [x EXCEPT !.at = "ended", !.left = TRUE]
    <2>1. x.at = x.at /\ job' = job /\ tool' = [tool EXCEPT ![t] = y]
      BY <1>1, <1>2, <1>7 DEF Killed, Unmoved
    <2>2. y \in Tools /\ y.tier = x.tier /\ y.results = x.results /\ y.passed = x.passed /\ y.here = x.here /\ y.at = "ended"
      BY <1>1, <2>1 DEF Tools
    <2> HIDE DEF y
    <2>3. InferLocal(j, y) /\ IntegrateLocal(j, y) /\ MeasureLocal(j, y) /\ ChunkLocal(j, y)
      BY <1>1, <2>1, <2>2 DEF InferLocal, IntegrateLocal, MeasureLocal, ChunkLocal
    <2> QED  BY <1>1, <2>1, <2>2, <2>3, BecomesStep DEF Local
  <1>8. ASSUME StopNetwork(t) PROVE Steps(t)
    <2>1. PICK left \in BOOLEAN : tool' = [tool EXCEPT ![t].at = "ended", ![t].left = left]
      BY <1>8 DEF StopNetwork
    <2> DEFINE y == [x EXCEPT !.at = "ended", !.left = left]
    <2>2. x.at = "stopping" /\ job' = job /\ tool' = [tool EXCEPT ![t] = y]
      BY <1>2, <1>8, <2>1 DEF StopNetwork
    <2>3. y \in Tools /\ y.tier = x.tier /\ y.results = x.results /\ y.passed = x.passed /\ y.here = x.here /\ y.at = "ended"
      BY <1>1, <2>1 DEF Tools
    <2> HIDE DEF y
    <2>4. InferLocal(j, y) /\ IntegrateLocal(j, y) /\ MeasureLocal(j, y) /\ ChunkLocal(j, y)
      BY <1>1, <2>2, <2>3 DEF InferLocal, IntegrateLocal, MeasureLocal, ChunkLocal
    <2> QED  BY <1>1, <2>2, <2>3, <2>4, BecomesStep DEF Local
  <1>10. ASSUME RegistersCalibration(t) PROVE Steps(t)
    <2> DEFINE y == [x EXCEPT !.at = IF j.kind = "integrate" THEN "submit" ELSE "measure", !.count = 0,
                              !.asked = 0]
    <2>1. x.at = "calibrate" /\ job' = job /\ tool' = [tool EXCEPT ![t] = y]
      BY <1>1, <1>2, <1>10 DEF RegistersCalibration, Unmoved
    <2>2. y \in Tools /\ y.tier = x.tier /\ y.results = x.results /\ y.passed = x.passed /\ y.here = x.here /\ y.at = (IF j.kind = "integrate" THEN "submit" ELSE "measure") /\ y.count = 0
      BY <1>1, <2>1 DEF Tools
    <2> HIDE DEF y
    <2>3. InferLocal(j, y) /\ IntegrateLocal(j, y) /\ MeasureLocal(j, y) /\ ChunkLocal(j, y)
      BY <1>1, <2>1, <2>2 DEF InferLocal, IntegrateLocal, MeasureLocal, ChunkLocal
    <2> QED  BY <1>1, <2>1, <2>2, <2>3, BecomesStep DEF Local
  <1>11. ASSUME ReadsActive(t) PROVE Steps(t)
    <2> DEFINE y == [x EXCEPT !.at = "infer", !.before = activeModel]
    <2>1. x.at = "read" /\ job' = job /\ tool' = [tool EXCEPT ![t] = y]
      BY <1>1, <1>2, <1>11 DEF ReadsActive, Unmoved
    <2>2. y \in Tools /\ y.tier = x.tier /\ y.results = x.results /\ y.passed = x.passed /\ y.here = x.here /\ y.at = "infer"
      BY <1>1, <1>3, <2>1 DEF Tools
    <2> HIDE DEF y
    <2>3. InferLocal(j, y) /\ IntegrateLocal(j, y) /\ MeasureLocal(j, y) /\ ChunkLocal(j, y)
      BY <1>1, <2>1, <2>2 DEF InferLocal, IntegrateLocal, MeasureLocal, ChunkLocal
    <2> QED  BY <1>1, <2>1, <2>2, <2>3, BecomesStep DEF Local
  <1>12. ASSUME Infers(t) PROVE Steps(t)
    <2> DEFINE y == [x EXCEPT !.at = "name", !.by = model.bundle]
    <2>1. x.at = "infer" /\ job' = job /\ tool' = [tool EXCEPT ![t] = y] /\ model # None
      BY <1>1, <1>2, <1>12 DEF Infers, Unmoved
    <2>2. y \in Tools /\ y.tier = x.tier /\ y.results = x.results /\ y.passed = x.passed /\ y.here = x.here /\ y.at = "name"
      BY <1>1, <1>3, <2>1 DEF Tools
    <2> HIDE DEF y
    <2>3. InferLocal(j, y) /\ IntegrateLocal(j, y) /\ MeasureLocal(j, y) /\ ChunkLocal(j, y)
      BY <1>1, <2>1, <2>2 DEF InferLocal, IntegrateLocal, MeasureLocal, ChunkLocal
    <2> QED  BY <1>1, <2>1, <2>2, <2>3, BecomesStep DEF Local
  <1>13. ASSUME WarmsNext(t) PROVE Steps(t)
    <2> DEFINE place == IF builder' # None THEN "warming" ELSE IF j.kind # "infer" THEN "schemas"
                        ELSE IF j.kind # "infer" \/ x.count + 1 = Tensors(PackOf(t)) THEN Asks(t) ELSE "ended"
               y == [x EXCEPT !.count = x.count + 1, !.at = place]
    <2>1. x.at = "warming" /\ job' = job /\ tool' = [tool EXCEPT ![t] = y]
      BY <1>1, <1>2, <1>13 DEF WarmsNext, Unmoved
    <2>2. /\ place \in {"warming", "schemas", "read", "infer", "ended"}
          /\ place = "schemas" => j.kind # "infer"
          /\ place \in {"read", "infer", "ended"} => j.kind = "infer"
      BY DEF Asks
    <2>3. place \in Places /\ x.count + 1 \in Nat
      BY <1>1, <2>2
    <2> HIDE DEF place
    <2>4. y \in Tools /\ y.tier = x.tier /\ y.results = x.results /\ y.passed = x.passed /\ y.here = x.here /\ y.at = place
      BY <1>1, <2>3 DEF Tools
    <2> HIDE DEF y
    <2>5. InferLocal(j, y) /\ IntegrateLocal(j, y) /\ MeasureLocal(j, y) /\ ChunkLocal(j, y)
      BY <1>1, <2>1, <2>2, <2>4 DEF InferLocal, IntegrateLocal, MeasureLocal, ChunkLocal
    <2> QED  BY <1>1, <2>1, <2>4, <2>5, BecomesStep DEF Local
  <1>14. ASSUME BeginsUpload(t) PROVE Steps(t)
    <2> DEFINE y == [x EXCEPT !.at = "chunk", !.count = 0]
    <2>1. x.at = "upload" /\ job' = job /\ tool' = [tool EXCEPT ![t] = y]
      BY <1>1, <1>2, <1>14 DEF BeginsUpload, Unmoved
    <2>2. j.kind # "integrate" /\ Total(PackOf(t)) \in Nat /\ Total(PackOf(t)) >= 2 /\ PackOf(t) = j.packs[x.tier]
      <3>1. j.kind # "integrate"
        BY <1>1, <2>1 DEF IntegrateLocal
      <3> QED  BY <1>4, <2>1, <3>1, PackShape
    <2>3. y \in Tools /\ y.tier = x.tier /\ y.results = x.results /\ y.passed = x.passed /\ y.here = x.here /\ y.at = "chunk" /\ y.count = 0
      BY <1>1, <2>1 DEF Tools
    <2> HIDE DEF y
    <2>4. InferLocal(j, y) /\ IntegrateLocal(j, y) /\ MeasureLocal(j, y) /\ ChunkLocal(j, y)
      BY <1>1, <2>1, <2>2, <2>3 DEF InferLocal, IntegrateLocal, MeasureLocal, ChunkLocal
    <2> QED  BY <1>1, <2>1, <2>3, <2>4, BecomesStep DEF Local
  <1>15. ASSUME SendsChunk(t) PROVE Steps(t)
    <2> DEFINE place == IF x.count + 1 = Total(PackOf(t)) THEN "warm" ELSE "chunk"
               y == [x EXCEPT !.count = x.count + 1, !.at = place]
    <2>1. x.at = "chunk" /\ job' = job /\ tool' = [tool EXCEPT ![t] = y]
      BY <1>1, <1>2, <1>15 DEF SendsChunk, Unmoved
    <2>2. j.kind # "integrate" /\ Total(PackOf(t)) \in Nat /\ PackOf(t) = j.packs[x.tier]
      <3>1. j.kind # "integrate"
        BY <1>1, <2>1 DEF IntegrateLocal
      <3> QED  BY <1>4, <2>1, <3>1, PackShape
    <2>3. /\ place \in {"warm", "chunk"} /\ place \in Places /\ x.count + 1 \in Nat
          /\ (place = "chunk" => x.count + 1 < Total(PackOf(t)))
      BY <1>1, <2>1, <2>2 DEF ChunkLocal
    <2> HIDE DEF place
    <2>4. y \in Tools /\ y.tier = x.tier /\ y.results = x.results /\ y.passed = x.passed /\ y.here = x.here /\ y.at = place /\ y.count = x.count + 1
      BY <1>1, <2>3 DEF Tools
    <2> HIDE DEF y
    <2>5. InferLocal(j, y) /\ IntegrateLocal(j, y) /\ MeasureLocal(j, y) /\ ChunkLocal(j, y)
      BY <1>1, <2>1, <2>2, <2>3, <2>4 DEF InferLocal, IntegrateLocal, MeasureLocal, ChunkLocal
    <2> QED  BY <1>1, <2>1, <2>4, <2>5, BecomesStep DEF Local
  <1>16. ASSUME MeasuresPhases(t) PROVE Steps(t)
    <2> DEFINE y == [x EXCEPT !.at = "probe", !.by = model.bundle]
    <2>1. x.at = "measure" /\ job' = job /\ tool' = [tool EXCEPT ![t] = y] /\ j.kind = "phases"
          /\ Profiles(Question[<<"phases", PackOf(t)>>])
      BY <1>1, <1>2, <1>16 DEF MeasuresPhases, Unmoved
    <2>2. model # None /\ model.bundle = j.packs[x.tier] /\ model.bundle \in Bundles
      <3>1. PackOf(t) \in Pack /\ PackOf(t) = j.packs[x.tier]
        BY <1>4, <2>1
      <3>2. Question[<<"phases", PackOf(t)>>].model = PackOf(t)
        BY <3>1, HarnessAssumption
      <3> QED  BY <1>3, <2>1, <3>1, <3>2 DEF Profiles
    <2>3. y \in Tools /\ y.tier = x.tier /\ y.results = x.results /\ y.passed = x.passed /\ y.here = x.here /\ y.at = "probe" /\ y.by = model.bundle
      BY <1>1, <2>1, <2>2 DEF Tools
    <2> HIDE DEF y
    <2>4. InferLocal(j, y) /\ IntegrateLocal(j, y) /\ MeasureLocal(j, y) /\ ChunkLocal(j, y)
      BY <1>1, <2>1, <2>2, <2>3 DEF InferLocal, IntegrateLocal, MeasureLocal, ChunkLocal
    <2> QED  BY <1>1, <2>1, <2>3, <2>4, BecomesStep DEF Local
  <1>17. ASSUME Look(t) PROVE Steps(t)
    <2>1. PICK heard \in BOOLEAN :
            tool' = [tool EXCEPT ![t].here = j.kind # "infer" /\ StartedHere(heard /\ Usable),
                                 ![t].at = IF heard /\ Usable THEN Ready(t)
                                           ELSE IF j.kind = "infer" THEN "ended" ELSE "start"]
      BY <1>17 DEF Look
    <2> DEFINE here == j.kind # "infer" /\ StartedHere(heard /\ Usable)
               place == IF heard /\ Usable THEN Ready(t) ELSE IF j.kind = "infer" THEN "ended" ELSE "start"
               y == [x EXCEPT !.here = here, !.at = place]
    <2>2. x.at = "look" /\ job' = job
      BY <1>17 DEF Look, Unmoved
    <2>3. tool' = [tool EXCEPT ![t] = y]
      BY <1>2, <2>1
    <2>4. here \in BOOLEAN /\ (j.kind = "infer" => ~here)
      OBVIOUS
    <2>5. /\ place \in Places
          /\ j.kind = "infer" => place \in {"ended", "provision", "read", "infer", "upload"} /\ (place = "upload" => j.packs # <<>>)
          /\ j.kind = "integrate" => place \in {"start", "port"}
          /\ j.kind \in {"measure", "phases"} => place \in {"start", "provision"}
      BY <1>1, ReadyPlace DEF Asks
    <2> HIDE DEF here, place
    <2>6. y \in Tools /\ y.at = place /\ y.here = here /\ y.tier = x.tier /\ y.results = x.results /\ y.passed = x.passed
      BY <1>1, <2>4, <2>5 DEF Tools
    <2> HIDE DEF y
    <2>7. InferLocal(j, y) /\ IntegrateLocal(j, y) /\ MeasureLocal(j, y) /\ ChunkLocal(j, y)
      BY <1>1, <2>2, <2>4, <2>5, <2>6 DEF InferLocal, IntegrateLocal, MeasureLocal, ChunkLocal
    <2> QED  BY <1>1, <2>2, <2>3, <2>6, <2>7, BecomesStep DEF Local
  <1>18. ASSUME CheckPort(t) PROVE Steps(t)
    <2>1. x.at = "port" /\ job' = job
      BY <1>18 DEF CheckPort, Unmoved
    <2>2. j.kind = "integrate"
      BY <1>1, <2>1 DEF InferLocal, MeasureLocal
    <2>3. CASE Goes(t, "provision")
      <3>1. MayGo(j, x, "provision")
        BY <2>2 DEF MayGo
      <3> QED  BY <2>1, <2>3, <3>1, GoesStep
    <2>4. CASE tool' = [tool EXCEPT ![t].at = "ended", ![t].left = TRUE]
      <3> DEFINE y == [x EXCEPT !.at = "ended", !.left = TRUE]
      <3>1. tool' = [tool EXCEPT ![t] = y]
        BY <1>2, <2>4
      <3>2. y \in Tools /\ y.at = "ended" /\ y.here = x.here /\ y.tier = x.tier /\ y.results = x.results
        BY <1>1 DEF Tools
      <3> HIDE DEF y
      <3>3. InferLocal(j, y) /\ IntegrateLocal(j, y) /\ MeasureLocal(j, y) /\ ChunkLocal(j, y)
        BY <1>1, <2>1, <2>2, <3>2 DEF InferLocal, IntegrateLocal, MeasureLocal, ChunkLocal
      <3> QED  BY <1>1, <2>1, <3>1, <3>2, <3>3, BecomesStep DEF Local
    <2> QED  BY <1>18, <2>3, <2>4 DEF CheckPort
  <1> QED  BY <1>5, <1>6, <1>7, <1>8, <1>10, <1>11, <1>12, <1>13, <1>14, <1>15, <1>16, <1>17, <1>18

\* The pack of a tier, while there is one.
LEMMA PackOfTier ==
    ASSUME HarnessTypes, NEW t \in Process, tool[t].at \in InTier, job[t].kind # "integrate"
    PROVE  PackOf(t) \in Pack /\ tool[t].tier \in 1..Len(job[t].packs)
  <1>1. /\ InferLocal(job[t], tool[t]) /\ MeasureLocal(job[t], tool[t]) /\ tool[t].tier \in Nat \ {0}
        /\ job[t].kind \in {"measure", "phases", "infer"}
        /\ job[t].packs \in Seq(Pack) /\ Len(job[t].packs) \in Nat
    BY TypesOf DEF Local, Tools
  <1>2. tool[t].tier \in 1..Len(job[t].packs)
    <2>1. CASE job[t].kind = "infer"
      <3>1. tool[t].at \in Loading
        BY <1>1, <2>1 DEF InferLocal, InferPlaces, InTier, Loading
      <3>2. Len(job[t].packs) # 0
        BY <1>1, <2>1, <3>1 DEF InferLocal
      <3> QED  BY <1>1, <2>1, <3>2 DEF InferLocal
    <2>2. CASE job[t].kind # "infer"
      BY <1>1, <2>2 DEF MeasureLocal
    <2> QED  BY <2>1, <2>2
  <1> QED  BY <1>1, <1>2 DEF PackOf

\* A step that ends a tier, or a tool.
LEMMA EndSteps ==
    ASSUME HarnessTypes, NEW t \in Process,
           MeasuresEvaluation(t) \/ Probes(t) \/ Names(t) \/ Fails(t)
    PROVE  Steps(t)
  <1> DEFINE j == job[t]
             x == tool[t]
  <1>1. /\ j.kind \in {"measure", "phases", "integrate", "infer"} /\ j \in Jobs
        /\ x \in Tools /\ x.at \in Places /\ tool \in [Process -> Tools]
        /\ InferLocal(j, x) /\ IntegrateLocal(j, x) /\ MeasureLocal(j, x) /\ ChunkLocal(j, x)
    BY TypesOf DEF Tools, Local
  <1>2. j.identity \in Caller
    BY <1>1 DEF Jobs
  <1>3. EngineSide
    BY DEF HarnessTypes
  <1>4. ASSUME MeasuresEvaluation(t) PROVE Steps(t)
    <2> DEFINE q == Question[<<"measure", PackOf(t)>>]
               by == IF reply'.result.ok THEN reply'.result.by ELSE None
    <2>1. /\ x.at = "measure" /\ j.kind = "measure" /\ job' = job /\ Evaluate(j.identity, q)
          /\ Recorded(t, [pack |-> PackOf(t), by |-> by])
      BY <1>4 DEF MeasuresEvaluation, Unmoved
    <2>2. x.at \in InTier /\ PackOf(t) \in Pack
      BY <2>1, PackOfTier DEF InTier
    <2>3. q \in Request /\ q.model = PackOf(t)
      BY <2>2, HarnessAssumption
    <2>4. reply'.result.ok => reply'.result.by = PackOf(t)
      BY <1>2, <1>3, <2>1, <2>3, AnswerIsOfModel
    <2>5. by \in {None, PackOf(t)}
      BY <2>4
    <2> HIDE DEF by
    <2> QED  BY <2>1, <2>2, <2>5, RecordStep
  <1>5. ASSUME Probes(t) PROVE Steps(t)
    <2> DEFINE by == IF reply'.result.ok THEN x.by ELSE None
    <2>1. /\ x.at = "probe" /\ job' = job /\ Recorded(t, [pack |-> PackOf(t), by |-> by])
      BY <1>5 DEF Probes, Unmoved
    <2>2. x.at \in InTier /\ j.kind \in {"measure", "phases"}
      BY <1>1, <2>1 DEF InTier, InferLocal, IntegrateLocal, InferPlaces, IntegratePlaces, InWorkflow, Loading
    <2>3. x.by = PackOf(t)
      BY <1>1, <2>1, <2>2 DEF MeasureLocal, PackOf
    <2>4. by \in {None, PackOf(t)}
      BY <2>3
    <2> HIDE DEF by
    <2> QED  BY <2>1, <2>2, <2>4, RecordStep
  <1>6. ASSUME Names(t) PROVE Steps(t)
    <2> DEFINE results == <<[pack |-> activeModel, by |-> x.by]>>
               y == [x EXCEPT !.at = "ended", !.passed = TRUE, !.results = results]
    <2>1. x.at = "name" /\ job' = job /\ tool' = [tool EXCEPT ![t] = y]
      BY <1>1, <1>6 DEF Names, Unmoved
    <2>2. j.kind = "infer"
      BY <1>1, <2>1 DEF IntegrateLocal, MeasureLocal, IntegratePlaces, MeasurePlaces, InTier, InWorkflow, Early
    <2>3. activeModel \in Bundles /\ x.by \in Bundles
      BY <1>1 DEF HarnessTypes, EngineSide, LifecycleInv, LifecycleTypeOK, Bundles, Tools
    <2>4. results \in Seq([pack : Bundles, by : Bundles]) /\ "ended" \in Places
      BY <2>3 DEF Places
    <2> HIDE DEF results
    <2>5. y \in Tools /\ y.at = "ended" /\ y.tier = x.tier /\ y.here = x.here
      BY <1>1, <2>4 DEF Tools
    <2> HIDE DEF y
    <2>6. InferLocal(j, y) /\ IntegrateLocal(j, y) /\ MeasureLocal(j, y) /\ ChunkLocal(j, y)
      BY <1>1, <2>2, <2>5 DEF InferLocal, IntegrateLocal, MeasureLocal, ChunkLocal, InferPlaces, Loading
    <2> QED  BY <1>1, <2>1, <2>5, <2>6, BecomesStep DEF Local
  <1>7. ASSUME Fails(t) PROVE Steps(t)
    <2>1. CASE Goes(t, Unwinds(t))
      <3> DEFINE place == Unwinds(t)
      <3>1. job' = job /\ place \in {"ended", "stopping"} /\ (j.kind = "infer" => place = "ended")
        BY <1>7 DEF Fails, Unmoved, Unwinds
      <3>2. place \in Places /\ MayGo(j, x, place)
        BY <3>1 DEF MayGo, Places, InferPlaces, IntegratePlaces, MeasurePlaces, Loading, InTier, InWorkflow, Early
      <3> HIDE DEF place
      <3>3. Goes(t, place)
        BY <2>1 DEF place
      <3> QED  BY <3>1, <3>2, <3>3, GoesStep
    <2>2. CASE /\ tool[t].at \in InTier /\ job[t].kind \in {"measure", "phases"}
               /\ Recorded(t, [pack |-> PackOf(t), by |-> None])
      <3>1. job' = job
        BY <1>7 DEF Fails, Unmoved
      <3> QED  BY <2>2, <3>1, RecordStep
    <2> QED  BY <1>7, <2>1, <2>2 DEF Fails
  <1> QED  BY <1>4, <1>5, <1>6, <1>7

\* A run of the workflow whose record is known.
LEMMA WorkflowBecomes ==
    ASSUME HarnessTypes, NEW t \in Process, tool[t].at \in {"submit", "advance", "dispatch", "retry"},
           NEW y \in Tools, tool' = [tool EXCEPT ![t] = y], job' = job,
           y.tier = tool[t].tier, y.results = tool[t].results,
           \/ y.at \in {"submit", "advance", "dispatch"} /\ y.count \in {0, 1}
           \/ y.at = "retry" /\ y.count = 0
           \/ y.at = "guard" /\ y.count = 1
           \/ y.at = "stopping"
    PROVE  Steps(t)
  <1> DEFINE j == job[t]
             x == tool[t]
  <1>1. /\ j.kind \in {"measure", "phases", "integrate", "infer"} /\ j \in Jobs
        /\ InferLocal(j, x) /\ IntegrateLocal(j, x) /\ MeasureLocal(j, x)
    BY TypesOf DEF Local
  <1>2. j.kind = "integrate"
    BY <1>1 DEF InferLocal, MeasureLocal, InferPlaces, MeasurePlaces, Loading, Early, InTier
  <1>3. IntegrateLocal(j, y) /\ InferLocal(j, y) /\ MeasureLocal(j, y) /\ ChunkLocal(j, y)
    BY <1>1, <1>2 DEF IntegrateLocal, InferLocal, MeasureLocal, ChunkLocal, IntegratePlaces, InWorkflow
  <1> QED  BY <1>1, <1>3, BecomesStep DEF Local

\* The steps of the workflow.
LEMMA WorkflowSteps ==
    ASSUME HarnessTypes, NEW t \in Process,
           Submits(t) \/ Advances(t) \/ Dispatches(t) \/ Retries(t)
    PROVE  Steps(t)
  <1> DEFINE x == tool[t]
             n == x.count + 1
  <1>1. /\ x \in Tools /\ tool \in [Process -> Tools] /\ job[t].kind \in {"measure", "phases", "integrate", "infer"}
        /\ InferLocal(job[t], x) /\ IntegrateLocal(job[t], x) /\ MeasureLocal(job[t], x)
    BY TypesOf DEF Local
  <1>2. /\ x.at \in {"submit", "advance", "dispatch"} => x.count \in {0, 1}
        /\ x.at = "retry" => x.count = 0
    BY <1>1 DEF IntegrateLocal, InferLocal, MeasureLocal, InferPlaces, MeasurePlaces, Loading, Early, InTier
  <1>3. ASSUME Submits(t) PROVE Steps(t)
    <2> DEFINE y == [x EXCEPT !.at = "advance", !.asked = 0]
    <2>1. x.at = "submit" /\ job' = job /\ tool' = [tool EXCEPT ![t] = y]
      BY <1>1, <1>3 DEF Submits
    <2>2. y \in Tools /\ y.tier = x.tier /\ y.results = x.results /\ y.at = "advance" /\ y.count = x.count
      BY <1>1 DEF Tools, Places, InWorkflow
    <2> HIDE DEF y
    <2> QED  BY <1>2, <2>1, <2>2, WorkflowBecomes
  <1>4. ASSUME Advances(t) PROVE Steps(t)
    <2>1. x.at = "advance" /\ job' = job
      BY <1>4 DEF Advances
    <2>2. PICK k \in Nat, place \in {"dispatch", "advance", "stopping"} :
            tool' = [tool EXCEPT ![t].asked = k, ![t].at = place]
      <3>1. \E r, err : Advanced(t, r, err)
        BY <1>4 DEF Advances
      <3>2. x.asked + 1 \in Nat
        BY <1>1 DEF Tools
      <3> QED  BY <3>1, <3>2 DEF Advanced
    <2> DEFINE y == [x EXCEPT !.asked = k, !.at = place]
    <2>3. tool' = [tool EXCEPT ![t] = y]
      BY <1>1, <2>2
    <2>4. y \in Tools /\ y.tier = x.tier /\ y.results = x.results /\ y.at = place /\ y.count = x.count
      BY <1>1, <2>2 DEF Tools, Places, InWorkflow
    <2> HIDE DEF y
    <2> QED  BY <1>2, <2>1, <2>2, <2>3, <2>4, WorkflowBecomes
  <1>5. ASSUME Dispatches(t) PROVE Steps(t)
    <2>1. x.at = "dispatch" /\ job' = job
      BY <1>5 DEF Dispatches
    <2>2. PICK passed \in BOOLEAN, place \in {"retry", "guard", "stopping"} :
            /\ tool' = [tool EXCEPT ![t].at = place, ![t].passed = passed]
            /\ place = "retry" => n = 1
            /\ place = "guard" => n # 1
      BY <1>5 DEF Dispatches
    <2> DEFINE y == [x EXCEPT !.at = place, !.passed = passed]
    <2>3. tool' = [tool EXCEPT ![t] = y]
      BY <1>1, <2>2
    <2>4. y \in Tools /\ y.tier = x.tier /\ y.results = x.results /\ y.at = place /\ y.count = x.count
      BY <1>1, <2>2 DEF Tools, Places, InWorkflow
    <2>5. place = "stopping" \/ (place = "retry" /\ x.count = 0) \/ (place = "guard" /\ x.count = 1)
      BY <1>2, <2>1, <2>2
    <2> HIDE DEF y
    <2> QED  BY <2>1, <2>3, <2>4, <2>5, WorkflowBecomes
  <1>6. ASSUME Retries(t) PROVE Steps(t)
    <2>1. x.at = "retry" /\ job' = job
      BY <1>6 DEF Retries
    <2>2. CASE tool' = [tool EXCEPT ![t].at = "submit", ![t].count = 1]
      <3> DEFINE y == [x EXCEPT !.at = "submit", !.count = 1]
      <3>1. tool' = [tool EXCEPT ![t] = y]
        BY <1>1, <2>2
      <3>2. y \in Tools /\ y.tier = x.tier /\ y.results = x.results /\ y.at = "submit" /\ y.count = 1
        BY <1>1 DEF Tools, Places, InWorkflow
      <3> HIDE DEF y
      <3> QED  BY <2>1, <3>1, <3>2, WorkflowBecomes
    <2>3. CASE Goes(t, "stopping")
      <3>1. "stopping" \in Places /\ MayGo(job[t], x, "stopping")
        BY <1>1, <2>1 DEF MayGo, Places, IntegratePlaces, MeasurePlaces, Loading, InferLocal, InferPlaces,
                          Early, InTier, InWorkflow
      <3> QED  BY <2>1, <2>3, <3>1, GoesStep
    <2> QED  BY <1>6, <2>2, <2>3 DEF Retries
  <1> QED  BY <1>3, <1>4, <1>5, <1>6

\* Every step is one of a tool, which keeps what is said of it.
LEMMA EachSteps ==
    ASSUME HarnessTypes, NEW t \in Process, Proceeds(t) \/ Killed(t)
    PROVE  Steps(t)
  BY OutsideSteps, PlaceSteps, EndSteps, WorkflowSteps DEF Proceeds
-----------------------------------------------------------------------------
\* What a tool does to the engine are steps of the engine.
LEMMA EngineSteps ==
    ASSUME HarnessTypes, NEW t \in Process, Proceeds(t) \/ Killed(t)
    PROVE  EngineSide'
  <1>1. EngineSide /\ LifecycleInv
    BY DEF HarnessTypes, EngineSide
  <1>2. ASSUME NoEngineStep PROVE EngineSide'
    BY <1>1, <1>2, EngineStays
  <1>3. ASSUME StartNetwork(t) PROVE EngineSide'
    BY <1>1, <1>3, FreshSide DEF StartNetwork
  <1>4. ASSUME Install(t) PROVE EngineSide'
    <2>1. CASE FreshEngine
      BY <1>1, <2>1, FreshSide
    <2>2. CASE Upgrade /\ UNCHANGED <<core, clock>> /\ Quiet
      BY <1>1, <2>2, UpgradeKeeps, LifecycleSide DEF EngineOnly
    <2> QED  BY <1>4, <2>1, <2>2 DEF Install
  <1>5. job[t].identity \in Caller /\ ExecutorId \in Caller
    BY TypesOf, HarnessAssumption DEF Jobs
  <1>6. ASSUME Admit(t) PROVE EngineSide'
    BY <1>1, <1>5, <1>6, CoreSide DEF Admit
  <1>7. ASSUME tool[t].at \in {"upload", "chunk", "measure", "probe"} PROVE job[t].kind # "integrate" /\ PackOf(t) \in Pack
    <2>1. job[t].kind # "integrate"
      BY <1>7, TypesOf DEF Local, IntegrateLocal, IntegratePlaces, InWorkflow
    <2>2. tool[t].at \in InTier
      BY <1>7 DEF InTier
    <2> QED  BY <2>1, <2>2, PackOfTier
  <1>8. ASSUME BeginsUpload(t) PROVE EngineSide'
    BY <1>1, <1>7, <1>8, BeginKeeps, LifecycleSide DEF BeginsUpload
  <1>9. ASSUME SendsChunk(t) PROVE EngineSide'
    <2> DEFINE i == tool[t].count
               cell == CellOf(PackOf(t), i)
    <2>1. i \in Nat /\ tool[t].at = "chunk" /\ i < Total(PackOf(t)) /\ EngineOnly
      BY <1>9, TypesOf DEF SendsChunk, Local, ChunkLocal, Tools, PackOf
    <2>2. i \in 0..Tensors(PackOf(t))
      BY <1>7, <2>1, PackShape DEF Tensors
    <2>3. cell \in Cell
      BY <1>7, <2>1, <2>2, PackShape
    <2> HIDE DEF i, cell
    <2>4. <<cell>> \in Seq(Cell)
      BY <2>3
    <2>5. UploadChunk(i, <<cell>>) => LifecycleInv'
      BY <1>1, <2>1, <2>4, ChunkKeeps
    <2>6. UNCHANGED lifecycle => LifecycleInv'
      BY <1>1, StutterKeeps
    <2> QED  BY <1>1, <1>9, <2>1, <2>5, <2>6, LifecycleSide DEF SendsChunk, i, cell
  <1>10. ASSUME StartsWarmup(t) PROVE EngineSide'
    BY <1>1, <1>10, StartKeeps, LifecycleSide DEF StartsWarmup
  <1>11. ASSUME WarmsNext(t) PROVE EngineSide'
    BY <1>1, <1>11, WarmupKeeps, LifecycleSide DEF WarmsNext
  <1>12. ASSUME EnablesFixture(t) PROVE EngineSide'
    BY <1>1, <1>12, FixtureKeeps, LifecycleSide DEF EnablesFixture
  <1>13. ASSUME RegistersSchema(t) PROVE EngineSide'
    BY <1>1, <1>13, CoreSide DEF RegistersSchema
  <1>14. ASSUME RegistersCalibration(t) PROVE EngineSide'
    BY <1>1, <1>14, CoreSide DEF RegistersCalibration
  <1>15. ASSUME MeasuresEvaluation(t) PROVE EngineSide'
    <2>1. PackOf(t) \in Pack /\ Evaluate(job[t].identity, Question[<<"measure", PackOf(t)>>])
      BY <1>7, <1>15 DEF MeasuresEvaluation
    <2> QED  BY <1>1, <1>5, <2>1, CoreSide, HarnessAssumption
  <1>16. ASSUME Probes(t) PROVE EngineSide'
    <2>1. PackOf(t) \in Pack /\ Evaluate(job[t].identity, Question[<<"probe", PackOf(t)>>])
      BY <1>7, <1>16 DEF Probes
    <2> QED  BY <1>1, <1>5, <2>1, CoreSide, HarnessAssumption
  <1>17. ASSUME Advances(t) PROVE EngineSide'
    <2> DEFINE n == tool[t].count + 1
    <2>1. n \in {1, 2}
      <3>1. job[t].kind = "integrate" /\ tool[t].at = "advance"
        BY <1>17, TypesOf DEF Advances, Local, InferLocal, MeasureLocal, InferPlaces, MeasurePlaces, Loading,
           InTier, Early
      <3> QED  BY <3>1, TypesOf DEF Local, IntegrateLocal
    <2>2. CASE NoEngineStep
      BY <1>2, <2>2
    <2>3. CASE /\ pay.requests[n].status \in {"Received", "Evaluating"}
               /\ Evaluate(ExecutorId, Signal[<<n, pay.requests[n].answered + 1>>])
      <3>1. n \in DOMAIN pay.requests
        BY <1>17 DEF Advances
      <3> HIDE DEF n
      <3>2. pay.requests[n] \in Request1 /\ Counted(pay.requests[n])
        BY <3>1 DEF HarnessTypes, PaySide, Payments
      <3> DEFINE i == pay.requests[n].answered + 1
      <3>3. i \in 1..Signals
        BY <2>3, <3>2, HarnessAssumption DEF Request1, Counted
      <3>4. Evaluate(ExecutorId, Signal[<<n, i>>])
        BY <2>3
      <3> HIDE DEF i
      <3>5. Signal[<<n, i>>] \in Request
        BY <2>1, <3>3, HarnessAssumption
      <3> QED  BY <1>1, <1>5, <3>4, <3>5, CoreSide
    <2> QED  BY <1>17, <2>2, <2>3 DEF Advances
  <1>18. \/ NoEngineStep \/ StartNetwork(t) \/ Install(t) \/ Admit(t) \/ BeginsUpload(t) \/ SendsChunk(t)
         \/ StartsWarmup(t) \/ WarmsNext(t) \/ EnablesFixture(t) \/ RegistersSchema(t) \/ RegistersCalibration(t)
         \/ MeasuresEvaluation(t) \/ Probes(t) \/ Advances(t)
    BY DEF Proceeds, RequireLocal, Look, CheckPort, StopNetwork, Provision, MeasuresPhases, WritesReport,
       ReadsActive, Infers, Names, InstallsExecutor, Submits, Dispatches, Retries, ChecksGuard, Fails, Killed
  <1> QED
    BY <1>2, <1>3, <1>4, <1>6, <1>8, <1>9, <1>10, <1>11, <1>12, <1>13, <1>14, <1>15, <1>16, <1>17, <1>18

\* Networks come and go, and a canister that is installed has a controller.
LEMMA NetworkSteps ==
    ASSUME HarnessTypes, NEW t \in Process, Proceeds(t) \/ Killed(t)
    PROVE  NetworkSide'
  <1>1. /\ network \in [up : BOOLEAN, managed : BOOLEAN, starter : Process \cup {None}]
        /\ canister \in [controller : Caller \cup {None}, installed : BOOLEAN]
        /\ canister.installed => canister.controller # None
    BY DEF HarnessTypes, NetworkSide
  <1>2. job[t].identity \in Caller /\ None \notin Caller
    BY TypesOf, HarnessAssumption DEF Jobs
  <1>3. CASE UNCHANGED <<network, canister>>
    BY <1>1, <1>3 DEF NetworkSide
  <1>4. CASE StartNetwork(t)
    BY <1>1, <1>4 DEF StartNetwork, NoCanister, NetworkSide
  <1>5. CASE StopNetwork(t)
    <2>1. PICK stops \in BOOLEAN :
            network' = [network EXCEPT !.up = network.up /\ ~(tool[t].here /\ ~job[t].keep /\ stops)]
      BY <1>5 DEF StopNetwork
    <2>2. canister' = canister
      BY <1>5 DEF StopNetwork
    <2> DEFINE up == network.up /\ ~(tool[t].here /\ ~job[t].keep /\ stops)
    <2>3. network' = [network EXCEPT !.up = up] /\ up \in BOOLEAN
      BY <2>1
    <2> HIDE DEF up
    <2> QED  BY <1>1, <2>2, <2>3 DEF NetworkSide
  <1>6. CASE Provision(t)
    BY <1>1, <1>2, <1>6 DEF Provision, NetworkSide
  <1>7. CASE Install(t)
    BY <1>1, <1>2, <1>7 DEF Install, NetworkSide
  <1>8. UNCHANGED <<network, canister>> \/ StartNetwork(t) \/ StopNetwork(t) \/ Provision(t) \/ Install(t)
    BY DEF Proceeds, RequireLocal, Look, CheckPort, Admit, BeginsUpload, SendsChunk, StartsWarmup, WarmsNext,
       RegistersSchema, RegistersCalibration, MeasuresEvaluation, MeasuresPhases, Probes, WritesReport,
       ReadsActive, Infers, Names, InstallsExecutor, EnablesFixture, Submits, Advances, Dispatches, Retries,
       ChecksGuard, Fails, Killed, Unmoved
  <1> QED  BY <1>3, <1>4, <1>5, <1>6, <1>7, <1>8

\* A request that is answered no further keeps what its status says.
LEMMA JudgesCounts ==
    ASSUME NEW r \in Request1, Counted(r), r.status \in {"Received", "Evaluating"}
    PROVE  /\ Judges(r) \in Request1 /\ Counted(Judges(r))
           /\ Lost(r) \in Request1 /\ Counted(Lost(r))
  <1>1. r.answered \in Nat /\ r.answered + 1 \in 0..Signals /\ Signals \in Nat
    BY HarnessAssumption DEF Request1, Counted
  <1> DEFINE next == r.answered + 1
             status == IF next = Signals THEN "ReadyToDispatch" ELSE "Received"
             lost == IF r.status = "Received" THEN "Evaluating" ELSE "NeedsReview"
  <1>2. Judges(r) = [r EXCEPT !.answered = next, !.status = status]
    BY DEF Judges
  <1>3. Lost(r) = [r EXCEPT !.status = lost] /\ lost \in {"Evaluating", "NeedsReview"}
    BY DEF Lost, Request1
  <1>4. /\ next \in 0..Signals /\ status \in {"Received", "ReadyToDispatch"}
        /\ status = "ReadyToDispatch" => next = Signals
        /\ status = "Received" => next < Signals
    BY <1>1
  <1> HIDE DEF next, status, lost
  <1>5. Judges(r) \in Request1 /\ Judges(r).answered = next /\ Judges(r).status = status
    BY <1>2, <1>4 DEF Request1
  <1>6. Lost(r) \in Request1 /\ Lost(r).answered = r.answered /\ Lost(r).status = lost
    BY <1>3 DEF Request1
  <1> QED  BY <1>3, <1>4, <1>5, <1>6 DEF Counted

\* A request is replaced by what a call leaves of it: one that counts its signals, and the same
\* if it was settled.
LeavesRequest(n, r) ==
    /\ n \in DOMAIN pay.requests /\ r \in Request1 /\ Counted(r)
    /\ pay' = [pay EXCEPT !.requests[n] = r]
    /\ pay.requests[n].status = "Succeeded" => r = pay.requests[n]

\* The calls of the workflow do so.
LEMMA CallLeaves ==
    ASSUME PaySide, NEW t, Advances(t) \/ Dispatches(t)
    PROVE  \E r : LeavesRequest(tool[t].count + 1, r)
  <1> DEFINE n == tool[t].count + 1
             old == pay.requests[n]
  <1>1. n \in DOMAIN pay.requests
    BY DEF Advances, Dispatches
  <1> HIDE DEF n
  <1>2. old \in Request1 /\ Counted(old)
    BY <1>1 DEF PaySide, Payments
  <1>3. CASE Advances(t)
    <2>1. \E r, err : /\ pay' = [pay EXCEPT !.requests[n] = r]
                      /\ \/ r = old
                         \/ /\ old.status \in {"Received", "Evaluating"}
                            /\ r \in {Judges(old), Lost(old), [old EXCEPT !.status = "NeedsReview"]}
      BY <1>3 DEF Advances, Advanced, n
    <2>2. PICK r : /\ pay' = [pay EXCEPT !.requests[n] = r]
                   /\ \/ r = old
                      \/ /\ old.status \in {"Received", "Evaluating"}
                         /\ r \in {Judges(old), Lost(old), [old EXCEPT !.status = "NeedsReview"]}
      BY <2>1
    <2>3. r \in Request1 /\ Counted(r)
      <3>1. CASE r = old
        BY <1>2, <3>1
      <3>2. CASE r = [old EXCEPT !.status = "NeedsReview"]
        <4> HIDE DEF old
        <4> QED  BY <1>2, <3>2 DEF Request1, Counted
      <3>3. CASE old.status \in {"Received", "Evaluating"} /\ r \in {Judges(old), Lost(old)}
        <4> HIDE DEF old
        <4> QED  BY <1>2, <3>3, JudgesCounts
      <3> QED  BY <2>2, <3>1, <3>2, <3>3
    <2>4. old.status = "Succeeded" => r = old
      BY <2>2
    <2> QED  BY <1>1, <2>2, <2>3, <2>4 DEF LeavesRequest, n
  <1>4. CASE Dispatches(t)
    <2>1. PICK r \in DispatchLeaves(old) : pay' = [pay EXCEPT !.requests[n] = r]
      BY <1>4 DEF Dispatches, n
    <2> HIDE DEF old
    <2>2. \/ r = old
          \/ /\ old.status = "ReadyToDispatch"
             /\ \/ \E b \in BOOLEAN : r = [old EXCEPT !.status = "OutcomeUnknown", !.booked = b]
                \/ r = [old EXCEPT !.status = "FailedDefinitive"]
      BY <2>1 DEF DispatchLeaves
    <2>3. r \in Request1 /\ Counted(r)
      BY <1>2, <2>2 DEF Request1, Counted
    <2>4. old.status = "Succeeded" => r = old
      BY <2>2
    <2> QED  BY <1>1, <2>1, <2>3, <2>4 DEF LeavesRequest, n, old
  <1> QED  BY <1>3, <1>4

\* So does sending the same payload again.
LEMMA RetryLeavesOne ==
    ASSUME PaySide, NEW t, Retries(t)
    PROVE  \E r : LeavesRequest(1, r)
  <1> DEFINE old == pay.requests[1]
  <1>1. 1 \in DOMAIN pay.requests
    BY DEF Retries, PaySide, Payments
  <1>2. old \in Request1 /\ Counted(old)
    BY <1>1 DEF PaySide, Payments
  <1>3. PICK r \in RetryLeaves(old) : pay' = [pay EXCEPT !.requests[1] = r]
    BY DEF Retries
  <1> HIDE DEF old
  <1>4. \/ r = old
        \/ /\ old.status = "OutcomeUnknown"
           /\ r \in {[old EXCEPT !.status = "Succeeded", !.booked = TRUE], [old EXCEPT !.booked = TRUE]}
    BY <1>3 DEF RetryLeaves
  <1>5. r \in Request1 /\ Counted(r)
    BY <1>2, <1>4 DEF Request1, Counted
  <1>6. old.status = "Succeeded" => r = old
    BY <1>4
  <1> QED  BY <1>1, <1>3, <1>5, <1>6 DEF LeavesRequest, old

\* The payments with other requests.
LEMMA RequestsBecome ==
    ASSUME PaySide, NEW requests \in Seq(Request1), Len(requests) <= 2,
           \A i \in DOMAIN requests : Counted(requests[i]), pay.controller # None \/ requests = <<>>,
           \/ pay' = [pay EXCEPT !.requests = requests]
           \/ pay' = [pay EXCEPT !.installed = TRUE, !.requests = requests]
    PROVE  PaySide' /\ pay'.requests = requests /\ pay'.controller = pay.controller
  <1> DEFINE S == Seq(Request1)
             C == Caller \cup {None}
  <1>1. pay \in [controller : C, installed : BOOLEAN, requests : S] /\ requests \in S
    BY DEF PaySide, Payments
  <1> HIDE DEF S, C
  <1>2. /\ pay' \in [controller : C, installed : BOOLEAN, requests : S]
        /\ pay'.requests = requests /\ pay'.controller = pay.controller
    BY <1>1
  <1> QED  BY <1>2 DEF PaySide, Payments, S, C

\* A request of its sequence is replaced by one that counts its signals.
LEMMA RequestReplaced ==
    ASSUME PaySide, NEW n, NEW r, LeavesRequest(n, r)
    PROVE  /\ PaySide' /\ pay'.requests = [pay.requests EXCEPT ![n] = r]
           /\ pay'.controller = pay.controller /\ Len(pay'.requests) = Len(pay.requests)
  <1>1. /\ pay.requests \in Seq(Request1) /\ \A i \in DOMAIN pay.requests : Counted(pay.requests[i])
        /\ pay \in Payments /\ Len(pay.requests) <= 2
    BY DEF PaySide, Payments
  <1> DEFINE requests == [pay.requests EXCEPT ![n] = r]
  <1>2. requests \in Seq(Request1) /\ Len(requests) = Len(pay.requests)
    BY <1>1 DEF LeavesRequest
  <1>3. \A i \in DOMAIN requests : Counted(requests[i])
    BY <1>1, <1>2 DEF LeavesRequest
  <1>4. pay' = [pay EXCEPT !.requests = requests]
    BY <1>1 DEF LeavesRequest, Payments
  <1> HIDE DEF requests
  <1>5. pay.controller # None
    BY <1>1 DEF LeavesRequest, PaySide
  <1>6. PaySide' /\ pay'.requests = requests /\ pay'.controller = pay.controller
    BY <1>1, <1>2, <1>3, <1>4, <1>5, RequestsBecome
  <1> QED  BY <1>2, <1>6 DEF requests

\* An upgrade makes what waits for an answer wait for the owner, and leaves what is settled.
LEMMA UpgradeLeaves ==
    ASSUME PaySide, pay' = Upgraded
    PROVE  /\ PaySide' /\ pay'.controller = pay.controller
           /\ Len(pay'.requests) = Len(pay.requests)
           /\ \A i \in DOMAIN pay.requests :
                pay.requests[i].status = "Succeeded" => pay'.requests[i] = pay.requests[i]
  <1> DEFINE Up(r) == IF r.status = "Evaluating" THEN [r EXCEPT !.status = "NeedsReview"] ELSE r
             requests == [i \in DOMAIN pay.requests |-> Up(pay.requests[i])]
  <1>1. /\ pay.requests \in Seq(Request1) /\ \A i \in DOMAIN pay.requests : Counted(pay.requests[i])
        /\ pay \in Payments /\ Len(pay.requests) <= 2
    BY DEF PaySide, Payments
  <1>2. pay' = [pay EXCEPT !.requests = requests]
    BY <1>1 DEF Upgraded, Payments
  <1>3. ASSUME NEW r \in Request1, Counted(r)
        PROVE  Up(r) \in Request1 /\ Counted(Up(r)) /\ (r.status = "Succeeded" => Up(r) = r)
    BY <1>3 DEF Request1, Counted
  <1> HIDE DEF Up
  <1>4. \A i \in DOMAIN pay.requests : pay.requests[i] \in Request1
    BY <1>1
  <1>5. requests \in Seq(Request1) /\ Len(requests) = Len(pay.requests)
    <2>1. DOMAIN pay.requests = 1..Len(pay.requests) /\ Len(pay.requests) \in Nat
      BY <1>1
    <2> QED  BY <1>1, <1>3, <1>4, <2>1
  <1>6. \A i \in DOMAIN requests : Counted(requests[i])
    BY <1>1, <1>3, <1>4
  <1>7. \A i \in DOMAIN pay.requests : pay.requests[i].status = "Succeeded" => requests[i] = pay.requests[i]
    BY <1>1, <1>3, <1>4
  <1> HIDE DEF requests
  <1>8. pay.controller # None \/ requests = <<>>
    BY <1>5 DEF PaySide
  <1>9. PaySide' /\ pay'.requests = requests /\ pay'.controller = pay.controller
    BY <1>1, <1>2, <1>5, <1>6, <1>8, RequestsBecome
  <1> QED  BY <1>5, <1>7, <1>9

\* The first request is submitted to an executor that has none, the second after the first.
LEMMA SubmitLeaves ==
    ASSUME HarnessTypes, NEW t \in Process, Submits(t)
    PROVE  /\ PaySide' /\ pay'.controller = pay.controller
           /\ \A i \in DOMAIN pay.requests : i \in DOMAIN pay'.requests /\ pay'.requests[i] = pay.requests[i]
           /\ Len(pay'.requests) > 0
  <1>1. /\ PaySide /\ pay.requests \in Seq(Request1) /\ \A i \in DOMAIN pay.requests : Counted(pay.requests[i])
        /\ Len(pay.requests) <= 2
    BY DEF HarnessTypes, PaySide, Payments
  <1> DEFINE n == tool[t].count + 1
             r == [status |-> "Received", answered |-> 0, booked |-> FALSE]
             requests == Append(pay.requests, r)
  <1>2. n \in {1, 2} /\ n <= Len(pay.requests) + 1
    <2>1. job[t].kind = "integrate" /\ tool[t].at = "submit"
      BY TypesOf DEF Submits, Local, InferLocal, MeasureLocal, InferPlaces, MeasurePlaces, Loading, InTier, Early
    <2>2. tool[t].count \in {0, 1}
      BY <2>1, TypesOf DEF Local, IntegrateLocal
    <2> QED  BY <2>2 DEF Submits
  <1>3. CASE n \in DOMAIN pay.requests
    <2>1. pay' = pay
      BY <1>3 DEF Submits
    <2>2. Len(pay.requests) > 0
      BY <1>1, <1>3
    <2> QED  BY <1>1, <2>1, <2>2 DEF PaySide
  <1>4. CASE n \notin DOMAIN pay.requests
    <2>1. pay' = [pay EXCEPT !.requests = requests]
      BY <1>1, <1>4 DEF Submits, PaySide, Payments
    <2>2. r \in Request1 /\ Counted(r)
      BY HarnessAssumption DEF Request1, Counted
    <2> HIDE DEF r
    <2>3. Len(pay.requests) \in Nat /\ Len(pay.requests) < 2
      BY <1>1, <1>2, <1>4
    <2>4. requests \in Seq(Request1) /\ Len(requests) = Len(pay.requests) + 1
      BY <1>1, <2>2
    <2>5. /\ requests[Len(pay.requests) + 1] = r
          /\ \A i \in DOMAIN pay.requests : i \in DOMAIN requests /\ requests[i] = pay.requests[i]
      BY <1>1, <2>2
    <2>6. ASSUME NEW i \in DOMAIN requests PROVE Counted(requests[i])
      <3>1. i = Len(pay.requests) + 1 \/ i \in DOMAIN pay.requests
        BY <1>1, <2>3, <2>4
      <3> QED  BY <1>1, <2>2, <2>5, <3>1
    <2> HIDE DEF requests
    <2>7. PaySide' /\ pay'.requests = requests /\ pay'.controller = pay.controller
      <3>1. \A i \in DOMAIN requests : Counted(requests[i])
        BY <2>6
      <3>2. Len(requests) <= 2 /\ requests \in Seq(Request1)
        BY <2>3, <2>4
      <3>3. pay.controller # None
        BY HarnessAssumption, TypesOf DEF Submits, Paid, Jobs
      <3> QED  BY <1>1, <2>1, <3>1, <3>2, <3>3, RequestsBecome
    <2> QED  BY <2>3, <2>4, <2>5, <2>7
  <1> QED  BY <1>3, <1>4

\* Requests count the signals that they were judged on.
LEMMA PaySteps ==
    ASSUME HarnessTypes, NEW t \in Process, Proceeds(t) \/ Killed(t)
    PROVE  PaySide'
  <1>1. PaySide /\ pay \in Payments
    BY DEF HarnessTypes, PaySide
  <1>2. CASE UNCHANGED pay
    BY <1>1, <1>2 DEF PaySide
  <1>3. CASE StartNetwork(t)
    <2>1. pay' \in Payments /\ pay'.requests = <<>>
      BY <1>3 DEF StartNetwork, NoPayments, Payments
    <2> QED  BY <2>1 DEF PaySide
  <1>4. CASE Provision(t)
    <2>1. job[t].identity \in Caller
      BY TypesOf DEF Jobs
    <2>2. /\ pay' \in Payments /\ pay'.requests = pay.requests
          /\ pay'.controller = None => pay.controller = None
      BY <1>1, <1>4, <2>1, HarnessAssumption DEF Provision, Payments
    <2> QED  BY <1>1, <2>2 DEF PaySide
  <1>5. CASE InstallsExecutor(t)
    <2>1. CASE pay' = [pay EXCEPT !.installed = TRUE, !.requests = <<>>]
      <3> DEFINE none == <<>>
      <3>1. none \in Seq(Request1) /\ Len(none) <= 2 /\ \A i \in DOMAIN none : Counted(none[i])
        OBVIOUS
      <3>2. pay' = [pay EXCEPT !.installed = TRUE, !.requests = none] /\ none = <<>>
        BY <2>1
      <3> HIDE DEF none
      <3> QED  BY <1>1, <3>1, <3>2, RequestsBecome
    <2>2. CASE pay' = Upgraded
      BY <1>1, <2>2, UpgradeLeaves
    <2> QED  BY <1>5, <2>1, <2>2 DEF InstallsExecutor
  <1>6. CASE Submits(t)
    BY <1>6, SubmitLeaves
  <1>7. CASE Advances(t) \/ Dispatches(t)
    BY <1>1, <1>7, CallLeaves, RequestReplaced
  <1>8. CASE Retries(t)
    BY <1>1, <1>8, RetryLeavesOne, RequestReplaced
  <1>9. CASE ChecksGuard(t)
    BY <1>1, <1>2, <1>9, UpgradeLeaves DEF ChecksGuard
  <1>10. \/ UNCHANGED pay \/ StartNetwork(t) \/ Provision(t) \/ InstallsExecutor(t) \/ Submits(t)
         \/ Advances(t) \/ Dispatches(t) \/ Retries(t) \/ ChecksGuard(t)
    BY DEF Proceeds, RequireLocal, Look, CheckPort, Admit, BeginsUpload, SendsChunk, StartsWarmup, WarmsNext,
       RegistersSchema, RegistersCalibration, MeasuresEvaluation, MeasuresPhases, Probes, WritesReport,
       ReadsActive, Infers, Names, EnablesFixture, StopNetwork, Install, Fails, Killed, Unmoved
  <1> QED  BY <1>2, <1>3, <1>4, <1>5, <1>6, <1>7, <1>8, <1>9, <1>10
-----------------------------------------------------------------------------
\* Nothing has begun.
LEMMA TypesInit == HarnessInit => HarnessTypes
  <1> SUFFICES ASSUME HarnessInit PROVE HarnessTypes
    OBVIOUS
  <1>1. EngineSide
    <2>1. LifecycleInv /\ EngineInv
      BY LifecycleInitHolds, EngineInitHolds DEF HarnessInit, EngineInit
    <2>2. clock \in 0..MaxTime
      BY EvaluationAssumption DEF HarnessInit, EngineInit
    <2>3. CoreTypes
      BY <2>2, CoreInitTypes DEF HarnessInit, EngineInit, CoreInit
    <2> QED  BY <2>1, <2>3 DEF EngineSide
  <1>2. job \in Assignment /\ \A t \in Process : job[t] \in Jobs
    BY HarnessAssumption DEF HarnessInit
  <1>3. NetworkSide
    <2>1. \A t \in Process : job[t].identity \in Caller
      BY <1>2 DEF Jobs
    <2>2. (CHOOSE t \in Process : TRUE) \in Process
      BY HarnessAssumption
    <2>3. job[CHOOSE t \in Process : TRUE].identity \in Caller /\ None \notin Caller
      BY <2>1, <2>2, HarnessAssumption
    <2> QED  BY <2>3 DEF HarnessInit, NetworkSide, NoCanister
  <1>4. PaySide
    <2>1. pay = [controller |-> None, installed |-> FALSE, requests |-> <<>>]
      BY DEF HarnessInit, NoPayments
    <2>2. pay \in Payments /\ pay.requests = <<>>
      BY <2>1 DEF Payments
    <2> QED  BY <2>2 DEF PaySide
  <1> DEFINE y == [at |-> "begin", here |-> FALSE, tier |-> 1, count |-> 0, asked |-> 0,
                   by |-> None, before |-> None, results |-> <<>>, passed |-> FALSE, left |-> FALSE]
  <1>5. tool = [t \in Process |-> y]
    BY DEF HarnessInit
  <1>6. y \in Tools
    BY DEF Tools, Bundles, Places, Outside
  <1>7. y.at = "begin" /\ y.here = FALSE /\ y.tier = 1 /\ y.results = <<>> /\ y.passed = FALSE
    OBVIOUS
  <1> HIDE DEF y
  <1>8. ASSUME NEW t \in Process PROVE Local(job[t], tool[t])
    <2>1. tool[t] = y /\ job[t] \in Jobs /\ Len(job[t].packs) \in Nat
      BY <1>2, <1>5 DEF Jobs
    <2>2. InferLocal(job[t], y)
      BY <1>7 DEF InferLocal, InferPlaces, Loading
    <2>3. IntegrateLocal(job[t], y)
      BY <1>7 DEF IntegrateLocal, IntegratePlaces
    <2>4. MeasureLocal(job[t], y)
      BY <1>7, <2>1 DEF MeasureLocal, MeasurePlaces, Early, InTier
    <2>5. ChunkLocal(job[t], y)
      BY <1>7 DEF ChunkLocal
    <2> QED  BY <1>6, <2>1, <2>2, <2>3, <2>4, <2>5 DEF Local
  <1> QED  BY <1>1, <1>2, <1>3, <1>4, <1>5, <1>6, <1>8 DEF HarnessTypes

\* Every step keeps the types and what they are kept with.
LEMMA TypesStep == HarnessTypes /\ [HarnessNext]_harnessVars => HarnessTypes'
  <1> SUFFICES ASSUME HarnessTypes, [HarnessNext]_harnessVars PROVE HarnessTypes'
    OBVIOUS
  <1>1. ASSUME NEW t \in Process, Proceeds(t) \/ Killed(t) PROVE HarnessTypes'
    <2>1. EngineSide' /\ NetworkSide' /\ PaySide' /\ Steps(t)
      BY <1>1, EngineSteps, NetworkSteps, PaySteps, EachSteps
    <2>2. ASSUME NEW u \in Process PROVE Local(job[u], tool[u])'
      BY <2>1, TypesOf DEF Steps
    <2> QED  BY <2>1, <2>2 DEF HarnessTypes, Steps
  <1>2. CASE UNCHANGED harnessVars
    <2>1. EngineSide'
      BY <1>2, EngineStays DEF HarnessTypes, harnessVars, NoEngineStep
    <2> QED  BY <1>2, <2>1 DEF HarnessTypes, harnessVars, NetworkSide, PaySide
  <1> QED  BY <1>1, <1>2 DEF HarnessNext

\* They hold throughout.
LEMMA TypesHold == HarnessSpec => []HarnessTypes
  <1> QED  BY TypesInit, TypesStep, PTL DEF HarnessSpec

\* Whatever the tools do at once, the engine, the network and the payments keep their types, and
\* each tool is at a place of its kind and in a tier that it has (measure_inference.py:570).
THEOREM HarnessTypeCorrect == HarnessSpec => []HarnessTypeOK
  <1>1. HarnessTypes => HarnessTypeOK
    <2> SUFFICES ASSUME HarnessTypes PROVE HarnessTypeOK
      OBVIOUS
    <2>1. EngineTypeOK
      BY EngineTypes DEF HarnessTypes, EngineSide, LifecycleInv
    <2>2. /\ network.up \in BOOLEAN /\ network.starter \in Process \cup {None}
          /\ canister.controller \in Caller \cup {None}
          /\ canister.installed => canister.controller # None
      BY DEF HarnessTypes, NetworkSide
    <2>3. ASSUME NEW i \in DOMAIN pay.requests
          PROVE  /\ pay.requests[i].status \in {"Received", "Evaluating", "NeedsReview", "ReadyToDispatch",
                                                "OutcomeUnknown", "Succeeded", "FailedDefinitive"}
                 /\ pay.requests[i].answered \in 0..Signals /\ pay.requests[i].booked \in BOOLEAN
      <3>1. pay.requests[i] \in Request1
        BY DEF HarnessTypes, PaySide, Payments
      <3> QED  BY <3>1 DEF Request1
    <2>4. ASSUME NEW t \in Process
          PROVE  /\ tool[t].at \in Places /\ tool[t].tier \in 1..(Len(job[t].packs) + 1)
                 /\ tool[t].at \in InTier /\ job[t].kind # "integrate" => tool[t].tier <= Len(job[t].packs)
      <3>1. /\ tool[t].at \in Places /\ tool[t].tier \in Nat \ {0} /\ Len(job[t].packs) \in Nat
            /\ job[t].kind \in {"measure", "phases", "integrate", "infer"}
            /\ InferLocal(job[t], tool[t]) /\ IntegrateLocal(job[t], tool[t]) /\ MeasureLocal(job[t], tool[t])
        BY TypesOf DEF Tools, Local
      <3>2. tool[t].tier <= Len(job[t].packs) + 1
        BY <3>1 DEF InferLocal, IntegrateLocal, MeasureLocal
      <3> QED  BY <3>1, <3>2, PackOfTier
    <2> QED  BY <2>1, <2>2, <2>3, <2>4 DEF HarnessTypeOK
  <1> QED  BY <1>1, TypesHold, PTL
-----------------------------------------------------------------------------
\* On a connected network no tool comes further than to look at it.
Aside == {"begin", "look", "start", "ended"}
RemoteInv == ~network.managed => network.up /\ \A t \in Process : tool[t].at \in Aside

\* A tool that started the network finds it up, and started by itself.
StarterInv ==
    \A t \in Process : tool[t].here /\ tool[t].at \notin Aside => network.up /\ network.starter = t

\* What a tool may do on a network that is not local: look, and end.
LEMMA RemoteSteps ==
    ASSUME HarnessTypes, RemoteInv, ~network.managed, NEW t \in Process, Proceeds(t) \/ Killed(t)
    PROVE  /\ UNCHANGED <<network, canister, pay, engineVars>>
           /\ tool'[t].at \in Aside /\ \A u \in Process \ {t} : tool'[u] = tool[u]
  <1>1. tool[t].at \in Aside /\ network.managed = FALSE /\ tool \in [Process -> Tools] /\ tool[t] \in Tools
    BY TypesOf DEF RemoteInv, HarnessTypes, NetworkSide
  <1>2. RequireLocal(t) \/ Look(t) \/ Fails(t) \/ Killed(t)
    BY <1>1 DEF Proceeds, Aside, StartNetwork, CheckPort, StopNetwork, Provision, Install, Admit, BeginsUpload,
       SendsChunk, StartsWarmup, WarmsNext, RegistersSchema, RegistersCalibration, MeasuresEvaluation,
       MeasuresPhases, Probes, WritesReport, ReadsActive, Infers, Names, InstallsExecutor, EnablesFixture,
       Submits, Advances, Dispatches, Retries, ChecksGuard
  <1>3. UNCHANGED <<network, canister, pay, engineVars>>
    BY <1>2 DEF RequireLocal, Look, Fails, Killed, Unmoved, NoEngineStep
  <1>4. \A u \in Process \ {t} : tool'[u] = tool[u]
    BY EachSteps DEF Steps
  <1>5. tool'[t].at \in Aside
    <2>1. CASE RequireLocal(t)
      BY <1>1, <2>1 DEF RequireLocal, Goes, Aside, Tools
    <2>2. CASE Look(t)
      BY <1>1, <2>2 DEF Look, Usable, Aside, Tools
    <2>3. CASE Fails(t)
      BY <1>1, <2>3 DEF Fails, Goes, Unwinds, Outside, InTier, Aside, Tools
    <2>4. CASE Killed(t)
      BY <1>1, <2>4 DEF Killed, Aside, Tools
    <2> QED  BY <1>2, <2>1, <2>2, <2>3, <2>4
  <1> QED  BY <1>3, <1>4, <1>5

\* Only where a tool looks does it note that it will start the network, and only a record takes it
\* to another tier.
LEMMA FieldsKept ==
    ASSUME HarnessTypes, NEW t \in Process, Proceeds(t) \/ Killed(t), ~Look(t)
    PROVE  /\ tool'[t].here = tool[t].here
           /\ tool'[t].tier = tool[t].tier \/ \E r : Recorded(t, r)
  <1>1. tool \in [Process -> Tools] /\ tool[t] \in Tools
    BY TypesOf
  <1>2. ASSUME \/ RequireLocal(t) \/ StartNetwork(t) \/ CheckPort(t) \/ StopNetwork(t) \/ Provision(t)
               \/ Install(t) \/ Admit(t) \/ RegistersSchema(t) \/ InstallsExecutor(t) \/ EnablesFixture(t)
        PROVE  tool'[t].here = tool[t].here /\ tool'[t].tier = tool[t].tier
    BY <1>1, <1>2 DEF Tools, RequireLocal, StartNetwork, CheckPort, StopNetwork, Provision, Install, Admit,
       RegistersSchema, InstallsExecutor, EnablesFixture, Goes
  <1>3. ASSUME Submits(t) \/ Advances(t) \/ Dispatches(t) \/ Retries(t) \/ ChecksGuard(t)
        PROVE  tool'[t].here = tool[t].here /\ tool'[t].tier = tool[t].tier
    <2>1. CASE Advances(t)
      <3>1. \E k, place : tool' = [tool EXCEPT ![t].asked = k, ![t].at = place]
        BY <2>1 DEF Advances, Advanced
      <3> QED  BY <1>1, <3>1 DEF Tools
    <2>2. CASE Dispatches(t)
      <3>1. \E place, passed : tool' = [tool EXCEPT ![t].at = place, ![t].passed = passed]
        BY <2>2 DEF Dispatches
      <3> QED  BY <1>1, <3>1 DEF Tools
    <2>3. CASE Retries(t)
      <3>1. tool' = [tool EXCEPT ![t].at = "submit", ![t].count = 1] \/ Goes(t, "stopping")
        BY <2>3 DEF Retries
      <3> QED  BY <1>1, <3>1 DEF Tools, Goes
    <2>4. CASE Submits(t) \/ ChecksGuard(t)
      BY <1>1, <2>4 DEF Tools, Submits, ChecksGuard, Goes
    <2> QED  BY <1>3, <2>1, <2>2, <2>3, <2>4
  <1>4. ASSUME \/ BeginsUpload(t) \/ SendsChunk(t) \/ StartsWarmup(t) \/ WarmsNext(t) \/ RegistersCalibration(t)
               \/ MeasuresPhases(t) \/ WritesReport(t) \/ ReadsActive(t) \/ Infers(t) \/ Names(t) \/ Killed(t)
        PROVE  tool'[t].here = tool[t].here /\ tool'[t].tier = tool[t].tier
    BY <1>1, <1>4 DEF Tools, BeginsUpload, SendsChunk, StartsWarmup, WarmsNext, RegistersCalibration,
       MeasuresPhases, WritesReport, ReadsActive, Infers, Names, Killed
  <1>5. ASSUME NEW r, Recorded(t, r) PROVE tool'[t].here = tool[t].here
    BY <1>1, <1>5 DEF Tools, Recorded
  <1>6. ASSUME Goes(t, Unwinds(t)) PROVE tool'[t].here = tool[t].here /\ tool'[t].tier = tool[t].tier
    BY <1>1, <1>6 DEF Tools, Goes
  <1>7. MeasuresEvaluation(t) \/ Probes(t) \/ Fails(t) => Goes(t, Unwinds(t)) \/ \E r : Recorded(t, r)
    BY DEF MeasuresEvaluation, Probes, Fails
  <1> QED  BY <1>2, <1>3, <1>4, <1>5, <1>6, <1>7 DEF Proceeds

\* Who started the network, and how others leave it alone.
LEMMA StarterSteps ==
    ASSUME HarnessTypes, StarterInv, NEW t \in Process, Proceeds(t) \/ Killed(t)
    PROVE  StarterInv'
  <1>1. /\ tool \in [Process -> Tools] /\ tool[t] \in Tools /\ \A u \in Process \ {t} : tool'[u] = tool[u]
        /\ network \in [up : BOOLEAN, managed : BOOLEAN, starter : Process \cup {None}]
    BY TypesOf, EachSteps DEF Steps, HarnessTypes, NetworkSide
  <1>2. CASE StartNetwork(t)
    <2>1. network' = [network EXCEPT !.up = TRUE, !.starter = t] /\ ~network.up
      BY <1>2 DEF StartNetwork
    <2>2. network'.up /\ network'.starter = t
      BY <1>1, <2>1
    <2> QED  BY <1>1, <2>1, <2>2 DEF StarterInv
  <1>3. CASE StopNetwork(t)
    <2>1. tool[t].at = "stopping" /\ \E stops, left :
            /\ tool' = [tool EXCEPT ![t].at = "ended", ![t].left = left]
            /\ network' = [network EXCEPT !.up = network.up /\ ~(tool[t].here /\ ~job[t].keep /\ stops)]
      BY <1>3 DEF StopNetwork
    <2>2. tool'[t].at \in Aside /\ tool[t].at \notin Aside
      BY <1>1, <2>1 DEF Aside, Tools
    <2>3. ASSUME NEW u \in Process, tool'[u].here, tool'[u].at \notin Aside
          PROVE  network'.up /\ network'.starter = u
      <3>1. u # t /\ network.up /\ network.starter = u
        BY <1>1, <2>2, <2>3 DEF StarterInv
      <3>2. ~tool[t].here
        BY <2>2, <3>1 DEF StarterInv
      <3> QED  BY <1>1, <2>1, <3>1, <3>2
    <2> QED  BY <2>3 DEF StarterInv
  <1>4. CASE ~StartNetwork(t) /\ ~StopNetwork(t)
    <2>1. network' = network
      BY <1>4 DEF Proceeds, RequireLocal, Look, CheckPort, Admit, BeginsUpload, SendsChunk, StartsWarmup, WarmsNext,
         RegistersSchema, RegistersCalibration, MeasuresEvaluation, MeasuresPhases, Probes, WritesReport,
         ReadsActive, Infers, Names, InstallsExecutor, EnablesFixture, Submits, Advances, Dispatches, Retries,
         ChecksGuard, Fails, Killed, Unmoved, Provision, Install
    <2>2. ASSUME tool'[t].here, tool'[t].at \notin Aside
          PROVE  tool[t].here /\ tool[t].at \notin Aside
      <3>1. CASE Look(t)
        <4>1. PICK heard \in BOOLEAN :
                tool' = [tool EXCEPT ![t].here = job[t].kind # "infer" /\ StartedHere(heard /\ Usable),
                                     ![t].at = IF heard /\ Usable THEN Ready(t)
                                               ELSE IF job[t].kind = "infer" THEN "ended" ELSE "start"]
          BY <3>1 DEF Look
        <4>2. CASE heard /\ Usable
          BY <1>1, <2>2, <4>1, <4>2 DEF Tools, StartedHere
        <4>3. CASE ~(heard /\ Usable)
          BY <1>1, <2>2, <4>1, <4>3 DEF Tools, Aside
        <4> QED  BY <4>2, <4>3
      <3>2. CASE ~Look(t)
        <4>1. tool[t].here
          BY <2>2, <3>2, FieldsKept
        <4>2. tool[t].at \in Aside => tool'[t].at \in Aside
          <5>1. CASE RequireLocal(t)
            BY <1>1, <5>1 DEF RequireLocal, Goes, Aside, Tools
          <5>2. CASE Fails(t)
            BY <1>1, <5>2 DEF Fails, Goes, Unwinds, Outside, InTier, Aside, Tools
          <5>3. CASE Killed(t)
            BY <1>1, <5>3 DEF Killed, Aside, Tools
          <5>4. CASE ~RequireLocal(t) /\ ~Fails(t) /\ ~Killed(t)
            BY <1>4, <3>2, <5>4 DEF Proceeds, Aside, CheckPort, Provision, Install, Admit, BeginsUpload,
               SendsChunk, StartsWarmup, WarmsNext, RegistersSchema, RegistersCalibration, MeasuresEvaluation,
               MeasuresPhases, Probes, WritesReport, ReadsActive, Infers, Names, InstallsExecutor, EnablesFixture,
               Submits, Advances, Dispatches, Retries, ChecksGuard
          <5> QED  BY <5>1, <5>2, <5>3, <5>4
        <4> QED  BY <2>2, <4>1, <4>2
      <3> QED  BY <3>1, <3>2
    <2> QED  BY <1>1, <2>1, <2>2 DEF StarterInv
  <1> QED  BY <1>2, <1>3, <1>4

NetworkInv == HarnessTypes /\ RemoteInv /\ StarterInv

\* They hold throughout.
LEMMA NetworkHolds == HarnessSpec => []NetworkInv
  <1>1. HarnessInit => NetworkInv
    <2> SUFFICES ASSUME HarnessInit PROVE NetworkInv
      OBVIOUS
    <2>1. \A t \in Process : tool[t].at = "begin"
      BY DEF HarnessInit
    <2>2. RemoteInv
      <3>1. PICK managed \in BOOLEAN, up \in BOOLEAN :
              network = [up |-> up \/ ~managed, managed |-> managed, starter |-> None]
        BY DEF HarnessInit
      <3>2. ASSUME ~network.managed PROVE network.up
        BY <3>1, <3>2
      <3> QED  BY <2>1, <3>2 DEF RemoteInv, Aside
    <2>3. StarterInv
      BY <2>1 DEF StarterInv, Aside
    <2> QED  BY <2>2, <2>3, TypesInit DEF NetworkInv
  <1>2. NetworkInv /\ [HarnessNext]_harnessVars => NetworkInv'
    <2> SUFFICES ASSUME NetworkInv, [HarnessNext]_harnessVars PROVE NetworkInv'
      OBVIOUS
    <2>1. HarnessTypes'
      BY TypesStep DEF NetworkInv
    <2>2. ASSUME NEW t \in Process, Proceeds(t) \/ Killed(t) PROVE RemoteInv' /\ StarterInv'
      <3>1. StarterInv'
        BY <2>2, StarterSteps DEF NetworkInv
      <3>2. CASE ~network.managed
        <4>1. /\ network' = network /\ tool'[t].at \in Aside
              /\ \A u \in Process \ {t} : tool'[u] = tool[u]
          BY <2>2, <3>2, RemoteSteps DEF NetworkInv
        <4>2. network.up /\ \A u \in Process : tool[u].at \in Aside
          BY <3>2 DEF NetworkInv, RemoteInv
        <4>3. ASSUME NEW u \in Process PROVE tool'[u].at \in Aside
          BY <4>1, <4>2
        <4>4. network'.up
          BY <4>1, <4>2
        <4>5. RemoteInv'
          BY <4>3, <4>4 DEF RemoteInv
        <4> QED  BY <3>1, <4>5
      <3>3. CASE network.managed
        <4>1. network'.managed
          BY <2>2, <3>3 DEF Proceeds, RequireLocal, Look, CheckPort, Admit, BeginsUpload, SendsChunk, StartsWarmup,
             WarmsNext, RegistersSchema, RegistersCalibration, MeasuresEvaluation, MeasuresPhases, Probes,
             WritesReport, ReadsActive, Infers, Names, InstallsExecutor, EnablesFixture, Submits, Advances,
             Dispatches, Retries, ChecksGuard, Fails, Killed, Unmoved, Provision, Install, StartNetwork,
             StopNetwork, NetworkInv, HarnessTypes, NetworkSide
        <4>2. RemoteInv'
          BY <4>1 DEF RemoteInv
        <4> QED  BY <3>1, <4>2
      <3> QED  BY <3>1, <3>2, <3>3
    <2>3. CASE UNCHANGED harnessVars
      BY <2>1, <2>3 DEF harnessVars, NetworkInv, RemoteInv, StarterInv
    <2> QED  BY <2>1, <2>2, <2>3 DEF HarnessNext, NetworkInv
  <1> QED  BY <1>1, <1>2, PTL DEF HarnessSpec

\* A network is stopped only by the tool that started it, and one that is not local is not touched,
\* however status calls fail and tools die (measure_common.py: require_local_network).
THEOREM OnlyOwn == HarnessSpec => OnlyOwnNetworks
  <1> DEFINE Stays == network.up /\ ~network'.up =>
                        \E t \in Process : network.starter = t /\ tool'[t] # tool[t]
             Untouched == ~network.managed => UNCHANGED <<network, canister, pay, engineVars>>
  <1>1. NetworkInv /\ [HarnessNext]_harnessVars => [Stays]_harnessVars /\ [Untouched]_harnessVars
    <2> SUFFICES ASSUME NetworkInv, NEW t \in Process, Proceeds(t) \/ Killed(t) PROVE Stays /\ Untouched
      BY DEF HarnessNext
    <2>1. Untouched
      BY RemoteSteps DEF NetworkInv
    <2>2. ASSUME network.up, ~network'.up PROVE network.starter = t /\ tool'[t] # tool[t]
      <3>1. StopNetwork(t)
        BY <2>2 DEF Proceeds, RequireLocal, Look, CheckPort, Admit, BeginsUpload, SendsChunk, StartsWarmup,
           WarmsNext, RegistersSchema, RegistersCalibration, MeasuresEvaluation, MeasuresPhases, Probes,
           WritesReport, ReadsActive, Infers, Names, InstallsExecutor, EnablesFixture, Submits, Advances,
           Dispatches, Retries, ChecksGuard, Fails, Killed, Unmoved, Provision, Install, StartNetwork
      <3>2. tool[t].at = "stopping" /\ \E stops, left :
              /\ tool' = [tool EXCEPT ![t].at = "ended", ![t].left = left]
              /\ network' = [network EXCEPT !.up = network.up /\ ~(tool[t].here /\ ~job[t].keep /\ stops)]
        BY <3>1 DEF StopNetwork
      <3>3. /\ tool \in [Process -> Tools] /\ tool[t] \in Tools
            /\ network \in [up : BOOLEAN, managed : BOOLEAN, starter : Process \cup {None}]
        BY TypesOf DEF NetworkInv, HarnessTypes, NetworkSide
      <3>4. tool[t].here
        BY <2>2, <3>2, <3>3
      <3>5. network.starter = t
        BY <3>2, <3>4 DEF NetworkInv, StarterInv, Aside
      <3>6. tool'[t].at = "ended"
        BY <3>2, <3>3 DEF Tools
      <3> QED  BY <3>2, <3>5, <3>6
    <2> QED  BY <2>1, <2>2
  <1> QED
    BY <1>1, NetworkHolds, PTL DEF HarnessSpec, OnlyOwnNetworks, OthersNetworkStays, RemoteUntouched
-----------------------------------------------------------------------------
\* Where a tier, or what comes before the first one, has not begun its upload.
Before == Early \cup {"upload"}

\* A tool that has still to upload pack p.
Future(p) ==
    \E u \in Process : \E i \in DOMAIN job[u].packs :
      /\ job[u].kind # "integrate" /\ job[u].packs[i] = p
      /\ i > tool[u].tier \/ (i = tool[u].tier /\ tool[u].at \in Before)

UploadIs(p) == upload # None /\ upload.pack = p

\* A pack that is uploaded once is not expected when it is here: when it is gone, it is gone.
OnceInv == \A p \in Pack : LoadedOnce(p) /\ (activeModel = p \/ UploadIs(p)) => ~Future(p)

\* The pack that "infer" looks for afterwards, but for a query, which looks for the one it met.
Sought(t) == IF job[t].route = "budget" THEN Budgeted ELSE job[t].packs[1]

InferTrue(t) ==
    job[t].kind = "infer" /\ Vouches(t) =>
      /\ tool[t].at \in {"infer", "name"} /\ job[t].route = "budget" =>
           tool[t].before = Budgeted /\ ~Future(Budgeted)
      /\ tool[t].at = "name" /\ job[t].route # "query" /\ tool[t].by # Sought(t) =>
           ~Future(Sought(t)) /\ activeModel # Sought(t) /\ ~UploadIs(Sought(t))
      /\ \A i \in DOMAIN tool[t].results : tool[t].results[i].by = tool[t].results[i].pack

InferInv == OnceInv /\ \A t \in Process : InferTrue(t)

\* A step that begins no upload replaces no pack, and activates the one that was uploaded.
Replaces == upload' = None \/ (upload # None /\ upload' # None /\ upload'.pack = upload.pack)
Activates == \A p \in Pack : activeModel' = p => activeModel = p \/ UploadIs(p)

\* The upload and the active pack under the steps of a tool.
LEMMA EngineEffect ==
    ASSUME HarnessTypes, NEW t \in Process, Proceeds(t) \/ Killed(t), ~BeginsUpload(t)
    PROVE  Replaces /\ Activates
  <1>1. /\ NoBundle \notin Pack /\ Synthetic \notin Pack /\ LifecycleInv
        /\ upload = None \/ upload.pack \in Pack
    BY HarnessAssumption, EvaluationAssumption DEF HarnessTypes, EngineSide, LifecycleInv, LifecycleTypeOK
  <1>2. CASE UNCHANGED <<upload, activeModel>>
    BY <1>2 DEF Replaces, Activates
  <1>3. CASE FreshEngine
    BY <1>1, <1>3 DEF FreshEngine, Replaces, Activates
  <1>4. CASE EnablesFixture(t)
    BY <1>1, <1>4 DEF EnablesFixture, EnableSyntheticFixture, Replaces, Activates
  <1>5. CASE SendsChunk(t)
    <2>1. upload # None /\ activeModel' = activeModel /\ (upload' = upload \/ UploadChunk(tool[t].count, <<CellOf(PackOf(t), tool[t].count)>>))
      BY <1>5 DEF SendsChunk, UploadChunk, lifecycle, stable
    <2>2. CASE upload' = upload
      BY <2>1, <2>2 DEF Replaces, Activates
    <2>3. CASE UploadChunk(tool[t].count, <<CellOf(PackOf(t), tool[t].count)>>)
      <3> DEFINE end == tool[t].count + Len(<<CellOf(PackOf(t), tool[t].count)>>)
      <3>1. upload' = [upload EXCEPT !.received = end]
        BY <2>3 DEF UploadChunk
      <3>2. tool[t].count \in Nat /\ end \in Nat
        BY TypesOf DEF Tools
      <3> HIDE DEF end
      <3>3. upload \in [pack : Pack, received : Nat]
        BY <1>1, <2>1 DEF LifecycleInv, LifecycleTypeOK
      <3>4. upload' \in [pack : Pack, received : Nat] /\ upload'.pack = upload.pack
        BY <3>1, <3>2, <3>3
      <3> QED  BY <2>1, <3>4, PackAssumption DEF Replaces, Activates
    <2> QED  BY <2>1, <2>2, <2>3
  <1>6. CASE WarmsNext(t)
    <2>1. upload' = upload /\ (activeModel' = activeModel \/ activeModel' = builder.pack) /\ builder # None
      BY <1>6 DEF WarmsNext, WarmupNext
    <2>2. upload # None /\ upload.pack = builder.pack
      BY <1>1, <2>1 DEF LifecycleInv, MemoryInv, OneModelInMemory, InMemoryIsUploaded
    <2> QED  BY <2>1, <2>2 DEF Replaces, Activates, UploadIs
  <1>7. UNCHANGED <<upload, activeModel>> \/ FreshEngine \/ EnablesFixture(t) \/ SendsChunk(t) \/ WarmsNext(t)
    BY DEF Proceeds, RequireLocal, Look, CheckPort, StopNetwork, Provision, MeasuresPhases, WritesReport,
       ReadsActive, Infers, Names, InstallsExecutor, Submits, Dispatches, Retries, ChecksGuard, Fails, Killed,
       NoEngineStep, engineVars, lifecycle, stable, StartNetwork, Install, Upgrade, Admit, AllowCaller,
       StartsWarmup, StartWarmup, RegistersSchema, RegisterSchema, RegistersCalibration, RegisterCalibration,
       MeasuresEvaluation, Probes, Advances, Evaluate
  <1> QED  BY <1>2, <1>3, <1>4, <1>5, <1>6, <1>7

\* A tier begins one upload, and is followed by the next one.
LEMMA TierMoves ==
    ASSUME HarnessTypes, NEW t \in Process, Proceeds(t) \/ Killed(t), job[t].kind # "integrate"
    PROVE  \/ tool'[t].tier = tool[t].tier + 1 /\ ~BeginsUpload(t)
           \/ /\ tool'[t].tier = tool[t].tier
              /\ tool'[t].at \in Before => tool[t].at \in Before /\ ~BeginsUpload(t)
  <1>1. /\ tool \in [Process -> Tools] /\ tool[t] \in Tools /\ tool[t].tier \in Nat \ {0}
        /\ InferLocal(job[t], tool[t]) /\ MeasureLocal(job[t], tool[t])
        /\ job[t].kind \in {"measure", "phases", "infer"}
    BY TypesOf DEF Local, Tools
  <1>2. CASE BeginsUpload(t)
    BY <1>1, <1>2 DEF BeginsUpload, Before, Early, Tools
  <1>3. CASE \E r : Recorded(t, r) /\ ~BeginsUpload(t)
    BY <1>1, <1>3 DEF Recorded, Tools
  <1>4. CASE ~BeginsUpload(t) /\ ~\E r : Recorded(t, r)
    <2>1. tool'[t].tier = tool[t].tier
      <3>1. CASE Look(t)
        <4>1. \E here, place : tool' = [tool EXCEPT ![t].here = here, ![t].at = place]
          BY <3>1 DEF Look
        <4> QED  BY <1>1, <4>1 DEF Tools
      <3> QED  BY <1>4, <3>1, FieldsKept
    <2>2. SUFFICES ASSUME tool[t].at \notin Before PROVE tool'[t].at \notin Before
      BY <1>4, <2>1
    <2>3. \/ SendsChunk(t) \/ StartsWarmup(t) \/ WarmsNext(t) \/ RegistersSchema(t) \/ RegistersCalibration(t)
          \/ MeasuresPhases(t) \/ WritesReport(t) \/ ReadsActive(t)
          \/ Infers(t) \/ Names(t) \/ StopNetwork(t) \/ Fails(t) \/ Killed(t)
      BY <1>1, <1>4, <2>2 DEF Proceeds, Before, Early, InferLocal, MeasureLocal, InferPlaces, MeasurePlaces, InTier,
         Loading, RequireLocal, Look, StartNetwork, CheckPort, Provision, Install, Admit, BeginsUpload,
         MeasuresEvaluation, Probes, InstallsExecutor, EnablesFixture, Submits, Advances, Dispatches, Retries,
         ChecksGuard
    <2>4. CASE SendsChunk(t) \/ StartsWarmup(t) \/ RegistersSchema(t) \/ RegistersCalibration(t)
      BY <1>1, <2>4 DEF SendsChunk, StartsWarmup, RegistersSchema, RegistersCalibration, Goes, Before, Early, Tools
    <2>5. CASE WarmsNext(t)
      BY <1>1, <2>5 DEF WarmsNext, Asks, Before, Early, Tools
    <2>6. CASE \/ MeasuresPhases(t) \/ WritesReport(t) \/ ReadsActive(t) \/ Infers(t) \/ Names(t) \/ StopNetwork(t)
               \/ Killed(t)
      BY <1>1, <2>6 DEF MeasuresPhases, WritesReport, ReadsActive, Infers, Names, StopNetwork, Killed, Before,
         Early, Tools
    <2>7. CASE Fails(t)
      <3>1. Goes(t, Unwinds(t))
        BY <1>4, <2>7 DEF Fails
      <3> QED  BY <1>1, <3>1 DEF Goes, Unwinds, Before, Early, Tools
    <2> QED  BY <2>3, <2>4, <2>5, <2>6, <2>7
  <1> QED  BY <1>2, <1>3, <1>4

\* How "infer" moves.
LEMMA InferMoves ==
    ASSUME HarnessTypes, NEW t \in Process, Proceeds(t) \/ Killed(t), job[t].kind = "infer"
    PROVE  /\ tool'[t].results = tool[t].results \/ Names(t)
           /\ tool'[t].at = "infer" /\ job[t].route = "budget" => ReadsActive(t)
           /\ tool'[t].at = "name" => Infers(t)
  <1>1. /\ tool \in [Process -> Tools] /\ tool[t] \in Tools /\ tool[t].at \in InferPlaces
    BY TypesOf DEF Local, InferLocal
  <1>2. \/ RequireLocal(t) \/ Look(t) \/ Provision(t) \/ Install(t) \/ BeginsUpload(t) \/ SendsChunk(t)
        \/ StartsWarmup(t) \/ WarmsNext(t) \/ ReadsActive(t) \/ Infers(t) \/ Names(t) \/ Fails(t) \/ Killed(t)
    BY <1>1 DEF Proceeds, InferPlaces, Loading, StartNetwork, CheckPort, StopNetwork, Admit, RegistersSchema,
       RegistersCalibration, MeasuresEvaluation, MeasuresPhases, Probes, WritesReport, InstallsExecutor,
       EnablesFixture, Submits, Advances, Dispatches, Retries, ChecksGuard
  <1>3. CASE RequireLocal(t) \/ Provision(t)
    BY <1>1, <1>3 DEF RequireLocal, Provision, Goes, Tools
  <1>4. CASE Look(t)
    <2>1. PICK place \in {Ready(t), "ended"} : \E here : tool' = [tool EXCEPT ![t].here = here, ![t].at = place]
      BY <1>4 DEF Look
    <2>2. tool'[t].at = place /\ tool'[t].results = tool[t].results
      BY <1>1, <2>1 DEF Tools
    <2>3. place \in {"provision", Asks(t), "upload", "ended"}
      BY <2>1, ReadyPlace
    <2> QED  BY <2>2, <2>3 DEF Asks
  <1>5. CASE Install(t)
    <2>1. Goes(t, IF job[t].packs = <<>> THEN Asks(t) ELSE "upload")
      BY <1>5 DEF Install
    <2> QED  BY <1>1, <2>1 DEF Goes, Asks, Tools
  <1>6. CASE BeginsUpload(t) \/ SendsChunk(t) \/ StartsWarmup(t)
    BY <1>1, <1>6 DEF BeginsUpload, SendsChunk, StartsWarmup, Tools
  <1>7. CASE WarmsNext(t)
    BY <1>1, <1>7 DEF WarmsNext, Asks, Tools
  <1>8. CASE ReadsActive(t) \/ Infers(t) \/ Names(t) \/ Killed(t)
    BY <1>1, <1>8 DEF ReadsActive, Infers, Names, Killed, Tools
  <1>9. CASE Fails(t)
    <2>1. Goes(t, "ended")
      BY <1>9 DEF Fails, Unwinds
    <2> QED  BY <1>1, <2>1 DEF Goes, Tools
  <1> QED  BY <1>2, <1>3, <1>4, <1>5, <1>6, <1>7, <1>8, <1>9

\* Who begins an upload had still to do so.
LEMMA BeginsFuture ==
    ASSUME HarnessTypes, NEW v \in Process, BeginsUpload(v)
    PROVE  /\ job[v].kind # "integrate" /\ tool[v].tier \in DOMAIN job[v].packs
           /\ PackOf(v) \in Pack /\ Future(PackOf(v))
           /\ upload' # None /\ upload'.pack = PackOf(v) /\ activeModel' = activeModel
  <1>1. tool[v].at = "upload"
    BY DEF BeginsUpload
  <1>2. job[v].kind # "integrate"
    BY <1>1, TypesOf DEF Local, IntegrateLocal, IntegratePlaces, InWorkflow
  <1>3. PackOf(v) \in Pack /\ tool[v].tier \in DOMAIN job[v].packs
    BY <1>1, <1>2, PackOfTier, TypesOf DEF InTier
  <1>4. upload' = [pack |-> PackOf(v), received |-> 0] /\ activeModel' = activeModel
    BY DEF BeginsUpload, BeginUpload
  <1>5. upload' \in [pack : Pack, received : Nat] /\ upload'.pack = PackOf(v)
    BY <1>3, <1>4
  <1> QED  BY <1>1, <1>2, <1>3, <1>4, <1>5, PackAssumption DEF Future, PackOf, Before

\* What has still to be uploaded had to be before, and is not what is uploaded once and now.
LEMMA FutureStays ==
    ASSUME HarnessTypes, NEW v \in Process, Proceeds(v) \/ Killed(v), NEW p, Future(p)'
    PROVE  Future(p) /\ (BeginsUpload(v) /\ LoadedOnce(p) => PackOf(v) # p)
  <1>1. job' = job /\ \A u \in Process \ {v} : tool'[u] = tool[u]
    BY EachSteps DEF Steps
  <1>2. PICK u \in Process : \E i \in DOMAIN job[u].packs :
          /\ job[u].kind # "integrate" /\ job[u].packs[i] = p
          /\ i > tool'[u].tier \/ (i = tool'[u].tier /\ tool'[u].at \in Before)
    BY <1>1 DEF Future
  <1>3. PICK i \in DOMAIN job[u].packs :
          /\ job[u].kind # "integrate" /\ job[u].packs[i] = p
          /\ i > tool'[u].tier \/ (i = tool'[u].tier /\ tool'[u].at \in Before)
    BY <1>2
  <1>4. /\ i > tool[u].tier \/ (i = tool[u].tier /\ tool[u].at \in Before)
        /\ u = v /\ BeginsUpload(v) => i # tool[v].tier
    <2>1. CASE u # v
      BY <1>1, <1>3, <2>1
    <2>2. CASE u = v
      <3>1. i \in Nat /\ tool[v].tier \in Nat
        BY <1>3, <2>2, TypesOf DEF Tools
      <3>2. \/ tool'[v].tier = tool[v].tier + 1 /\ ~BeginsUpload(v)
            \/ /\ tool'[v].tier = tool[v].tier
               /\ tool'[v].at \in Before => tool[v].at \in Before /\ ~BeginsUpload(v)
        BY <1>3, <2>2, TierMoves
      <3> QED  BY <1>3, <2>2, <3>1, <3>2
    <2> QED  BY <2>1, <2>2
  <1>5. Future(p)
    BY <1>3, <1>4 DEF Future
  <1>6. ASSUME BeginsUpload(v), LoadedOnce(p), PackOf(v) = p PROVE FALSE
    <2>1. job[v].kind # "integrate" /\ tool[v].tier \in DOMAIN job[v].packs /\ job[v].packs[tool[v].tier] = p
      BY <1>6, BeginsFuture DEF PackOf
    <2>2. u = v /\ i = tool[v].tier
      BY <1>3, <1>6, <2>1 DEF LoadedOnce
    <2> QED  BY <1>4, <1>6, <2>2
  <1> QED  BY <1>5, <1>6

\* What a pack that is here, or uploaded, after a step was before it.
LEMMA HereBefore ==
    ASSUME HarnessTypes, NEW v \in Process, Proceeds(v) \/ Killed(v), NEW p \in Pack,
           activeModel' = p \/ UploadIs(p)'
    PROVE  \/ activeModel = p \/ UploadIs(p)
           \/ BeginsUpload(v) /\ PackOf(v) = p
  <1>1. UploadIs(p)' <=> upload' # None /\ upload'.pack = p
    BY DEF UploadIs
  <1>2. CASE BeginsUpload(v)
    BY <1>1, <1>2, BeginsFuture
  <1>3. CASE ~BeginsUpload(v)
    BY <1>1, <1>3, EngineEffect DEF Replaces, Activates, UploadIs
  <1> QED  BY <1>2, <1>3

\* A pack that was lost from sight is not seen again.
LEMMA StaysAway ==
    ASSUME HarnessTypes, NEW v \in Process, Proceeds(v) \/ Killed(v), NEW p \in Pack,
           ~Future(p), activeModel # p, ~UploadIs(p)
    PROVE  ~Future(p)' /\ activeModel' # p /\ ~UploadIs(p)'
  <1>1. ~(BeginsUpload(v) /\ PackOf(v) = p)
    BY BeginsFuture
  <1> QED  BY <1>1, FutureStays, HereBefore

\* The same while it is here.
LEMMA OnceSteps ==
    ASSUME HarnessTypes, OnceInv, NEW v \in Process, Proceeds(v) \/ Killed(v)
    PROVE  OnceInv'
  <1>1. job' = job
    BY EachSteps DEF Steps
  <1>2. SUFFICES ASSUME NEW p \in Pack, LoadedOnce(p), activeModel' = p \/ UploadIs(p)', Future(p)'
                 PROVE  FALSE
    BY <1>1 DEF OnceInv, LoadedOnce
  <1>3. Future(p) /\ (BeginsUpload(v) => PackOf(v) # p)
    BY <1>2, FutureStays
  <1>4. activeModel = p \/ UploadIs(p)
    BY <1>2, <1>3, HereBefore
  <1> QED  BY <1>2, <1>3, <1>4 DEF OnceInv

\* What "infer" looks for is a pack that is uploaded once, and by itself if it was told to.
LEMMA SoughtOnce ==
    ASSUME HarnessTypes, NEW t \in Process, job[t].kind = "infer", Vouches(t), job[t].route # "query"
    PROVE  /\ Sought(t) \in Pack /\ LoadedOnce(Sought(t))
           /\ job[t].route # "budget" => job[t].packs # <<>> /\ Sought(t) = PackOf(t)
           /\ job[t].route # "budget" /\ tool[t].at = "infer" => ~Future(Sought(t))
  <1>1. /\ tool[t].tier = 1 /\ job[t].packs \in Seq(Pack) /\ Len(job[t].packs) \in Nat
    BY TypesOf DEF Local, InferLocal
  <1>2. CASE job[t].route = "budget"
    BY <1>2, HarnessAssumption DEF Vouches, Sought
  <1>3. CASE job[t].route # "budget"
    <2>1. job[t].packs # <<>> /\ LoadedOnce(job[t].packs[1]) /\ Sought(t) = job[t].packs[1]
      BY <1>3 DEF Vouches, Sought
    <2>2. 1 \in DOMAIN job[t].packs /\ job[t].packs[1] \in Pack /\ PackOf(t) = job[t].packs[1]
      BY <1>1, <2>1 DEF PackOf
    <2>3. ASSUME tool[t].at = "infer", Future(Sought(t)) PROVE FALSE
      <3>1. PICK u \in Process : \E i \in DOMAIN job[u].packs :
              /\ job[u].kind # "integrate" /\ job[u].packs[i] = Sought(t)
              /\ i > tool[u].tier \/ (i = tool[u].tier /\ tool[u].at \in Before)
        BY <2>3 DEF Future
      <3>2. PICK i \in DOMAIN job[u].packs :
              /\ job[u].kind # "integrate" /\ job[u].packs[i] = Sought(t)
              /\ i > tool[u].tier \/ (i = tool[u].tier /\ tool[u].at \in Before)
        BY <3>1
      <3>3. u = t /\ i = 1
        BY <2>1, <2>2, <3>2 DEF LoadedOnce
      <3> QED  BY <1>1, <2>3, <3>2, <3>3 DEF Before, Early
    <2> QED  BY <1>3, <2>1, <2>2, <2>3
  <1> QED  BY <1>2, <1>3

\* Under the steps of any tool.
LEMMA InferSteps ==
    ASSUME HarnessTypes, OnceInv, NEW t \in Process, NEW v \in Process, Proceeds(v) \/ Killed(v), InferTrue(t)
    PROVE  InferTrue(t)'
  <1>1. job' = job /\ (\A u \in Process \ {v} : tool'[u] = tool[u]) /\ tool \in [Process -> Tools]
    BY EachSteps, TypesOf DEF Steps
  <1>2. SUFFICES ASSUME job[t].kind = "infer", Vouches(t) PROVE InferTrue(t)'
    BY <1>1 DEF InferTrue, Vouches, LoadedOnce
  <1>3. Sought(t)' = Sought(t)
    BY <1>1 DEF Sought
  <1>4. /\ tool[t].at \in {"infer", "name"} /\ job[t].route = "budget" =>
             tool[t].before = Budgeted /\ ~Future(Budgeted)
        /\ tool[t].at = "name" /\ job[t].route # "query" /\ tool[t].by # Sought(t) =>
             ~Future(Sought(t)) /\ activeModel # Sought(t) /\ ~UploadIs(Sought(t))
        /\ \A i \in DOMAIN tool[t].results : tool[t].results[i].by = tool[t].results[i].pack
    BY <1>2 DEF InferTrue
  <1>5. t = v => /\ tool'[t].results = tool[t].results \/ Names(t)
                 /\ tool'[t].at = "infer" /\ job[t].route = "budget" => ReadsActive(t)
                 /\ tool'[t].at = "name" => Infers(t)
    BY <1>2, InferMoves
  <1>6. ASSUME tool'[t].at \in {"infer", "name"}, job[t].route = "budget"
        PROVE  tool'[t].before = Budgeted /\ ~Future(Budgeted)'
    <2>1. CASE t # v
      BY <1>1, <1>4, <1>6, <2>1, FutureStays
    <2>2. CASE t = v /\ ReadsActive(t)
      <3>1. tool'[t].before = Budgeted /\ activeModel = Budgeted
        BY <1>1, <2>2 DEF ReadsActive, Tools
      <3>2. LoadedOnce(Budgeted) /\ Budgeted \in Pack
        BY <1>2, <1>6, HarnessAssumption DEF Vouches
      <3> QED  BY <3>1, <3>2, FutureStays DEF OnceInv
    <2>3. CASE t = v /\ Infers(t)
      <3>1. tool'[t].before = tool[t].before /\ tool[t].at = "infer"
        BY <1>1, <2>3 DEF Infers, Tools
      <3> QED  BY <1>4, <1>6, <3>1, FutureStays
    <2> QED  BY <1>5, <1>6, <2>1, <2>2, <2>3
  <1>7. ASSUME tool'[t].at = "name", job[t].route # "query", tool'[t].by # Sought(t)
        PROVE  ~Future(Sought(t))' /\ activeModel' # Sought(t) /\ ~UploadIs(Sought(t))'
    <2>1. /\ Sought(t) \in Pack
          /\ job[t].route # "budget" /\ tool[t].at = "infer" => ~Future(Sought(t))
      BY <1>2, <1>7, SoughtOnce
    <2>2. ~Future(Sought(t)) /\ activeModel # Sought(t) /\ ~UploadIs(Sought(t))
      <3>1. CASE t # v
        BY <1>1, <1>4, <1>7, <3>1
      <3>2. CASE t = v
        <4>1. tool[t].at = "infer" /\ model # None /\ tool'[t].by = model.bundle
          BY <1>1, <1>5, <1>7, <3>2 DEF Infers, Tools
        <4>2. model.bundle = activeModel /\ upload.pack = model.bundle
          BY <4>1 DEF HarnessTypes, EngineSide, LifecycleInv, MemoryInv, HotModelIsActive
        <4>3. ~Future(Sought(t))
          BY <1>4, <2>1, <4>1 DEF Sought
        <4> QED  BY <1>7, <4>1, <4>2, <4>3 DEF UploadIs
      <3> QED  BY <3>1, <3>2
    <2>3. PICK p \in Pack : p = Sought(t)
      BY <2>1
    <2>4. ~Future(p) /\ activeModel # p /\ ~UploadIs(p)
      BY <2>2, <2>3
    <2>5. ~Future(p)' /\ activeModel' # p /\ ~UploadIs(p)'
      BY <2>4, StaysAway
    <2>6. p = Sought(t)'
      BY <1>3, <2>3
    <2> QED  BY <2>3, <2>5, <2>6 DEF Future, UploadIs
  <1>8. \A i \in DOMAIN tool'[t].results : tool'[t].results[i].by = tool'[t].results[i].pack
    <2>1. CASE t = v /\ Names(t)
      <3>1. /\ tool[t].at = "name" /\ SamePack(t)
            /\ tool'[t].results = <<[pack |-> activeModel, by |-> tool[t].by]>>
        BY <1>1, <2>1 DEF Names, Tools
      <3>2. tool[t].by = activeModel
        <4>1. CASE job[t].route = "query"
          BY <3>1, <4>1 DEF SamePack
        <4>2. CASE job[t].route # "query"
          <5>1. activeModel = Sought(t)
            BY <1>2, <1>4, <3>1, <4>2, SoughtOnce DEF SamePack, Sought
          <5> QED  BY <1>4, <3>1, <4>2, <5>1
        <4> QED  BY <4>1, <4>2
      <3> QED  BY <3>1, <3>2
    <2>2. CASE ~(t = v /\ Names(t))
      <3>1. tool'[t].results = tool[t].results
        BY <1>1, <1>5, <2>2
      <3> QED  BY <1>4, <3>1
    <2> QED  BY <2>1, <2>2
  <1> QED  BY <1>1, <1>3, <1>6, <1>7, <1>8 DEF InferTrue

\* What "infer" vouches for, in every reachable state.
LEMMA InferHolds == HarnessSpec => [](HarnessTypes /\ InferInv)
  <1>1. HarnessInit => InferInv
    <2> SUFFICES ASSUME HarnessInit PROVE InferInv
      OBVIOUS
    <2>1. upload = None /\ activeModel = NoBundle /\ NoBundle \notin Pack
      BY HarnessAssumption DEF HarnessInit, EngineInit, LifecycleInit
    <2>2. \A t \in Process : tool[t].at = "begin" /\ tool[t].results = <<>>
      BY DEF HarnessInit
    <2> QED  BY <2>1, <2>2 DEF InferInv, OnceInv, UploadIs, InferTrue
  <1>2. HarnessTypes /\ InferInv /\ [HarnessNext]_harnessVars => InferInv'
    <2> SUFFICES ASSUME HarnessTypes, InferInv, [HarnessNext]_harnessVars PROVE InferInv'
      OBVIOUS
    <2>1. OnceInv /\ \A t \in Process : InferTrue(t)
      BY DEF InferInv
    <2>2. CASE UNCHANGED harnessVars
      <3>1. UNCHANGED <<job, tool, upload, activeModel>>
        BY <2>2 DEF harnessVars, engineVars, lifecycle, stable
      <3> QED
        BY <2>1, <3>1 DEF InferInv, OnceInv, InferTrue, Vouches, LoadedOnce, Future, UploadIs, Sought
    <2>3. CASE HarnessNext
      <3>1. PICK v \in Process : Proceeds(v) \/ Killed(v)
        BY <2>3 DEF HarnessNext
      <3>2. OnceInv' /\ \A t \in Process : InferTrue(t)'
        BY <2>1, <3>1, OnceSteps, InferSteps
      <3> QED  BY <3>2 DEF InferInv
    <2> QED  BY <2>2, <2>3
  <1> QED  BY <1>1, <1>2, TypesHold, PTL DEF HarnessSpec

\* An artifact is what it says, whatever else runs on the engine: each tier has one record, in
\* order, and what a tool vouches for was computed by the pack that it is reported of; a plain
\* inference without --pack vouches for nothing (canister_infer.py:296).
THEOREM ReportsTrue == HarnessSpec => []ReportsAreTrue
  <1>1. HarnessTypes /\ InferInv => ReportsAreTrue
    <2> SUFFICES ASSUME HarnessTypes, InferInv PROVE ReportsAreTrue
      OBVIOUS
    <2>1. ASSUME NEW t \in Process, job[t].kind \in {"measure", "phases"}
          PROVE  /\ Len(tool[t].results) = tool[t].tier - 1 /\ tool[t].tier - 1 <= Len(job[t].packs)
                 /\ tool[t].results \in Seq([pack : Bundles, by : Bundles])
                 /\ tool[t].tier \in Nat /\ Len(job[t].packs) \in Nat /\ job[t].packs \in Seq(Pack)
                 /\ tool[t].passed => tool[t].tier = Len(job[t].packs) + 1
                 /\ \A i \in 1..(tool[t].tier - 1) :
                      tool[t].results[i].pack = job[t].packs[i] /\ tool[t].results[i].by \in {None, job[t].packs[i]}
      <3> DEFINE x == tool[t]
                 j == job[t]
      <3>1. x \in Tools /\ MeasureLocal(j, x) /\ Len(j.packs) \in Nat /\ j.packs \in Seq(Pack)
        BY TypesOf DEF Local
      <3>2. x.tier \in Nat \ {0} /\ x.results \in Seq([pack : Bundles, by : Bundles])
        BY <3>1 DEF Tools
      <3>3. /\ Len(x.results) = x.tier - 1 /\ x.tier <= Len(j.packs) + 1
            /\ x.passed => x.tier = Len(j.packs) + 1
            /\ \A i \in 1..(x.tier - 1) : x.results[i].pack = j.packs[i] /\ x.results[i].by \in {None, j.packs[i]}
        BY <2>1, <3>1 DEF MeasureLocal
      <3>4. x.tier - 1 <= Len(j.packs)
        <4> HIDE DEF x, j
        <4> QED  BY <3>1, <3>2, <3>3
      <3> QED  BY <3>1, <3>2, <3>3, <3>4
    <2>2. ReportsCoverTiers
      <3> SUFFICES ASSUME NEW t \in Process, tool[t].passed, job[t].kind \in {"measure", "phases"}
                   PROVE  [i \in DOMAIN tool[t].results |-> tool[t].results[i].pack] = job[t].packs
        BY DEF ReportsCoverTiers
      <3>1. DOMAIN tool[t].results = 1..Len(job[t].packs) /\ tool[t].tier - 1 = Len(job[t].packs)
        BY <2>1
      <3>2. \A i \in 1..Len(job[t].packs) : tool[t].results[i].pack = job[t].packs[i]
        BY <2>1, <3>1
      <3>3. job[t].packs = [i \in 1..Len(job[t].packs) |-> job[t].packs[i]]
        BY <2>1
      <3> QED  BY <3>1, <3>2, <3>3
    <2>3. MeasuredOnItsPack
      <3> SUFFICES ASSUME NEW t \in Process, Vouches(t), NEW i \in DOMAIN tool[t].results
                   PROVE  tool[t].results[i].by \in {None, tool[t].results[i].pack}
        BY DEF MeasuredOnItsPack
      <3>1. CASE job[t].kind = "infer"
        BY <3>1 DEF InferInv, InferTrue
      <3>2. CASE job[t].kind \in {"measure", "phases"}
        <4>1. i \in 1..(tool[t].tier - 1)
          BY <2>1, <3>2
        <4> QED  BY <2>1, <3>2, <4>1
      <3>3. CASE job[t].kind = "integrate"
        BY <3>3, TypesOf DEF Local, IntegrateLocal
      <3> QED  BY <3>1, <3>2, <3>3, TypesOf
    <2> QED  BY <2>2, <2>3 DEF ReportsAreTrue
  <1> QED  BY <1>1, InferHolds, PTL
-----------------------------------------------------------------------------
\* A run of the workflow that waits for another one finds it ended.
TurnInv ==
    \A t, u \in Process : job[t].after = u /\ tool[t].at \notin {"begin", "ended"} => tool[u].at = "ended"

\* What a run finds from its second request on, if the executor is still its own.
StageTrue(t) ==
    job[t].kind = "integrate" /\ pay.controller = job[t].identity =>
      (tool[t].at \in {"submit", "advance", "dispatch"} /\ tool[t].count = 1 =>
         pay.requests = <<>> \/ pay.requests[1].status = "Succeeded")
WorkflowInv == TurnInv /\ \A t \in Process : StageTrue(t)

\* A tool that has ended does nothing, and one that has not begun looks for its network first.
LEMMA BeginsAndEnds ==
    ASSUME NEW t \in Process, Proceeds(t) \/ Killed(t)
    PROVE  tool[t].at # "ended" /\ (tool[t].at = "begin" => RequireLocal(t) \/ Killed(t))
  BY DEF Proceeds, RequireLocal, Look, StartNetwork, CheckPort, StopNetwork, Provision, Install, Admit, BeginsUpload,
     SendsChunk, StartsWarmup, WarmsNext, RegistersSchema, RegistersCalibration, MeasuresEvaluation, MeasuresPhases,
     Probes, WritesReport, ReadsActive, Infers, Names, InstallsExecutor, EnablesFixture, Submits, Advances,
     Dispatches, Retries, ChecksGuard, Fails, Killed

\* The turns of two runs.
LEMMA TurnSteps ==
    ASSUME HarnessTypes, TurnInv, NEW v \in Process, Proceeds(v) \/ Killed(v)
    PROVE  TurnInv'
  <1>1. job' = job /\ (\A w \in Process \ {v} : tool'[w] = tool[w]) /\ tool \in [Process -> Tools]
    BY EachSteps, TypesOf DEF Steps
  <1>2. SUFFICES ASSUME NEW t \in Process, NEW u \in Process, job[t].after = u, tool'[t].at \notin {"begin", "ended"}
                 PROVE  tool'[u].at = "ended"
    BY <1>1 DEF TurnInv
  <1>3. tool[v].at # "ended" /\ (tool[v].at = "begin" => RequireLocal(v) \/ Killed(v))
    BY BeginsAndEnds
  <1>4. CASE tool[t].at \notin {"begin", "ended"}
    <2>1. tool[u].at = "ended"
      BY <1>2, <1>4 DEF TurnInv
    <2> QED  BY <1>1, <1>3, <2>1
  <1>5. CASE tool[t].at \in {"begin", "ended"}
    <2>1. t = v /\ tool[t].at = "begin"
      BY <1>1, <1>2, <1>3, <1>5
    <2>2. ~Killed(t)
      BY <1>1, <1>2 DEF Killed, Tools
    <2>3. tool[u].at = "ended"
      BY <1>2, <1>3, <2>1, <2>2, HarnessAssumption DEF RequireLocal
    <2> QED  BY <1>1, <1>3, <2>1, <2>3
  <1> QED  BY <1>4, <1>5

\* While one run of the workflow is on its way, no other one of its identity is.
LEMMA OneWorkflow ==
    ASSUME IntegrationsAlone, HarnessTypes, TurnInv, NEW t \in Process, NEW u \in Process \ {t},
           job[t].kind = "integrate", job[u].kind = "integrate", job[t].identity = job[u].identity,
           tool[t].at \notin {"begin", "ended"}
    PROVE  tool[u].at \in {"begin", "ended"}
  <1>1. job[t].after = u \/ job[u].after = t
    BY DEF IntegrationsAlone, HarnessTypes
  <1> QED  BY <1>1 DEF TurnInv

\* Who works on the payments is a run of the workflow.
LEMMA WorkflowKind ==
    ASSUME HarnessTypes, NEW t \in Process, tool[t].at \in InWorkflow
    PROVE  job[t].kind = "integrate"
  BY TypesOf DEF Local, InferLocal, MeasureLocal, InferPlaces, MeasurePlaces, Loading, Early, InTier, InWorkflow

\* How the requests change: they are lost, or the run whose executor it is goes on, and then a
\* request that has succeeded stays as it is.
LEMMA PayMoves ==
    ASSUME HarnessTypes, NEW t \in Process, Proceeds(t) \/ Killed(t)
    PROVE  \/ pay' = pay
           \/ pay'.requests = <<>>
           \/ /\ tool[t].at \in InWorkflow /\ pay.controller = job[t].identity
              /\ pay'.controller = pay.controller
              /\ \A i \in DOMAIN pay.requests : pay.requests[i].status = "Succeeded" =>
                   i \in DOMAIN pay'.requests /\ pay'.requests[i] = pay.requests[i]
  <1>1. /\ PaySide /\ pay \in Payments /\ pay.requests \in Seq(Request1)
        /\ pay.controller = None => pay.requests = <<>>
    BY DEF HarnessTypes, PaySide, Payments
  <1>2. CASE StartNetwork(t)
    BY <1>2 DEF StartNetwork, NoPayments
  <1>3. CASE Provision(t)
    <2>1. pay' = pay \/ (pay.controller = None /\ pay' = [pay EXCEPT !.controller = job[t].identity])
      BY <1>3 DEF Provision
    <2> QED  BY <1>1, <2>1 DEF Payments
  <1>4. ASSUME pay' = Upgraded
        PROVE  /\ pay'.controller = pay.controller
               /\ \A i \in DOMAIN pay.requests : pay.requests[i].status = "Succeeded" =>
                    i \in DOMAIN pay'.requests /\ pay'.requests[i] = pay.requests[i]
    <2>1. /\ PaySide' /\ pay'.controller = pay.controller /\ Len(pay'.requests) = Len(pay.requests)
          /\ \A i \in DOMAIN pay.requests :
               pay.requests[i].status = "Succeeded" => pay'.requests[i] = pay.requests[i]
      BY <1>1, <1>4, UpgradeLeaves
    <2>2. pay'.requests \in Seq(Request1)
      BY <2>1 DEF PaySide, Payments
    <2> QED  BY <1>1, <2>1, <2>2
  <1>5. CASE InstallsExecutor(t)
    <2>1. pay'.requests = <<>> \/ pay' = Upgraded
      BY <1>1, <1>5 DEF InstallsExecutor, Payments
    <2> QED  BY <1>4, <1>5, <2>1 DEF InstallsExecutor, InWorkflow
  <1>6. CASE ChecksGuard(t)
    BY <1>4, <1>6 DEF ChecksGuard, Paid, InWorkflow
  <1>7. CASE Submits(t)
    <2>1. tool[t].at \in InWorkflow /\ pay.controller = job[t].identity
      BY <1>7 DEF Submits, Paid, InWorkflow
    <2> QED  BY <1>7, <2>1, SubmitLeaves
  <1>8. CASE Advances(t) \/ Dispatches(t) \/ Retries(t)
    <2>1. tool[t].at \in InWorkflow /\ pay.controller = job[t].identity
      BY <1>8 DEF Advances, Dispatches, Retries, Paid, InWorkflow
    <2>2. \E n, r : LeavesRequest(n, r)
      BY <1>1, <1>8, CallLeaves, RetryLeavesOne
    <2>3. PICK n, r : LeavesRequest(n, r)
      BY <2>2
    <2>4. pay'.requests = [pay.requests EXCEPT ![n] = r] /\ pay'.controller = pay.controller
      BY <1>1, <2>3, RequestReplaced
    <2> QED  BY <1>1, <2>1, <2>3, <2>4 DEF LeavesRequest
  <1>9. \/ pay' = pay \/ StartNetwork(t) \/ Provision(t) \/ InstallsExecutor(t) \/ ChecksGuard(t)
        \/ Submits(t) \/ Advances(t) \/ Dispatches(t) \/ Retries(t)
    BY DEF Proceeds, RequireLocal, Look, CheckPort, StopNetwork, Install, Admit, BeginsUpload, SendsChunk,
       StartsWarmup, WarmsNext, RegistersSchema, RegistersCalibration, MeasuresEvaluation, MeasuresPhases, Probes,
       WritesReport, ReadsActive, Infers, Names, EnablesFixture, Fails, Killed, Unmoved
  <1> QED  BY <1>2, <1>3, <1>5, <1>6, <1>7, <1>8, <1>9

\* How a run of the workflow comes to its second request, and to its end.
LEMMA StageMoves ==
    ASSUME HarnessTypes, NEW t \in Process, Proceeds(t) \/ Killed(t), job[t].kind = "integrate"
    PROVE  /\ tool'[t].at \in {"submit", "advance", "dispatch"} /\ tool'[t].count = 1 =>
                \/ Retries(t) /\ pay'.requests[1].status = "Succeeded"
                \/ tool[t].at \in {"submit", "advance", "dispatch"} /\ tool[t].count = 1
           /\ tool'[t].passed => tool[t].passed \/ (Dispatches(t) /\ tool[t].count = 1)
  <1>1. /\ tool \in [Process -> Tools] /\ tool[t] \in Tools /\ tool[t].at \in IntegratePlaces
        /\ Ready(t) = "port" /\ (tool[t].at = "dispatch" => tool[t].count \in {0, 1})
    BY TypesOf, ReadyPlace DEF Local, IntegrateLocal
  <1>2. \/ RequireLocal(t) \/ Look(t) \/ StartNetwork(t) \/ CheckPort(t) \/ StopNetwork(t) \/ Provision(t)
        \/ Install(t) \/ Admit(t) \/ RegistersSchema(t) \/ RegistersCalibration(t) \/ InstallsExecutor(t)
        \/ EnablesFixture(t) \/ Submits(t) \/ Advances(t) \/ Dispatches(t) \/ Retries(t) \/ ChecksGuard(t)
        \/ Fails(t) \/ Killed(t)
    BY <1>1 DEF Proceeds, IntegratePlaces, InWorkflow, BeginsUpload, SendsChunk, StartsWarmup, WarmsNext,
       MeasuresEvaluation, MeasuresPhases, Probes, WritesReport, ReadsActive, Infers, Names
  <1>3. CASE RequireLocal(t) \/ StartNetwork(t) \/ Provision(t)
    <2>1. \E place \in {"ended", "look", "port", "install"} : Goes(t, place)
      BY <1>1, <1>3 DEF RequireLocal, StartNetwork, Provision
    <2> QED  BY <1>1, <2>1 DEF Goes, Tools
  <1>4. CASE Install(t)
    BY <1>1, <1>4 DEF Install, Goes, Tools
  <1>5. CASE Admit(t) \/ RegistersSchema(t) \/ RegistersCalibration(t)
    BY <1>1, <1>5 DEF Admit, RegistersSchema, RegistersCalibration, Goes, Tools
  <1>6. CASE Look(t)
    BY <1>1, <1>6 DEF Look, Tools
  <1>7. CASE CheckPort(t) \/ StopNetwork(t) \/ Killed(t)
    BY <1>1, <1>7 DEF CheckPort, StopNetwork, Killed, Goes, Tools
  <1>8. CASE InstallsExecutor(t) \/ EnablesFixture(t) \/ ChecksGuard(t)
    BY <1>1, <1>8 DEF InstallsExecutor, EnablesFixture, ChecksGuard, Goes, Tools
  <1>9. CASE Submits(t)
    BY <1>1, <1>9 DEF Submits, Tools
  <1>10. CASE Advances(t)
    <2>1. PICK r, err : Advanced(t, r, err)
      BY <1>10 DEF Advances
    <2>2. tool[t].at = "advance"
      BY <1>10 DEF Advances
    <2> DEFINE k == tool[t].asked + 1
               next == IF k = Signals THEN "dispatch" ELSE "advance"
               place == IF AdvanceHolds(tool[t].count + 1, k, err, r) THEN next ELSE "stopping"
    <2>3. tool' = [tool EXCEPT ![t].asked = k, ![t].at = place]
      BY <2>1 DEF Advanced
    <2> HIDE DEF k, place
    <2> QED  BY <1>1, <2>2, <2>3 DEF Tools
  <1>11. CASE Dispatches(t)
    <2>1. tool[t].at = "dispatch" /\ \E place \in {"retry", "guard", "stopping"}, holds \in BOOLEAN :
            tool' = [tool EXCEPT ![t].at = place, ![t].passed = tool[t].count + 1 = 2 /\ holds]
      BY <1>11 DEF Dispatches
    <2> QED  BY <1>1, <1>11, <2>1 DEF Tools
  <1>12. CASE Retries(t)
    <2>1. \/ /\ tool' = [tool EXCEPT ![t].at = "submit", ![t].count = 1]
             /\ pay'.requests[1].status = "Succeeded"
          \/ Goes(t, "stopping")
      BY <1>12 DEF Retries
    <2> QED  BY <1>1, <1>12, <2>1 DEF Goes, Tools
  <1>13. CASE Fails(t)
    <2>1. Goes(t, "ended") \/ Goes(t, "stopping")
      BY <1>13 DEF Fails, Unwinds
    <2> QED  BY <1>1, <2>1 DEF Goes, Tools
  <1> QED  BY <1>2, <1>3, <1>4, <1>5, <1>6, <1>7, <1>8, <1>9, <1>10, <1>11, <1>12, <1>13

\* An executor without requests gets its first one first.
LEMMA EmptyStays ==
    ASSUME HarnessTypes, NEW t \in Process, Proceeds(t) \/ Killed(t), pay.requests = <<>>,
           tool[t].at \in {"submit", "advance", "dispatch"}, tool[t].count = 1
    PROVE  pay' = pay
  <1>1. /\ Len(pay.requests) = 0 /\ DOMAIN pay.requests = {}
    OBVIOUS
  <1>2. ~Submits(t) /\ ~Advances(t) /\ ~Dispatches(t)
    BY <1>1 DEF Submits, Advances, Dispatches
  <1> QED
    BY <1>2 DEF Proceeds, RequireLocal, Look, StartNetwork, CheckPort, StopNetwork, Provision, Install, Admit,
       BeginsUpload, SendsChunk, StartsWarmup, WarmsNext, RegistersSchema, RegistersCalibration,
       MeasuresEvaluation, MeasuresPhases, Probes, WritesReport, ReadsActive, Infers, Names, InstallsExecutor,
       EnablesFixture, Retries, ChecksGuard, Fails, Killed, Unmoved

\* A run finds what it left.
LEMMA StageSteps ==
    ASSUME IntegrationsAlone, HarnessTypes, TurnInv, NEW v \in Process, Proceeds(v) \/ Killed(v),
           NEW t \in Process, StageTrue(t)
    PROVE  StageTrue(t)'
  <1>1. job' = job /\ (\A u \in Process \ {v} : tool'[u] = tool[u]) /\ tool \in [Process -> Tools]
    BY EachSteps, TypesOf DEF Steps
  <1>2. SUFFICES ASSUME job[t].kind = "integrate", pay'.controller = job[t].identity, pay'.requests # <<>>,
                        tool'[t].at \in {"submit", "advance", "dispatch"}, tool'[t].count = 1
                 PROVE  pay'.requests[1].status = "Succeeded"
    BY <1>1 DEF StageTrue
  <1>3. \/ t = v /\ pay'.requests[1].status = "Succeeded"
        \/ tool[t].at \in {"submit", "advance", "dispatch"} /\ tool[t].count = 1
    BY <1>1, <1>2, StageMoves
  <1>4. ASSUME tool[t].at \in {"submit", "advance", "dispatch"}, tool[t].count = 1
        PROVE  pay'.requests[1].status = "Succeeded"
    <2>1. CASE pay' = pay
      BY <1>2, <1>4, <2>1 DEF StageTrue
    <2>2. CASE /\ tool[v].at \in InWorkflow /\ pay.controller = job[v].identity
               /\ pay'.controller = pay.controller
               /\ \A i \in DOMAIN pay.requests : pay.requests[i].status = "Succeeded" =>
                    i \in DOMAIN pay'.requests /\ pay'.requests[i] = pay.requests[i]
      <3>1. t = v
        <4>1. SUFFICES ASSUME t # v PROVE FALSE
          OBVIOUS
        <4>2. job[v].kind = "integrate" /\ job[v].identity = job[t].identity
          BY <1>2, <2>2, WorkflowKind
        <4>3. tool[v].at \in {"begin", "ended"}
          BY <1>2, <1>4, <4>1, <4>2, OneWorkflow
        <4> QED  BY <2>2, <4>3 DEF InWorkflow
      <3>2. pay.requests = <<>> \/ pay.requests[1].status = "Succeeded"
        BY <1>2, <1>4, <2>2 DEF StageTrue
      <3>3. pay.requests # <<>>
        <4>1. SUFFICES ASSUME pay.requests = <<>> PROVE FALSE
          OBVIOUS
        <4>2. pay' = pay
          BY <1>2, <1>4, <3>1, <4>1, EmptyStays
        <4> QED  BY <1>2, <4>1, <4>2
      <3>4. 1 \in DOMAIN pay.requests
        <4>1. pay.requests \in Seq(Request1)
          BY DEF HarnessTypes, PaySide, Payments
        <4> QED  BY <3>3, <4>1
      <3> QED  BY <2>2, <3>2, <3>3, <3>4
    <2> QED  BY <1>2, <2>1, <2>2, PayMoves
  <1> QED  BY <1>3, <1>4

\* What the runs find, in every reachable state.
LEMMA WorkflowHolds == ASSUME IntegrationsAlone PROVE HarnessSpec => [](HarnessTypes /\ WorkflowInv)
  <1>1. HarnessInit => WorkflowInv
    BY DEF HarnessInit, NoPayments, WorkflowInv, TurnInv, StageTrue
  <1>2. HarnessTypes /\ WorkflowInv /\ [HarnessNext]_harnessVars => WorkflowInv'
    <2> SUFFICES ASSUME HarnessTypes, WorkflowInv, [HarnessNext]_harnessVars PROVE WorkflowInv'
      OBVIOUS
    <2>1. TurnInv /\ \A t \in Process : StageTrue(t)
      BY DEF WorkflowInv
    <2>2. CASE UNCHANGED harnessVars
      BY <2>1, <2>2 DEF harnessVars, WorkflowInv, TurnInv, StageTrue
    <2>3. CASE HarnessNext
      <3>1. PICK v \in Process : Proceeds(v) \/ Killed(v)
        BY <2>3 DEF HarnessNext
      <3>2. TurnInv'
        BY <2>1, <3>1, TurnSteps
      <3>3. \A t \in Process : StageTrue(t)'
        BY <2>1, <3>1, StageSteps
      <3> QED  BY <3>2, <3>3 DEF WorkflowInv
    <2> QED  BY <2>2, <2>3
  <1> QED  BY <1>1, <1>2, TypesHold, PTL DEF HarnessSpec

\* local_integration says that all checks passed only over a first request that has succeeded and
\* is booked, and a second one whose outcome is unknown, both with all their signals, provided
\* that of two runs with one identity one waits for the other (local_integration.py:606).
THEOREM WorkflowGreen == ASSUME IntegrationsAlone PROVE HarnessSpec => GreenIsTrue
  <1> DEFINE Passes(t) == job[t].kind = "integrate" /\ tool'[t].passed /\ ~tool[t].passed
             Settled == /\ Len(pay'.requests) = 2
                        /\ pay'.requests[1].status = "Succeeded" /\ pay'.requests[1].booked
                        /\ pay'.requests[2].status = "OutcomeUnknown"
                        /\ \A i \in 1..2 : pay'.requests[i].answered = Signals
             Green == \A t \in Process : Passes(t) => Settled
  <1>1. HarnessTypes /\ WorkflowInv /\ [HarnessNext]_harnessVars => [Green]_harnessVars
    <2> SUFFICES ASSUME HarnessTypes, WorkflowInv, HarnessNext, NEW t \in Process, Passes(t)
                 PROVE  Settled
      OBVIOUS
    <2>1. PICK v \in Process : Proceeds(v) \/ Killed(v)
      BY DEF HarnessNext
    <2>2. t = v
      BY <2>1, EachSteps DEF Steps
    <2>3. Dispatches(t) /\ tool[t].count = 1
      BY <2>1, <2>2, StageMoves
    <2>4. /\ tool[t].at = "dispatch" /\ pay.controller = job[t].identity
          /\ tool[t].count + 1 = 2 /\ 2 \in DOMAIN pay.requests
      BY <2>3 DEF Dispatches, Paid
    <2>5. tool \in [Process -> Tools] /\ tool[t] \in Tools
      BY TypesOf
    <2>6. pay'.requests[2].status = "OutcomeUnknown"
      <3> DEFINE n == tool[t].count + 1
                 next == IF n = 1 THEN "retry" ELSE IF job[t].skipUpgrade THEN "stopping" ELSE "guard"
                 holds == LooksUnknown(pay'.requests[n]) /\ (n = 1 => Committed(pay'.requests) = 1)
                 place == IF holds THEN next ELSE "stopping"
                 passes == n = 2 /\ holds
      <3>1. tool' = [tool EXCEPT ![t].at = place, ![t].passed = passes]
        BY <2>3 DEF Dispatches
      <3>2. passes => LooksUnknown(pay'.requests[2])
        BY <2>4
      <3> HIDE DEF place, passes
      <3>3. passes
        BY <2>5, <3>1 DEF Tools
      <3> QED  BY <3>2, <3>3 DEF LooksUnknown
    <2>7. /\ PaySide /\ pay.requests \in Seq(Request1) /\ Len(pay.requests) <= 2 /\ Len(pay.requests) \in Nat
          /\ DOMAIN pay.requests = 1..Len(pay.requests)
      <3>1. pay.requests \in Seq(Request1)
        BY DEF HarnessTypes, PaySide, Payments
      <3> QED  BY <3>1 DEF HarnessTypes, PaySide
    <2>8. pay.requests[1].status = "Succeeded"
      BY <2>3, <2>4, <2>7 DEF WorkflowInv, StageTrue
    <2>9. PICK r : LeavesRequest(2, r)
      <3>1. tool[t].count + 1 = 2
        BY <2>3
      <3> QED  BY <2>3, <2>7, <3>1, CallLeaves
    <2>10. /\ PaySide' /\ pay'.requests = [pay.requests EXCEPT ![2] = r]
           /\ Len(pay'.requests) = Len(pay.requests)
      BY <2>7, <2>9, RequestReplaced
    <2>11. Len(pay'.requests) = 2 /\ pay'.requests[1].status = "Succeeded" /\ DOMAIN pay'.requests = 1..2
      <3>1. pay'.requests \in Seq(Request1)
        BY <2>10 DEF PaySide, Payments
      <3> DEFINE L == Len(pay.requests)
      <3>2. L \in Nat /\ L <= 2 /\ DOMAIN pay.requests = 1..L /\ 2 \in DOMAIN pay.requests
        BY <2>4, <2>7
      <3> HIDE DEF L
      <3>3. L = 2 /\ 1 \in DOMAIN pay.requests
        BY <3>2
      <3> QED  BY <2>8, <2>10, <3>1, <3>3 DEF L
    <2>12. \A i \in 1..2 : Counted(pay'.requests[i])
      BY <2>10, <2>11 DEF PaySide, Counted
    <2> QED  BY <2>6, <2>11, <2>12 DEF Counted
  <1> QED  BY <1>1, WorkflowHolds, PTL DEF HarnessSpec, GreenIsTrue
=============================================================================
