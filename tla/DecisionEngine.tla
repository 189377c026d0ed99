--------------------------- MODULE DecisionEngine ---------------------------
(***************************************************************************)
(* The evaluations of the decision engine: EngineState of                  *)
(* ic-laya-core/src/engine.rs behind the endpoints of the canister, over   *)
(* the models that ModelLifecycle puts in memory and takes out.            *)
(*                                                                         *)
(* A schema is compiled with the tokenizer that is in memory and stored    *)
(* under a digest of both, its key; the number qtype that goes with it is  *)
(* the pack's.  A result, also a failure, is cached under the caller and   *)
(* the id of the evaluation and is never removed.                          *)
(***************************************************************************)
EXTENDS ModelLifecycle, Maps, FiniteSets

CONSTANTS
    Caller,         \* principals
    EvaluationId,
    Schema,         \* schemas, before they are compiled
    Qtype,          \* Qtype[p]: primitive_to_qtype of the manifest of p
    FixtureCell,    \* the tokenizer of the synthetic fixture
    Calibration,    \* ids of calibrations
    Calibrated,     \* Calibrated[k]: its record
    Request,        \* bound of the model: requests that callers make
    PerMinute,      \* bound: quotas that the owner grants
    Minute,         \* instants of a minute
    Horizon,        \* how far ahead a request may expire, 600 s in the code
    MaxCached,      \* max_cache_entries, 1024 in the code
    MaxTime         \* bound: the clock stops here

Key == [schema : Schema, tokenizer : Cell \cup {FixtureCell}]

ASSUME EvaluationAssumption ==
    /\ Qtype \in [Pack -> Nat] /\ FixtureCell \notin Cell /\ Synthetic \notin Pack
    /\ Calibrated \in [Calibration -> [model : Pack \cup {Synthetic}, key : Key, expires : Nat]]
    /\ Request \subseteq [id : EvaluationId, key : Key, model : Pack \cup {Synthetic},
                          calibration : Calibration \cup {None}, state : STRING, expires : Nat]
    /\ PerMinute \subseteq 1..1000 /\ {Minute, Horizon, MaxCached, MaxTime} \subseteq Nat /\ Minute > 0

VARIABLES
    schemas,        \* key -> qtype
    calibrations,   \* ids registered
    callers,        \* caller -> quota
    cache,          \* <<caller, id>> -> request and result
    clock,
    reply,          \* the last call of evaluate(): caller, request, result
    spent,          \* inferences of each caller since the minute, or its quota, began
    runs            \* <<caller, id>> -> how often it was computed

core == <<schemas, calibrations, callers, cache>>
observed == <<reply, spent, runs>>
engineVars == <<lifecycle, core, clock, observed>>

\* What a caller gets: a receipt, with the pack and the qtype that computed it, or an error.
Receipts == [ok : {TRUE}, request : Request, by : Pack \cup {Synthetic}, qtype : Nat]
Failed == [ok |-> FALSE]

EngineTypeOK ==
    /\ LifecycleTypeOK
    /\ IsMap(schemas, Key, Nat) /\ calibrations \subseteq Calibration
    /\ IsMap(callers, Caller, [epoch : Nat, used : Nat, max : PerMinute])
    /\ IsMap(cache, Caller \X EvaluationId, [request : Request, result : Receipts \cup {Failed}])
    /\ Cardinality(DOMAIN cache) <= MaxCached
    /\ clock \in 0..MaxTime

CoreInit ==
    /\ schemas = EmptyMap /\ calibrations = {} /\ callers = EmptyMap /\ cache = EmptyMap
    /\ reply = None /\ spent = [c \in Caller |-> 0] /\ runs = EmptyMap

EngineInit == LifecycleInit /\ CoreInit /\ clock = 0
-----------------------------------------------------------------------------
Quiet == UNCHANGED <<spent, runs>> /\ reply' = None

\* Admits a caller, or gives it a new quota.
AllowCaller(c, max) ==
    /\ callers' = Put(callers, c, [epoch |-> 0, used |-> 0, max |-> max])
    /\ spent' = [spent EXCEPT ![c] = 0] /\ reply' = None
    /\ UNCHANGED <<lifecycle, schemas, calibrations, cache, clock, runs>>

\* The tokenizer in memory, which a cold engine does not have.
TokenizerInUse == IF fixture THEN FixtureCell ELSE tokenizer

\* A key once registered keeps its qtype: another one is a conflict.
RegisterSchema(s, qtype) ==
    LET key == [schema |-> s, tokenizer |-> TokenizerInUse] IN
    /\ ~fixture => upload # None /\ qtype = Qtype[upload.pack]
    /\ TokenizerInUse # None
    /\ key \in DOMAIN schemas => schemas[key] = qtype
    /\ schemas' = Put(schemas, key, qtype)
    /\ UNCHANGED <<lifecycle, calibrations, callers, cache, clock>> /\ Quiet

RegisterCalibration(k) ==
    /\ clock < Calibrated[k].expires
    /\ Calibrated[k].key \in DOMAIN schemas /\ Calibrated[k].model = activeModel
    /\ calibrations' = calibrations \cup {k}
    /\ UNCHANGED <<lifecycle, schemas, callers, cache, clock>> /\ Quiet
-----------------------------------------------------------------------------
\* check_schema_mapping: the schema is known, and its number is the one the active pack has.
\* (Seeded fault: only that the schema is known.)
MappingHolds_Known(key) == key \in DOMAIN schemas
MappingHolds(key) ==
    /\ key \in DOMAIN schemas
    /\ fixture \/ (upload # None /\ upload.pack = activeModel /\ schemas[key] = Qtype[activeModel])

\* The backend that answers: the fixture, or the model in memory.
Backend == IF fixture THEN Synthetic ELSE IF model # None THEN model.bundle ELSE None

\* (Seeded fault: an expired calibration passes.)
Admissible_NoExpiry(c, q) ==
    /\ c \in DOMAIN callers /\ MappingHolds(q.key)
    /\ q.expires > clock /\ q.model = activeModel /\ Backend = q.model
    /\ q.calibration # None => q.calibration \in calibrations
Admissible(c, q) ==
    LET k == Calibrated[q.calibration] IN
    /\ c \in DOMAIN callers /\ MappingHolds(q.key)
    /\ q.expires > clock /\ q.expires - clock <= Horizon
    /\ q.model = activeModel /\ Backend = q.model
    /\ q.calibration # None =>
         /\ q.calibration \in calibrations /\ clock < k.expires
         /\ k.model = q.model /\ k.key = q.key
         /\ q.expires <= k.expires

\* The inferences of this minute: those of another one are forgotten.
Used(quota) == IF quota.epoch = clock \div Minute THEN quota.used ELSE 0
Charged(quota) == [epoch |-> clock \div Minute, used |-> Used(quota) + 1, max |-> quota.max]

\* A cached result answers the request it was made for and no other.
Replay(c, q) ==
    /\ <<c, q.id>> \in DOMAIN cache /\ cache[<<c, q.id>>].request = q
    /\ reply' = [caller |-> c, request |-> q, result |-> cache[<<c, q.id>>].result]
    /\ UNCHANGED <<core, spent, runs>>

\* Failures are cached as well, and count.
\* (Seeded faults: the counter stays as it is; a failure is not cached.)
Compute_NoQuota(c, q, result) ==
    /\ <<c, q.id>> \notin DOMAIN cache /\ Cardinality(DOMAIN cache) < MaxCached
    /\ Used(callers[c]) < callers[c].max
    /\ UNCHANGED <<callers, schemas, calibrations>>
    /\ cache' = Put(cache, <<c, q.id>>, [request |-> q, result |-> result])
    /\ reply' = [caller |-> c, request |-> q, result |-> result]
    /\ spent' = [spent EXCEPT ![c] = @ + 1]
    /\ runs' = Put(runs, <<c, q.id>>, 1 + IF <<c, q.id>> \in DOMAIN runs THEN runs[<<c, q.id>>] ELSE 0)
Compute_ForgetFailure(c, q, result) ==
    /\ <<c, q.id>> \notin DOMAIN cache /\ Cardinality(DOMAIN cache) < MaxCached
    /\ Used(callers[c]) < callers[c].max
    /\ callers' = [callers EXCEPT ![c] = Charged(@)]
    /\ cache' = IF result.ok THEN Put(cache, <<c, q.id>>, [request |-> q, result |-> result]) ELSE cache
    /\ reply' = [caller |-> c, request |-> q, result |-> result]
    /\ spent' = [spent EXCEPT ![c] = @ + 1]
    /\ runs' = Put(runs, <<c, q.id>>, 1 + IF <<c, q.id>> \in DOMAIN runs THEN runs[<<c, q.id>>] ELSE 0)
    /\ UNCHANGED <<schemas, calibrations>>
Compute(c, q, result) ==
    /\ <<c, q.id>> \notin DOMAIN cache /\ Cardinality(DOMAIN cache) < MaxCached
    /\ Used(callers[c]) < callers[c].max
    /\ callers' = [callers EXCEPT ![c] = Charged(@)]
    /\ cache' = Put(cache, <<c, q.id>>, [request |-> q, result |-> result])
    /\ reply' = [caller |-> c, request |-> q, result |-> result]
    /\ spent' = [spent EXCEPT ![c] = @ + 1]
    /\ runs' = Put(runs, <<c, q.id>>, 1 + IF <<c, q.id>> \in DOMAIN runs THEN runs[<<c, q.id>>] ELSE 0)
    /\ UNCHANGED <<schemas, calibrations>>

\* The result of an inference with the backend in use.
Computed(q) == [ok |-> TRUE, request |-> q, by |-> Backend, qtype |-> schemas[q.key]]

Evaluate(c, q) ==
    /\ Admissible(c, q)
    /\ \/ Replay(c, q)
       \/ Compute(c, q, Computed(q))
       \/ Compute(c, q, Failed)     \* infer() or the calibration fails
    /\ UNCHANGED <<lifecycle, clock>>

\* The owner loads models, or the canister is upgraded.
ModelStep == LifecycleNext /\ UNCHANGED <<core, clock>> /\ Quiet

Tick ==
    /\ clock < MaxTime /\ clock' = clock + 1
    /\ spent' = IF clock' \div Minute = clock \div Minute THEN spent ELSE [c \in Caller |-> 0]
    /\ reply' = None
    /\ UNCHANGED <<lifecycle, core, runs>>

EngineNext ==
    \/ Tick \/ ModelStep
    \/ \E c \in Caller, max \in PerMinute : AllowCaller(c, max)
    \/ \E s \in Schema, qtype \in {Qtype[p] : p \in Pack} : RegisterSchema(s, qtype)
    \/ \E k \in Calibration : RegisterCalibration(k)
    \/ \E c \in Caller, q \in Request : Evaluate(c, q)

EngineSpec == EngineInit /\ [][EngineNext]_engineVars
-----------------------------------------------------------------------------
\* A receipt answers the very request it is sent for, computed by the pack the request names
\* with that pack's qtype: also when an id is used again, a pack is replaced by one that
\* shares its tokenizer, or the answer comes from the cache.
ReceiptsFitRequests ==
    reply # None /\ reply.result.ok =>
      /\ reply.result.request = reply.request /\ reply.result.by = reply.request.model
      /\ reply.result.by \in Pack => reply.result.qtype = Qtype[reply.result.by]

\* The cache does not outlive what a receipt rests on: it is sent only while the pack that
\* made it is active and in memory, tensor by tensor as its manifest lists it whatever
\* interrupted its warm-up, and while its calibration has not expired.
ReceiptsAreFresh ==
    reply # None /\ reply.result.ok =>
      /\ reply.result.by = activeModel /\ Backend = activeModel /\ ModelIsIntact
      /\ clock < reply.request.expires
      /\ reply.request.calibration # None => clock < Calibrated[reply.request.calibration].expires

\* An id buys a caller one inference, whatever it answered: "a bad backend cannot force
\* unlimited retries under one ID".
OneInferencePerId == \A k \in DOMAIN runs : runs[k] <= 1

\* No caller gets more inferences in a minute than the quota that it was admitted with.
QuotaHolds == \A c \in DOMAIN callers : spent[c] <= callers[c].max
=============================================================================
