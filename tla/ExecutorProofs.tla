--------------------------- MODULE ExecutorProofs ---------------------------
(***************************************************************************)
(* Theorems about Executor, for every value of its constants.              *)
(*                                                                         *)
(* The inductive invariant IInv is the conjunction of what the books say   *)
(* (types, coherence of each request, who holds which operation, caps) and *)
(* of what is outstanding (every continuation belongs to a request).       *)
(***************************************************************************)
EXTENDS Executor, TLAPS

BooksInv ==
    /\ BooksTypeOK /\ RequestsCoherent /\ NoncesConsumed
    /\ HoldersMatch /\ LocksAreBacked /\ CapsRespected

\* The requests that outstanding continuations belong to exist.
CallsHaveRequests ==
    /\ \A c \in engineCalls : c.evaluation.request \in DOMAIN requests
    /\ \A cmd \in ledgerCalls \cup lookups : cmd.request \in DOMAIN requests

CallsInv == CallsTypeOK /\ CallsHaveRequests

IInv == RegistryTypeOK /\ now \in Time /\ BooksInv /\ CallsInv
-----------------------------------------------------------------------------
(* Maps.                                                                   *)

\* Inserting a key and value of the right kinds keeps a map a map of that kind.
LEMMA PutMap ==
    ASSUME NEW f, NEW K, NEW V, IsMap(f, K, V), NEW k \in K, NEW v \in V
    PROVE  /\ IsMap(Put(f, k, v), K, V)
           /\ DOMAIN Put(f, k, v) = DOMAIN f \cup {k}
           /\ Put(f, k, v)[k] = v
           /\ \A x \in DOMAIN f : x # k => Put(f, k, v)[x] = f[x]
BY DEF IsMap, Put

\* Replacing a value by one of the right kind keeps a map a map of that kind.
LEMMA ExceptMap ==
    ASSUME NEW f, NEW K, NEW V, IsMap(f, K, V), NEW k \in DOMAIN f, NEW v \in V
    PROVE  /\ IsMap([f EXCEPT ![k] = v], K, V)
           /\ DOMAIN [f EXCEPT ![k] = v] = DOMAIN f
           /\ [f EXCEPT ![k] = v][k] = v
           /\ \A x \in DOMAIN f : x # k => [f EXCEPT ![k] = v][x] = f[x]
BY DEF IsMap
-----------------------------------------------------------------------------
(* What the parts of the invariant depend on.                              *)

\* The books stay right while nobody writes them.
LEMMA BooksStay == BooksInv /\ UNCHANGED books => BooksInv'
<1>1. SUFFICES ASSUME BooksInv, UNCHANGED books PROVE BooksInv'
  OBVIOUS
<1>2. BooksTypeOK'
  BY <1>1 DEF BooksInv, books, BooksTypeOK
<1>3. RequestsCoherent' /\ NoncesConsumed'
  BY <1>1 DEF BooksInv, books, RequestsCoherent, NoncesConsumed, NextNonceOf
<1>4. HoldersMatch' /\ LocksAreBacked'
  BY <1>1 DEF BooksInv, books, HoldersMatch, LocksAreBacked
<1>5. CapsRespected'
  BY <1>1 DEF BooksInv, books, CapsRespected
<1> QED BY <1>2, <1>3, <1>4, <1>5 DEF BooksInv

\* Requests are never removed, so continuations keep theirs; calls may end and
\* new ones may be made for requests that exist.
LEMMA CallsStay ==
    ASSUME CallsInv,
           DOMAIN requests \subseteq DOMAIN requests',
           engineCalls' \subseteq engineCalls, ledgerCalls' \subseteq ledgerCalls, lookups' \subseteq lookups
    PROVE  CallsInv'
BY DEF CallsInv, CallsTypeOK, CallsHaveRequests
-----------------------------------------------------------------------------
(* Changing one request without touching what it holds.                    *)

\* r differs from s in nothing that the other books speak of, never forgets a
\* doubt, and does not differ at all if s is settled.
SameHold(r, s) ==
    /\ r.operation = s.operation /\ r.grant = s.grant /\ r.epoch = s.epoch
    /\ r.frozen = s.frozen
    /\ r.status \in Unresolved <=> s.status \in Unresolved
    /\ r.status = "Succeeded" <=> s.status = "Succeeded"
    /\ r.status = "FailedDefinitive" <=> s.status = "FailedDefinitive"
    /\ r.status \in {"Received", "Evaluating"} => Len(r.receipts) < Signals[r.snapshot.plan]
    /\ s.everUnknown => r.everUnknown
    /\ s.status \in {"Succeeded", "FailedDefinitive"} => r = s

\* How a step may change a request: it keeps its hold, is dispatched for the
\* first time, or is settled, as a failure only if it was never in doubt.
RequestStep(id) ==
    \/ SameHold(requests'[id], requests[id])
    \/ /\ requests[id].frozen = None /\ requests[id].epoch = None
       /\ requests'[id].status \in Unresolved
    \/ /\ requests[id].status \in Unresolved /\ requests'[id].frozen = requests[id].frozen
       /\ \/ requests'[id].status = "Succeeded"
          \/ requests'[id].status = "FailedDefinitive" /\ ~requests[id].everUnknown

RequestsStep == \A id \in DOMAIN requests : RequestStep(id)

\* A request that is not written keeps its hold.
LEMMA UntouchedStep ==
    ASSUME BooksInv, \A x \in DOMAIN requests : requests'[x] = requests[x]
    PROVE  RequestsStep
BY DEF BooksInv, RequestsCoherent, RequestsStep, RequestStep, SameHold

\* Such a change keeps the books right, whatever else it does to the request.
LEMMA AdjustKeepsBooks ==
    ASSUME BooksInv, NEW id \in DOMAIN requests, NEW r \in Request, SameHold(r, requests[id]),
           Update(id, r), UNCHANGED <<operations, grants, windows, nextNonce>>
    PROVE  BooksInv' /\ RequestsStep /\ DOMAIN requests' = DOMAIN requests
<1>1. /\ IsMap(requests', RequestId, Request) /\ DOMAIN requests' = DOMAIN requests
      /\ requests'[id] = r
      /\ \A x \in DOMAIN requests : x # id => requests'[x] = requests[x]
  BY ExceptMap DEF BooksInv, BooksTypeOK, Update
<1>2. BooksTypeOK'
  BY <1>1 DEF BooksInv, BooksTypeOK
<1>3. \A x \in DOMAIN requests : SameHold(requests'[x], requests[x])
  BY <1>1 DEF BooksInv, RequestsCoherent, SameHold
<1>4. RequestsCoherent'
  BY <1>1, <1>3 DEF BooksInv, RequestsCoherent, SameHold, Unresolved
<1>5. NoncesConsumed'
  BY <1>1 DEF BooksInv, NoncesConsumed, NextNonceOf
<1>6. HoldersMatch'
  BY <1>1, <1>3 DEF BooksInv, HoldersMatch, SameHold
<1>7. LocksAreBacked'
  BY <1>1, <1>3 DEF BooksInv, LocksAreBacked, SameHold
<1>8. CapsRespected'
  BY DEF BooksInv, CapsRespected
<1>9. RequestsStep
  BY <1>3 DEF RequestsStep, RequestStep
<1> QED BY <1>1, <1>2, <1>4, <1>5, <1>6, <1>7, <1>8, <1>9 DEF BooksInv

\* r and s agree on what no status change touches.
SameTerms(r, s) ==
    /\ r.operation = s.operation /\ r.grant = s.grant /\ r.snapshot = s.snapshot
    /\ r.epoch = s.epoch /\ r.frozen = s.frozen /\ r.receipts = s.receipts
    /\ s.everUnknown => r.everUnknown

\* A stopped request is still a request.
LEMMA StoppedType ==
    ASSUME NEW r \in Request, NEW status \in Status
    PROVE  Stopped(r, status) \in Request /\ Stopped(r, status).status = status
           /\ SameTerms(Stopped(r, status), r)
<1>1. 0 \in 0..MaxSends /\ FALSE \in BOOLEAN
  BY DEF MaxSends
<1>2. Stopped(r, status) \in Request
  BY <1>1 DEF Stopped, Request
<1>3. Stopped(r, status).status = status /\ SameTerms(Stopped(r, status), r)
  BY DEF Stopped, Request, SameTerms
<1> QED BY <1>2, <1>3

\* So is one whose transfer has become doubtful.
LEMMA DoubtfulType ==
    ASSUME NEW r \in Request
    PROVE  Doubtful(r) \in Request /\ Doubtful(r).status = "OutcomeUnknown"
           /\ SameTerms(Doubtful(r), r)
BY DEF Doubtful, Request, SameTerms, Status

\* Stopping a request that never was dispatched changes nothing it holds.
LEMMA StopHolds ==
    ASSUME NEW r \in Request,
           r.status \notin Unresolved \cup {"Succeeded", "FailedDefinitive"},
           NEW status \in {"NeedsReview", "Stale", "Cancelled"}
    PROVE  Stopped(r, status) \in Request /\ SameHold(Stopped(r, status), r)
<1>1. status \in Status
  BY DEF Status
<1>2. /\ Stopped(r, status) \in Request /\ Stopped(r, status).status = status
      /\ SameTerms(Stopped(r, status), r)
  BY <1>1, StoppedType
<1> QED BY <1>2 DEF SameHold, SameTerms, Unresolved

\* A request that judges a receipt is still a request; it asks for another slot
\* only if its plan has one.
LEMMA RuledHolds ==
    ASSUME NEW r \in Request, NEW receipt \in Receipt, r.status = "Evaluating",
           Len(r.receipts) < Signals[r.snapshot.plan]
    PROVE  Ruled(r, receipt) \in Request /\ SameHold(Ruled(r, receipt), r)
<1> DEFINE longer == Append(r.receipts, receipt)
           status == IF ~receipt.pass THEN "NeedsReview"
                     ELSE IF Len(longer) = Signals[r.snapshot.plan] THEN "ReadyToDispatch"
                     ELSE "Received"
<1>1. r.receipts \in Seq(Receipt) /\ r.snapshot.plan \in Plan
  BY DEF Request, SnapshotDigest
<1>2. longer \in Seq(Receipt) /\ Len(longer) = Len(r.receipts) + 1
  BY <1>1
<1>3. status \in Status /\ status \in {"NeedsReview", "ReadyToDispatch", "Received"}
  BY DEF Status
<1>4. Signals[r.snapshot.plan] \in Nat /\ Len(r.receipts) \in Nat
  <2>1. Signals[r.snapshot.plan] \in 1..MaxSlots
    BY <1>1, DataAssumption DEF DataAssumption
  <2> QED BY <1>1, <2>1 DEF MaxSlots
<1>5. status = "Received" => Len(longer) < Signals[r.snapshot.plan]
  BY <1>2, <1>4
<1>6. Ruled(r, receipt) = [Stopped(r, status) EXCEPT !.receipts = longer]
  BY DEF Ruled
<1> HIDE DEF longer, status
<1>7. /\ Stopped(r, status) \in Request /\ Stopped(r, status).status = status
      /\ SameTerms(Stopped(r, status), r)
  BY <1>3, StoppedType
<1> DEFINE s == Stopped(r, status)
<1> HIDE DEF s
<1>8. s \in Request /\ s.status = status /\ SameTerms(s, r)
  BY <1>7 DEF s
<1>9. /\ [s EXCEPT !.receipts = longer] \in Request
      /\ [s EXCEPT !.receipts = longer].status = status
      /\ [s EXCEPT !.receipts = longer].receipts = longer
      /\ [s EXCEPT !.receipts = longer].snapshot = r.snapshot
      /\ [s EXCEPT !.receipts = longer].everUnknown = s.everUnknown
  BY <1>8, <1>2 DEF Request, SameTerms
<1>10. SameHold([s EXCEPT !.receipts = longer], r)
  BY <1>8, <1>9, <1>3, <1>5 DEF Request, SameHold, SameTerms, Unresolved
<1> QED BY <1>6, <1>9, <1>10 DEF s
-----------------------------------------------------------------------------
(* One lemma for each action that touches the books or makes a call.       *)

\* A registered request is a request, and its parts are of their kinds.
LEMMA RequestParts ==
    ASSUME BooksInv, NEW id \in DOMAIN requests
    PROVE  /\ requests[id] \in Request /\ id \in RequestId
           /\ requests[id].operation \in DOMAIN operations \cap Operation
           /\ requests[id].grant \in DOMAIN grants \cap Grant
           /\ requests[id].snapshot \in SnapshotDigest
           /\ requests[id].status \in Status
<1>1. requests[id] \in Request /\ id \in RequestId
  BY DEF BooksInv, BooksTypeOK, IsMap
<1>2. requests[id].operation \in DOMAIN operations /\ requests[id].grant \in DOMAIN grants
  BY DEF BooksInv, RequestsCoherent
<1> QED BY <1>1, <1>2 DEF Request

\* The continuation of an engine call keeps the invariant if what becomes of a
\* request that waits for it holds what the request held.
LEMMA ContinueKeeps ==
    ASSUME IInv, NEW c \in engineCalls, NEW r, Continue(c, r),
           requests[c.evaluation.request].status = "Evaluating" =>
             r \in Request /\ SameHold(r, requests[c.evaluation.request])
    PROVE  IInv' /\ RequestsStep
<1> DEFINE id == c.evaluation.request
<1>1. id \in DOMAIN requests
  BY DEF IInv, CallsInv, CallsHaveRequests
<1>2. /\ UNCHANGED <<registry, operations, grants, windows, nextNonce, now, ledgerCalls, lookups>>
      /\ engineCalls' = engineCalls \ {c}
  BY DEF Continue
<1>3. BooksInv' /\ RequestsStep /\ DOMAIN requests' = DOMAIN requests
  <2>1. CASE UNCHANGED requests
    BY <1>2, <2>1, BooksStay, UntouchedStep DEF IInv, books
  <2>2. CASE requests[id].status = "Evaluating" /\ Update(id, r)
    BY <1>1, <1>2, <2>2, AdjustKeepsBooks DEF IInv
  <2> QED BY <2>1, <2>2 DEF Continue
<1>4. CallsInv'
  BY <1>2, <1>3, CallsStay DEF IInv
<1> QED BY <1>2, <1>3, <1>4 DEF IInv, registry, RegistryTypeOK

\* The evaluations that a request can ask for are evaluation ids.
LEMMA EvaluationType ==
    ASSUME BooksInv, NEW id \in DOMAIN requests, NEW slot \in 1..MaxSlots
    PROVE  EvaluationOf(id, slot) \in EvaluationId
BY RequestParts DEF EvaluationOf, EvaluationId

\* A receipt, passing or not, of this evaluation or another, keeps the invariant.
LEMMA FinishEvaluationKeeps ==
    ASSUME IInv, NEW c \in engineCalls, NEW receipt \in Receipts, FinishEvaluation(c, receipt)
    PROVE  IInv' /\ RequestsStep
<1> DEFINE id == c.evaluation.request
           r == requests[id]
<1>1. id \in DOMAIN requests /\ BooksInv
  BY DEF IInv, CallsInv, CallsHaveRequests
<1>2. receipt \in Receipt
  BY <1>1, EvaluationType DEF Receipts, Receipt
<1>3. ASSUME r.status = "Evaluating"
      PROVE  /\ Ruled(r, receipt) \in Request /\ SameHold(Ruled(r, receipt), r)
             /\ \A status \in {"NeedsReview", "Stale"} :
                  Stopped(r, status) \in Request /\ SameHold(Stopped(r, status), r)
  <2>1. r \in Request /\ Len(r.receipts) < Signals[r.snapshot.plan]
    BY <1>1, <1>3, RequestParts DEF BooksInv, RequestsCoherent
  <2>2. r.status \notin Unresolved \cup {"Succeeded", "FailedDefinitive"}
    BY <1>3 DEF Unresolved
  <2> QED BY <1>2, <1>3, <2>1, <2>2, RuledHolds, StopHolds
<1> QED BY <1>3, ContinueKeeps DEF FinishEvaluation, Judged

\* So does an error of the engine.
LEMMA RefuseEvaluationKeeps ==
    ASSUME IInv, NEW c \in engineCalls, RefuseEvaluation(c)
    PROVE  IInv' /\ RequestsStep
<1> DEFINE id == c.evaluation.request
           r == requests[id]
<1>1. id \in DOMAIN requests /\ BooksInv
  BY DEF IInv, CallsInv, CallsHaveRequests
<1>2. ASSUME r.status = "Evaluating", NEW status \in {"NeedsReview", "Stale"}
      PROVE  Stopped(r, status) \in Request /\ SameHold(Stopped(r, status), r)
  BY <1>1, <1>2, RequestParts, StopHolds DEF Unresolved
<1> QED BY <1>2, ContinueKeeps DEF RefuseEvaluation

\* So does a call that failed.
LEMMA EngineTransportFailedKeeps ==
    ASSUME IInv, NEW c \in engineCalls, EngineTransportFailed(c)
    PROVE  IInv' /\ RequestsStep
<1> DEFINE id == c.evaluation.request
           r == requests[id]
<1>1. id \in DOMAIN requests /\ BooksInv
  BY DEF IInv, CallsInv, CallsHaveRequests
<1>2. ASSUME r.status = "Evaluating"
      PROVE  AfterLostCall(r) \in Request /\ SameHold(AfterLostCall(r), r)
  <2>1. r \in Request /\ Len(r.receipts) < Signals[r.snapshot.plan]
    BY <1>1, <1>2, RequestParts DEF BooksInv, RequestsCoherent
  <2>2. Stopped(r, "NeedsReview") \in Request /\ SameHold(Stopped(r, "NeedsReview"), r)
    BY <1>2, <2>1, StopHolds DEF Unresolved
  <2>3. [r EXCEPT !.inFlight = FALSE] \in Request /\ SameHold([r EXCEPT !.inFlight = FALSE], r)
    BY <1>2, <2>1 DEF Request, SameHold
  <2> QED BY <2>2, <2>3 DEF AfterLostCall
<1> QED BY <1>2, ContinueKeeps DEF EngineTransportFailed

\* advance: the request goes stale or asks for the slot after its last receipt.
LEMMA BeginEvaluationKeeps ==
    ASSUME IInv, NEW id \in DOMAIN requests, BeginEvaluation(id)
    PROVE  IInv' /\ RequestsStep
<1> DEFINE r == requests[id]
           asking == [r EXCEPT !.status = "Evaluating", !.inFlight = TRUE, !.sends = @ + 1]
<1>1. BooksInv /\ r \in Request /\ r.status \in {"Received", "Evaluating"}
  BY RequestParts DEF IInv, BeginEvaluation
<1>2. UNCHANGED <<registry, operations, grants, windows, nextNonce, now, ledgerCalls, lookups>>
  BY DEF BeginEvaluation
<1>3. Len(r.receipts) < Signals[r.snapshot.plan]
  BY <1>1 DEF BooksInv, RequestsCoherent
<1>4. CASE GoesStale(id) /\ Update(id, Stopped(r, "Stale")) /\ UNCHANGED engineCalls
  <2>1. Stopped(r, "Stale") \in Request /\ SameHold(Stopped(r, "Stale"), r)
    BY <1>1, StopHolds DEF Unresolved
  <2>2. BooksInv' /\ RequestsStep /\ DOMAIN requests' = DOMAIN requests
    BY <1>1, <1>2, <1>4, <2>1, AdjustKeepsBooks
  <2>3. CallsInv'
    BY <1>2, <1>4, <2>2, CallsStay DEF IInv
  <2> QED BY <1>2, <2>2, <2>3 DEF IInv, registry, RegistryTypeOK
<1>5. CASE /\ MayAsk(id) /\ Update(id, asking)
           /\ engineCalls' = engineCalls \cup
                  {[evaluation |-> PendingEvaluation(id), send |-> r.sends + 1]}
  <2>1. r.sends \in 0..MaxSends /\ r.sends < MaxSends
    BY <1>1, <1>5 DEF Request, MayAsk
  <2>2. r.sends + 1 \in 1..MaxSends /\ r.sends + 1 \in 0..MaxSends
    BY <2>1 DEF MaxSends
  <2>3. asking \in Request
    <3>1. "Evaluating" \in Status
      BY DEF Status
    <3> QED BY <1>1, <2>2, <3>1 DEF Request
  <2>4. SameHold(asking, r)
    BY <1>1, <1>3 DEF Request, SameHold, Unresolved
  <2>5. BooksInv' /\ RequestsStep /\ DOMAIN requests' = DOMAIN requests
    BY <1>1, <1>2, <1>5, <2>3, <2>4, AdjustKeepsBooks
  <2>6. Len(r.receipts) + 1 \in 1..MaxSlots
    <3>1. Signals[r.snapshot.plan] \in 1..MaxSlots
      BY <1>1, DataAssumption DEF DataAssumption, Request, SnapshotDigest
    <3>2. Len(r.receipts) \in Nat
      BY <1>1 DEF Request
    <3> QED BY <1>3, <3>1, <3>2 DEF MaxSlots
  <2>7. PendingEvaluation(id) \in EvaluationId /\ PendingEvaluation(id).request = id
    BY <1>1, <2>6, EvaluationType DEF PendingEvaluation, EvaluationOf
  <2>8. CallsInv'
    BY <1>2, <1>5, <2>2, <2>5, <2>7 DEF IInv, CallsInv, CallsTypeOK, CallsHaveRequests, EngineCall
  <2> QED BY <1>2, <2>5, <2>8 DEF IInv, registry, RegistryTypeOK
<1> QED BY <1>4, <1>5 DEF BeginEvaluation

\* dispatch in the modes that stop short of a transfer.
LEMMA ReportKeeps ==
    ASSUME IInv, NEW id \in DOMAIN requests, Report(id)
    PROVE  IInv' /\ RequestsStep
<1> DEFINE r == requests[id]
           reported == [r EXCEPT !.status = "Reported"]
<1>1. BooksInv /\ r \in Request /\ r.status = "ReadyToDispatch"
  BY RequestParts DEF IInv, Report, Authorized, EvidenceStands
<1>2. UNCHANGED <<registry, operations, grants, windows, nextNonce, now, calls>>
  BY DEF Report
<1>3. reported \in Request /\ SameHold(reported, r)
  BY <1>1 DEF Request, Status, SameHold, Unresolved
<1>4. BooksInv' /\ RequestsStep /\ DOMAIN requests' = DOMAIN requests
  BY <1>1, <1>2, <1>3, AdjustKeepsBooks DEF Report
<1>5. CallsInv'
  BY <1>2, <1>4, CallsStay DEF IInv, calls
<1> QED BY <1>2, <1>4, <1>5 DEF IInv, registry, RegistryTypeOK

\* cancel, which refuses a request that was dispatched.
LEMMA CancelKeeps ==
    ASSUME IInv, NEW id \in DOMAIN requests, Cancel(id)
    PROVE  IInv' /\ RequestsStep
<1> DEFINE r == requests[id]
<1>1. BooksInv /\ r \in Request /\ r.frozen = None
  BY RequestParts DEF IInv, Cancel
<1>2. UNCHANGED <<registry, operations, grants, windows, nextNonce, now, calls>>
  BY DEF Cancel
<1>3. r.status \notin Unresolved \cup {"Succeeded", "FailedDefinitive"}
  BY <1>1 DEF BooksInv, RequestsCoherent
<1>4. Stopped(r, "Cancelled") \in Request /\ SameHold(Stopped(r, "Cancelled"), r)
  BY <1>1, <1>3, StopHolds
<1>5. BooksInv' /\ RequestsStep /\ DOMAIN requests' = DOMAIN requests
  BY <1>1, <1>2, <1>4, AdjustKeepsBooks DEF Cancel
<1>6. CallsInv'
  BY <1>2, <1>5, CallsStay DEF IInv, calls
<1> QED BY <1>2, <1>5, <1>6 DEF IInv, registry, RegistryTypeOK

\* A retry makes one more attempt, within the limit, for a transfer it keeps.
LEMMA RetryUnknownKeeps ==
    ASSUME IInv, NEW id \in DOMAIN requests, RetryUnknown(id)
    PROVE  IInv' /\ RequestsStep
<1> DEFINE r == requests[id]
           again == [r EXCEPT !.attempt = @ + 1, !.status = "Submitted"]
           cmd == [request |-> id, attempt |-> r.attempt + 1, created |-> r.frozen]
<1>1. /\ BooksInv /\ r \in Request /\ id \in RequestId
      /\ r.status = "OutcomeUnknown" /\ r.attempt < MaxAttempts /\ r.frozen # None
  BY RequestParts DEF IInv, RetryUnknown, Retryable, WithinDedup
<1>2. UNCHANGED <<registry, operations, grants, windows, nextNonce, now, engineCalls, lookups>>
  BY DEF RetryUnknown
<1>3. r.attempt + 1 \in 0..MaxAttempts /\ r.frozen \in Time
  BY <1>1 DEF Request, MaxAttempts
<1>4. again \in Request /\ SameHold(again, r)
  BY <1>1, <1>3 DEF Request, Status, SameHold, Unresolved
<1>5. BooksInv' /\ RequestsStep /\ DOMAIN requests' = DOMAIN requests
  BY <1>1, <1>2, <1>4, AdjustKeepsBooks DEF RetryUnknown
<1>6. cmd \in Command /\ ledgerCalls' = ledgerCalls \cup {cmd}
  BY <1>1, <1>3 DEF Command, RetryUnknown
<1>7. CallsInv'
  BY <1>2, <1>5, <1>6 DEF IInv, CallsInv, CallsTypeOK, CallsHaveRequests
<1> QED BY <1>2, <1>5, <1>7 DEF IInv, registry, RegistryTypeOK

\* A lookup is made for a frozen transfer.
LEMMA ReconcileKeeps ==
    ASSUME IInv, NEW id \in DOMAIN requests, Reconcile(id)
    PROVE  IInv' /\ RequestsStep
<1> DEFINE r == requests[id]
           cmd == [request |-> id, attempt |-> r.attempt, created |-> r.frozen]
<1>1. /\ BooksInv /\ r \in Request /\ id \in RequestId /\ r.frozen # None
      /\ lookups' = lookups \cup {cmd}
      /\ UNCHANGED <<registry, books, now, engineCalls, ledgerCalls>>
  BY RequestParts DEF IInv, Reconcile
<1>2. cmd \in Command
  BY <1>1 DEF Command, Request
<1>3. BooksInv' /\ RequestsStep /\ DOMAIN requests' = DOMAIN requests
  BY <1>1, BooksStay, UntouchedStep DEF books
<1>4. CallsInv'
  BY <1>1, <1>2, <1>3 DEF IInv, CallsInv, CallsTypeOK, CallsHaveRequests
<1> QED BY <1>1, <1>3, <1>4 DEF IInv, registry, RegistryTypeOK

\* A fresh submission gets an id that no request has, and holds nothing yet.
LEMMA SubmitKeeps ==
    ASSUME IInv, NEW caller \in Delegate, NEW o \in Operation, NEW g \in Grant,
           Submit(caller, o, g)
    PROVE  IInv' /\ RequestsStep
<1> DEFINE nonce == NextNonceOf(caller)
           id == [caller |-> caller, nonce |-> nonce]
           r == [operation |-> o, grant |-> g, snapshot |-> Snapshot(o, g),
                 expires |-> Earlier(now + RequestTTL, Terms[g].expires),
                 status |-> "Received", receipts |-> <<>>, sends |-> 0, inFlight |-> FALSE,
                 epoch |-> None, frozen |-> None, attempt |-> 0, everUnknown |-> FALSE,
                 block |-> None]
<1>1. BooksInv /\ now \in Time /\ g \in DOMAIN grants /\ o \in DOMAIN operations
  BY DEF IInv, Submit
<1>2. /\ requests' = Put(requests, id, r) /\ nextNonce' = Put(nextNonce, caller, nonce + 1)
      /\ UNCHANGED <<registry, operations, grants, windows, now, calls>>
  BY DEF Submit
<1>3. nonce \in Nat
  BY <1>1 DEF BooksInv, BooksTypeOK, IsMap, NextNonceOf
<1>4. id \in RequestId /\ id \notin DOMAIN requests
  BY <1>1, <1>3 DEF RequestId, BooksInv, NoncesConsumed
<1>5. Terms[g] \in GrantTerms
  BY DataAssumption DEF DataAssumption
<1>6. Snapshot(o, g) \in SnapshotDigest /\ Snapshot(o, g).plan \in Plan
  BY <1>1, <1>5 DEF Snapshot, SnapshotDigest, BooksInv, BooksTypeOK, IsMap, OperationRecord,
                    GrantRecord, GrantTerms
<1>7. Earlier(now + RequestTTL, Terms[g].expires) \in Nat
  BY <1>1, <1>5, BoundAssumption DEF BoundAssumption, Earlier, Time, GrantTerms
<1>8. r \in Request
  BY <1>6, <1>7 DEF Request, Status, MaxSends, MaxAttempts
<1>9. 0 < Signals[r.snapshot.plan]
  BY <1>6, DataAssumption DEF DataAssumption, MaxSlots
<1>10. /\ r.operation = o /\ r.grant = g /\ r.status = "Received" /\ Len(r.receipts) = 0
       /\ r.epoch = None /\ r.frozen = None
  OBVIOUS
<1> HIDE DEF r
<1>11. /\ IsMap(requests', RequestId, Request) /\ DOMAIN requests' = DOMAIN requests \cup {id}
       /\ requests'[id] = r /\ \A x \in DOMAIN requests : requests'[x] = requests[x]
  BY <1>1, <1>2, <1>4, <1>8, PutMap DEF BooksInv, BooksTypeOK
<1>12. /\ IsMap(nextNonce', Delegate, Nat) /\ nextNonce'[caller] = nonce + 1
       /\ DOMAIN nextNonce' = DOMAIN nextNonce \cup {caller}
       /\ \A x \in DOMAIN nextNonce : x # caller => nextNonce'[x] = nextNonce[x]
  BY <1>1, <1>2, <1>3, PutMap DEF BooksInv, BooksTypeOK
<1>13. BooksTypeOK'
  BY <1>1, <1>2, <1>11, <1>12 DEF BooksInv, BooksTypeOK
<1>14. RequestsCoherent'
  BY <1>1, <1>2, <1>9, <1>10, <1>11 DEF BooksInv, RequestsCoherent, Unresolved
<1>15. NoncesConsumed'
  <2>1. SUFFICES ASSUME NEW x \in DOMAIN requests' PROVE x.nonce < NextNonceOf(x.caller)'
    BY DEF NoncesConsumed
  <2>2. CASE x = id
    BY <2>2, <1>3, <1>12 DEF NextNonceOf
  <2>3. CASE x \in DOMAIN requests
    <3>1. x \in RequestId /\ x.nonce < NextNonceOf(x.caller)
      BY <1>1, <2>3 DEF BooksInv, NoncesConsumed, BooksTypeOK, IsMap
    <3>2. NextNonceOf(x.caller)' =
            IF x.caller = caller THEN nonce + 1 ELSE NextNonceOf(x.caller)
      BY <1>12 DEF NextNonceOf
    <3> QED BY <1>3, <3>1, <3>2 DEF RequestId
  <2> QED BY <1>11, <2>2, <2>3
<1>16. HoldersMatch' /\ LocksAreBacked'
  BY <1>1, <1>2, <1>4, <1>10, <1>11 DEF BooksInv, HoldersMatch, LocksAreBacked
<1>17. CapsRespected'
  BY <1>1, <1>2 DEF BooksInv, CapsRespected
<1>18. CallsInv'
  BY <1>2, <1>11, CallsStay DEF IInv, calls
<1>19. RequestsStep
  BY <1>1, <1>11, UntouchedStep
<1> QED BY <1>2, <1>13, <1>14, <1>15, <1>16, <1>17, <1>18, <1>19 DEF IInv, BooksInv, registry, RegistryTypeOK

\* The charge of an operation is an amount of money.
LEMMA ChargeType == \A o \in Operation : Charge(o) \in Nat
BY DataAssumption DEF DataAssumption, Charge

\* Epochs are moments of the clock, so there are no more windows than moments.
LEMMA EpochType == \A g \in Grant, t \in Time : t \div Terms[g].windowLen \in Time
<1>1. ASSUME NEW t \in Nat, NEW len \in Nat \ {0}
      PROVE  t \div len \in Nat /\ t \div len <= t
  OBVIOUS
<1>2. \A g \in Grant : Terms[g].windowLen \in Nat \ {0}
  BY DataAssumption DEF DataAssumption, GrantTerms
<1> QED BY <1>1, <1>2, BoundAssumption DEF BoundAssumption, Time

\* dispatch reserves within the caps and takes an operation that nobody holds.
LEMMA DispatchKeeps ==
    ASSUME IInv, NEW id \in DOMAIN requests, Dispatch(id)
    PROVE  IInv' /\ RequestsStep
<1> DEFINE r == requests[id]
           o == r.operation
           g == r.grant
           charge == Charge(o)
           epoch == now \div Terms[g].windowLen
           w == <<g, epoch>>
           cmd == [request |-> id, attempt |-> 1, created |-> now]
           sent == [r EXCEPT !.epoch = epoch, !.frozen = now, !.status = "Submitted", !.attempt = 1]
           grant == [grants[g] EXCEPT !.total.reserved = @ + charge]
           usage == [UsageIn(g, epoch) EXCEPT !.reserved = @ + charge]
           taken == [operations[o] EXCEPT !.state = "Reserved", !.holder = id]
<1>1. /\ BooksInv /\ now \in Time /\ r \in Request /\ id \in RequestId
      /\ o \in DOMAIN operations /\ o \in Operation /\ g \in DOMAIN grants /\ g \in Grant
  BY RequestParts DEF IInv
<1>2. /\ r.status = "ReadyToDispatch" /\ operations[o].state = "Available"
      /\ CanReserve(g, charge, epoch)
  BY DEF Dispatch, Authorized, EvidenceStands
<1>3. /\ grants' = [grants EXCEPT ![g] = grant] /\ windows' = Put(windows, w, usage)
      /\ operations' = [operations EXCEPT ![o] = taken]
      /\ requests' = [requests EXCEPT ![id] = sent]
      /\ ledgerCalls' = ledgerCalls \cup {cmd}
      /\ UNCHANGED <<registry, nextNonce, now, engineCalls, lookups>>
  BY DEF Dispatch, Update
<1>4. charge \in Nat /\ epoch \in Time
  BY <1>1, ChargeType, EpochType
<1>5. None \notin Time /\ None # id
  BY <1>1, NoneAssumption DEF NoneAssumption, Time
<1>6. w \in Grant \X Time
  BY <1>1, <1>4
<1>7. /\ grants[g] \in GrantRecord /\ operations[o] \in OperationRecord
      /\ UsageIn(g, epoch) \in Usage
  BY <1>1 DEF BooksInv, BooksTypeOK, IsMap, UsageIn, Usage, NoUsage
<1>8. /\ grant \in GrantRecord
      /\ grant.total.spent = grants[g].total.spent
      /\ grant.total.reserved = grants[g].total.reserved + charge
  BY <1>4, <1>7 DEF GrantRecord, Usage
<1>9. /\ usage \in Usage /\ usage.spent = UsageIn(g, epoch).spent
      /\ usage.reserved = UsageIn(g, epoch).reserved + charge
  BY <1>4, <1>7 DEF Usage
<1>10. taken \in OperationRecord /\ taken.state = "Reserved" /\ taken.holder = id
  BY <1>1, <1>7 DEF OperationRecord
<1>11. /\ sent \in Request /\ sent.operation = o /\ sent.grant = g /\ sent.status = "Submitted"
       /\ sent.epoch = epoch /\ sent.frozen = now
  <2>1. "Submitted" \in Status /\ 1 \in 0..MaxAttempts
    BY DEF Status, MaxAttempts
  <2>2. r \in Request /\ now \in Time /\ epoch \in Time
    BY <1>1, <1>4
  <2> HIDE DEF r, epoch
  <2>3. sent \in Request
    BY <2>1, <2>2 DEF Request
  <2>4. /\ sent.operation = o /\ sent.grant = g /\ sent.status = "Submitted"
        /\ sent.epoch = epoch /\ sent.frozen = now
    BY <2>2 DEF Request
  <2> QED BY <2>3, <2>4
<1> HIDE DEF grant, usage, taken, sent, charge, epoch
<1>12. /\ IsMap(requests', RequestId, Request) /\ DOMAIN requests' = DOMAIN requests
       /\ requests'[id] = sent /\ \A x \in DOMAIN requests : x # id => requests'[x] = requests[x]
  BY <1>1, <1>3, <1>11, ExceptMap DEF BooksInv, BooksTypeOK
<1>13. /\ IsMap(grants', Grant, GrantRecord) /\ DOMAIN grants' = DOMAIN grants
       /\ grants'[g] = grant /\ \A x \in DOMAIN grants : x # g => grants'[x] = grants[x]
  BY <1>1, <1>3, <1>8, ExceptMap DEF BooksInv, BooksTypeOK
<1>14. /\ IsMap(operations', Operation, OperationRecord) /\ DOMAIN operations' = DOMAIN operations
       /\ operations'[o] = taken
       /\ \A x \in DOMAIN operations : x # o => operations'[x] = operations[x]
  <2>1. IsMap(operations, Operation, OperationRecord)
    BY <1>1 DEF BooksInv, BooksTypeOK
  <2> HIDE DEF o
  <2> QED BY <1>1, <1>3, <1>10, <2>1, ExceptMap
<1>15. /\ IsMap(windows', Grant \X Time, Usage) /\ DOMAIN windows' = DOMAIN windows \cup {w}
       /\ windows'[w] = usage /\ \A x \in DOMAIN windows : x # w => windows'[x] = windows[x]
  <2> DEFINE K == Grant \X Time
  <2>1. IsMap(windows, K, Usage) /\ w \in K /\ windows' = Put(windows, w, usage)
    BY <1>1, <1>3, <1>6 DEF BooksInv, BooksTypeOK
  <2>2. usage \in Usage
    BY <1>9
  <2> HIDE DEF w, K
  <2>3. /\ IsMap(windows', K, Usage) /\ DOMAIN windows' = DOMAIN windows \cup {w}
        /\ windows'[w] = usage /\ \A x \in DOMAIN windows : x # w => windows'[x] = windows[x]
    BY <2>1, <2>2 DEF IsMap, Put
  <2> QED BY <2>3 DEF K
<1>16. BooksTypeOK'
  BY <1>1, <1>3, <1>12, <1>13, <1>14, <1>15 DEF BooksInv, BooksTypeOK
<1>17. RequestsCoherent'
  BY <1>1, <1>4, <1>5, <1>11, <1>12, <1>13, <1>14 DEF BooksInv, RequestsCoherent, Unresolved
<1>18. NoncesConsumed'
  BY <1>1, <1>3, <1>12 DEF BooksInv, NoncesConsumed, NextNonceOf
<1>19. HoldersMatch'
  BY <1>1, <1>2, <1>10, <1>11, <1>12, <1>14 DEF BooksInv, HoldersMatch, RequestsCoherent, Unresolved
<1>20. LocksAreBacked'
  BY <1>1, <1>2, <1>4, <1>5, <1>10, <1>11, <1>12, <1>14 DEF BooksInv, LocksAreBacked, HoldersMatch
<1>21. CapsRespected'
  <2>1. grant.total.spent + grant.total.reserved <= Terms[g].totalCap
    <3>1. grants[g].total \in Usage
      BY <1>7 DEF GrantRecord
    <3>2. grants[g].total.spent + grants[g].total.reserved + charge <= Terms[g].totalCap
      BY <1>2 DEF CanReserve, WithinTotal
    <3> QED BY <1>4, <1>8, <3>1, <3>2 DEF Usage
  <2>2. usage.spent + usage.reserved <= Terms[g].windowCap
    BY <1>2, <1>4, <1>7, <1>9 DEF CanReserve, Usage
  <2>3. w[1] = g
    OBVIOUS
  <2> QED BY <1>1, <1>13, <1>15, <2>1, <2>2, <2>3 DEF BooksInv, CapsRespected
<1>22. cmd \in Command
  BY <1>1 DEF Command, MaxAttempts
<1>23. CallsInv'
  BY <1>3, <1>12, <1>22 DEF IInv, CallsInv, CallsTypeOK, CallsHaveRequests
<1>24. RequestsStep
  <2>1. r.frozen = None /\ r.epoch = None /\ requests'[id].status \in Unresolved
    BY <1>1, <1>2, <1>11, <1>12 DEF BooksInv, RequestsCoherent, Unresolved
  <2>2. ASSUME NEW x \in DOMAIN requests, x # id PROVE SameHold(requests'[x], requests[x])
    BY <1>1, <1>12, <2>2 DEF BooksInv, RequestsCoherent, SameHold
  <2> QED BY <2>1, <2>2 DEF RequestsStep, RequestStep
<1> QED BY <1>1, <1>3, <1>16, <1>17, <1>18, <1>19, <1>20, <1>21, <1>23, <1>24
        DEF IInv, BooksInv, registry, RegistryTypeOK

\* Settling moves a reserved charge, or frees it, and never raises a sum.
LEMMA SettledType ==
    ASSUME NEW u \in Usage, NEW charge \in Nat, u.reserved >= charge, NEW success \in BOOLEAN
    PROVE  /\ Settled(u, charge, success) \in Usage
           /\ Settled(u, charge, success).spent + Settled(u, charge, success).reserved
                <= u.spent + u.reserved
<1>1. u.spent \in Nat /\ u.reserved \in Nat /\ u.reserved - charge \in Nat
  BY DEF Usage
<1>2. Settled(u, charge, success).spent = (IF success THEN u.spent + charge ELSE u.spent)
  BY DEF Settled
<1>3. Settled(u, charge, success).reserved = u.reserved - charge
  BY DEF Settled
<1>4. Settled(u, charge, success) \in Usage
  BY <1>1 DEF Settled, Usage
<1> QED BY <1>1, <1>2, <1>3, <1>4

\* Settling gives the operation to the request for good, or back to everybody.
LEMMA SettleKeepsBooks ==
    ASSUME BooksInv, NEW id \in DOMAIN requests, NEW success \in BOOLEAN,
           NEW block \in Block \cup {None},
           SettleRecord(id, success, block), UNCHANGED nextNonce
    PROVE  /\ BooksInv' /\ DOMAIN requests' = DOMAIN requests
           /\ success \/ ~requests[id].everUnknown => RequestsStep
<1> DEFINE r == requests[id]
           o == r.operation
           g == r.grant
           charge == Charge(o)
           w == <<g, r.epoch>>
           status == IF success THEN "Succeeded" ELSE "FailedDefinitive"
           done == [r EXCEPT !.epoch = None, !.block = block, !.status = status]
           grant == [grants[g] EXCEPT !.total = Settled(@, charge, success)]
           usage == Settled(windows[w], charge, success)
           given == [operations[o] EXCEPT !.state = IF success THEN "Consumed" ELSE "Available",
                                          !.holder = IF success THEN id ELSE None]
<1>1. /\ r \in Request /\ id \in RequestId
      /\ o \in DOMAIN operations /\ o \in Operation /\ g \in DOMAIN grants /\ g \in Grant
  BY RequestParts
<1>2. /\ r.epoch # None /\ w \in DOMAIN windows
      /\ operations[o].state = "Reserved" /\ operations[o].holder = id
      /\ grants[g].total.reserved >= charge /\ windows[w].reserved >= charge
  BY DEF SettleRecord, CanSettle
<1>3. /\ grants' = [grants EXCEPT ![g] = grant] /\ windows' = [windows EXCEPT ![w] = usage]
      /\ operations' = [operations EXCEPT ![o] = given]
      /\ requests' = [requests EXCEPT ![id] = done]
  BY DEF SettleRecord, Update
<1>4. charge \in Nat
  BY <1>1, ChargeType
<1>5. /\ grants[g] \in GrantRecord /\ grants[g].total \in Usage
      /\ operations[o] \in OperationRecord /\ windows[w] \in Usage
  BY <1>1, <1>2 DEF BooksInv, BooksTypeOK, IsMap, GrantRecord
<1>6. /\ grant \in GrantRecord
      /\ grant.total.spent + grant.total.reserved
           <= grants[g].total.spent + grants[g].total.reserved
  <2> DEFINE total == Settled(grants[g].total, charge, success)
  <2>1. /\ total \in Usage
        /\ total.spent + total.reserved <= grants[g].total.spent + grants[g].total.reserved
    BY <1>2, <1>4, <1>5, SettledType
  <2>2. grant = [grants[g] EXCEPT !.total = total]
    OBVIOUS
  <2> HIDE DEF total, grant
  <2>3. grant \in GrantRecord /\ grant.total = total
    BY <1>5, <2>1, <2>2 DEF GrantRecord
  <2> QED BY <2>1, <2>3
<1>7. usage \in Usage /\ usage.spent + usage.reserved <= windows[w].spent + windows[w].reserved
  BY <1>2, <1>4, <1>5, SettledType
<1>8. /\ given \in OperationRecord
      /\ success => given.state = "Consumed" /\ given.holder = id
      /\ ~success => given.state = "Available" /\ given.holder = None
  BY <1>1, <1>5 DEF OperationRecord
<1>9. /\ done \in Request /\ done.operation = o /\ done.grant = g
      /\ done.epoch = None /\ done.frozen = r.frozen /\ done.status = status
  <2>1. status \in Status
    BY DEF Status
  <2>2. r \in Request
    BY <1>1
  <2> HIDE DEF r, status
  <2>3. done \in Request
    BY <2>1, <2>2 DEF Request
  <2>4. /\ done.operation = o /\ done.grant = g
        /\ done.epoch = None /\ done.frozen = r.frozen /\ done.status = status
    BY <2>2 DEF Request
  <2> QED BY <2>3, <2>4
<1>10. r.status \in Unresolved /\ r.frozen # None
  BY <1>2 DEF BooksInv, RequestsCoherent
<1> HIDE DEF done, grant, usage, given, charge
<1>11. /\ IsMap(requests', RequestId, Request) /\ DOMAIN requests' = DOMAIN requests
       /\ requests'[id] = done
       /\ \A x \in DOMAIN requests : x # id => requests'[x] = requests[x]
  BY <1>3, <1>9, ExceptMap DEF BooksInv, BooksTypeOK
<1>12. /\ IsMap(grants', Grant, GrantRecord) /\ DOMAIN grants' = DOMAIN grants
       /\ grants'[g] = grant /\ \A x \in DOMAIN grants : x # g => grants'[x] = grants[x]
  <2>1. IsMap(grants, Grant, GrantRecord)
    BY DEF BooksInv, BooksTypeOK
  <2> HIDE DEF g
  <2> QED BY <1>1, <1>3, <1>6, <2>1, ExceptMap
<1>13. /\ IsMap(operations', Operation, OperationRecord) /\ DOMAIN operations' = DOMAIN operations
       /\ operations'[o] = given
       /\ \A x \in DOMAIN operations : x # o => operations'[x] = operations[x]
  <2>1. IsMap(operations, Operation, OperationRecord)
    BY DEF BooksInv, BooksTypeOK
  <2> HIDE DEF o
  <2> QED BY <1>1, <1>3, <1>8, <2>1, ExceptMap
<1>14. /\ IsMap(windows', Grant \X Time, Usage) /\ DOMAIN windows' = DOMAIN windows
       /\ windows'[w] = usage /\ \A x \in DOMAIN windows : x # w => windows'[x] = windows[x]
  <2> DEFINE K == Grant \X Time
  <2>1. IsMap(windows, K, Usage) /\ w \in DOMAIN windows /\ windows' = [windows EXCEPT ![w] = usage]
    BY <1>2, <1>3 DEF BooksInv, BooksTypeOK
  <2> HIDE DEF w, K
  <2>2. /\ IsMap(windows', K, Usage) /\ DOMAIN windows' = DOMAIN windows
        /\ windows'[w] = usage /\ \A x \in DOMAIN windows : x # w => windows'[x] = windows[x]
    BY <1>7, <2>1 DEF IsMap
  <2> QED BY <2>2 DEF K
<1>15. BooksTypeOK'
  BY <1>11, <1>12, <1>13, <1>14 DEF BooksInv, BooksTypeOK
<1>16. RequestsCoherent'
  BY <1>9, <1>10, <1>11, <1>12, <1>13 DEF BooksInv, RequestsCoherent, Unresolved
<1>17. NoncesConsumed'
  BY <1>11 DEF BooksInv, NoncesConsumed, NextNonceOf
<1>18. HoldersMatch'
  BY <1>2, <1>8, <1>9, <1>11, <1>13 DEF BooksInv, HoldersMatch, RequestsCoherent
<1>19. LocksAreBacked'
  <2>1. None # id
    BY <1>1, NoneAssumption DEF NoneAssumption
  <2> QED BY <1>2, <1>8, <1>9, <1>11, <1>13, <2>1 DEF BooksInv, LocksAreBacked, HoldersMatch
<1>20. CapsRespected'
  <2>1. grant.total.spent + grant.total.reserved <= Terms[g].totalCap
    <3>1. /\ grant.total \in Usage /\ grants[g].total \in Usage
          /\ grants[g].total.spent + grants[g].total.reserved <= Terms[g].totalCap
          /\ Terms[g].totalCap \in Nat
      BY <1>1, <1>5, <1>6, DataAssumption
         DEF BooksInv, CapsRespected, GrantRecord, DataAssumption, GrantTerms
    <3> QED BY <1>6, <3>1 DEF Usage
  <2>2. usage.spent + usage.reserved <= Terms[w[1]].windowCap
    <3>1. /\ windows[w].spent + windows[w].reserved <= Terms[w[1]].windowCap
          /\ Terms[w[1]].windowCap \in Nat
      BY <1>1, <1>2, DataAssumption DEF BooksInv, CapsRespected, DataAssumption, GrantTerms
    <3> QED BY <1>5, <1>7, <3>1 DEF Usage
  <2> HIDE DEF w, g
  <2> QED BY <1>12, <1>14, <2>1, <2>2 DEF BooksInv, CapsRespected
<1>21. ASSUME success \/ ~r.everUnknown
       PROVE  RequestsStep
  <2>1. RequestStep(id)
    BY <1>9, <1>10, <1>11, <1>21 DEF RequestStep
  <2>2. ASSUME NEW x \in DOMAIN requests, x # id PROVE SameHold(requests'[x], requests[x])
    BY <1>11, <2>2 DEF BooksInv, RequestsCoherent, SameHold
  <2> QED BY <2>1, <2>2 DEF RequestsStep, RequestStep
<1> QED BY <1>11, <1>15, <1>16, <1>17, <1>18, <1>19, <1>20, <1>21 DEF BooksInv

\* The answer of the ledger, or of a lookup: settles, leaves in doubt, or is ignored.
LEMMA FinishLedgerKeepsBooks ==
    ASSUME BooksInv, NEW cmd, cmd.request \in DOMAIN requests, NEW outcome,
           outcome.kind = "Success" => outcome.block \in Block \cup {None},
           FinishLedger(cmd, outcome), UNCHANGED nextNonce
    PROVE  BooksInv' /\ RequestsStep /\ DOMAIN requests' = DOMAIN requests
<1> DEFINE id == cmd.request
           r == requests[id]
<1>1. CASE SettleRecord(id, TRUE, outcome.block) /\ outcome.kind = "Success"
  BY <1>1, SettleKeepsBooks
<1>2. CASE SettleRecord(id, FALSE, None) /\ ~r.everUnknown
  BY <1>2, SettleKeepsBooks
<1>3. CASE /\ Answers(cmd) /\ Update(id, Doubtful(r))
           /\ UNCHANGED <<operations, grants, windows>>
  <2>1. r \in Request /\ r.status \in Unresolved
    BY <1>3, RequestParts DEF Answers
  <2>2. /\ Doubtful(r) \in Request /\ Doubtful(r).status = "OutcomeUnknown"
        /\ SameTerms(Doubtful(r), r)
    BY <2>1, DoubtfulType
  <2>3. SameHold(Doubtful(r), r)
    BY <2>1, <2>2 DEF SameHold, SameTerms, Unresolved
  <2> QED BY <1>3, <2>2, <2>3, AdjustKeepsBooks
<1>4. CASE UNCHANGED <<operations, grants, windows, requests>>
  BY <1>4, BooksStay, UntouchedStep DEF books
<1> QED BY <1>1, <1>2, <1>3, <1>4 DEF FinishLedger, Definite

\* Whatever the ledger answers, and to whichever attempt, keeps the invariant.
LEMMA LedgerReturnsKeeps ==
    ASSUME IInv, NEW cmd \in ledgerCalls, NEW outcome \in LedgerOutcome, LedgerReturns(cmd, outcome)
    PROVE  IInv' /\ RequestsStep
<1>1. outcome.kind = "Success" => outcome.block \in Block \cup {None}
  BY DEF LedgerOutcome, Index
<1>2. cmd.request \in DOMAIN requests /\ BooksInv
  BY DEF IInv, CallsInv, CallsHaveRequests
<1>3. /\ ledgerCalls' = ledgerCalls \ {cmd} /\ FinishLedger(cmd, outcome)
      /\ UNCHANGED <<registry, nextNonce, now, engineCalls, lookups>>
  BY DEF LedgerReturns
<1>4. BooksInv' /\ RequestsStep /\ DOMAIN requests' = DOMAIN requests
  BY <1>1, <1>2, <1>3, FinishLedgerKeepsBooks
<1>5. CallsInv'
  BY <1>3, <1>4, CallsStay DEF IInv
<1> QED BY <1>3, <1>4, <1>5 DEF IInv, registry, RegistryTypeOK

\* Whatever a lookup finds, however late, keeps the invariant.
LEMMA LookupReturnsKeeps ==
    ASSUME IInv, NEW cmd \in lookups, NEW found \in Block \cup {None}, LookupReturns(cmd, found)
    PROVE  IInv' /\ RequestsStep
<1> DEFINE outcome == IF found # None THEN Success(found) ELSE Unknown
<1>1. outcome.kind = "Success" => outcome.block \in Block \cup {None}
  BY DEF Success, Unknown
<1>2. cmd.request \in DOMAIN requests /\ BooksInv
  BY DEF IInv, CallsInv, CallsHaveRequests
<1>3. /\ lookups' = lookups \ {cmd} /\ FinishLedger(cmd, outcome)
      /\ UNCHANGED <<registry, nextNonce, now, engineCalls, ledgerCalls>>
  BY DEF LookupReturns
<1> HIDE DEF outcome
<1>4. BooksInv' /\ RequestsStep /\ DOMAIN requests' = DOMAIN requests
  BY <1>1, <1>2, <1>3, FinishLedgerKeepsBooks
<1>5. CallsInv'
  BY <1>3, <1>4, CallsStay DEF IInv
<1> QED BY <1>3, <1>4, <1>5 DEF IInv, registry, RegistryTypeOK

\* Recovery after an upgrade stops evaluations and doubts transfers; it gives
\* nothing up.
LEMMA RecoveredHolds ==
    ASSUME BooksInv, NEW id \in DOMAIN requests
    PROVE  Recovered(requests[id]) \in Request /\ SameHold(Recovered(requests[id]), requests[id])
<1> DEFINE r == requests[id]
<1>1. r \in Request
  BY RequestParts
<1>2. CASE r.status = "Evaluating"
  <2>1. Stopped(r, "NeedsReview") \in Request /\ SameHold(Stopped(r, "NeedsReview"), r)
    BY <1>1, <1>2, StopHolds DEF Unresolved
  <2> QED BY <1>2, <2>1 DEF Recovered
<1>3. CASE r.status = "Submitted"
  <2>1. /\ Doubtful(r) \in Request /\ Doubtful(r).status = "OutcomeUnknown"
        /\ SameTerms(Doubtful(r), r)
    BY <1>1, DoubtfulType
  <2>2. SameHold(Doubtful(r), r)
    BY <1>3, <2>1 DEF SameHold, SameTerms, Unresolved
  <2> QED BY <1>3, <2>1, <2>2 DEF Recovered, Interrupted
<1>4. CASE r.status \notin {"Evaluating", "Submitted"}
  <2>1. Recovered(r) = r
    BY <1>4 DEF Recovered
  <2>2. SameHold(r, r)
    BY DEF BooksInv, RequestsCoherent, SameHold
  <2> QED BY <1>1, <2>1, <2>2
<1> QED BY <1>2, <1>3, <1>4

\* post_upgrade keeps the invariant, and leaves no continuation behind.
LEMMA PostUpgradeKeeps ==
    ASSUME IInv, PostUpgrade
    PROVE  IInv' /\ RequestsStep
<1>1. /\ requests' = [id \in DOMAIN requests |-> Recovered(requests[id])]
      /\ UNCHANGED <<operations, grants, windows, nextNonce>> /\ BooksInv
  BY DEF IInv, PostUpgrade
<1>2. DOMAIN requests' = DOMAIN requests
  BY <1>1
<1>3. \A x \in DOMAIN requests : requests'[x] \in Request /\ SameHold(requests'[x], requests[x])
  BY <1>1, RecoveredHolds
<1>4. BooksTypeOK'
  <2>1. requests' \in [DOMAIN requests -> Request]
    BY <1>1, <1>3
  <2> QED BY <1>1, <1>2, <2>1 DEF BooksInv, BooksTypeOK, IsMap
<1>5. RequestsCoherent'
  BY <1>1, <1>2, <1>3 DEF BooksInv, RequestsCoherent, SameHold, Unresolved
<1>6. NoncesConsumed' /\ CapsRespected'
  BY <1>1, <1>2 DEF BooksInv, NoncesConsumed, NextNonceOf, CapsRespected
<1>7. HoldersMatch'
  BY <1>1, <1>2, <1>3 DEF BooksInv, HoldersMatch, SameHold
<1>8. LocksAreBacked'
  BY <1>1, <1>2, <1>3 DEF BooksInv, LocksAreBacked, SameHold
<1>9. CallsInv'
  BY <1>2, CallsStay DEF IInv, PostUpgrade
<1>10. RequestsStep
  BY <1>3 DEF RequestsStep, RequestStep
<1> QED BY <1>4, <1>5, <1>6, <1>7, <1>8, <1>9, <1>10 DEF IInv, BooksInv, PostUpgrade, RegistryTypeOK

\* A step that writes the books only by registering: requests and what they
\* hold are untouched, operations and grants keep what the books say of them.
LEMMA RegisterKeeps ==
    ASSUME IInv,
           IsMap(operations', Operation, OperationRecord), DOMAIN operations \subseteq DOMAIN operations',
           \A o \in DOMAIN operations : /\ operations'[o].state = operations[o].state
                                        /\ operations'[o].holder = operations[o].holder,
           \A o \in DOMAIN operations' \ DOMAIN operations :
             operations'[o].state = "Available" /\ operations'[o].holder = None,
           IsMap(grants', Grant, GrantRecord), DOMAIN grants \subseteq DOMAIN grants',
           \A g \in DOMAIN grants : grants'[g].total = grants[g].total,
           \A g \in DOMAIN grants' \ DOMAIN grants : grants'[g].total = NoUsage,
           UNCHANGED <<registry, windows, requests, nextNonce, now, calls>>
    PROVE  IInv' /\ RequestsStep
<1>1. BooksTypeOK'
  BY DEF IInv, BooksInv, BooksTypeOK
<1>2. RequestsCoherent'
  BY DEF IInv, BooksInv, RequestsCoherent
<1>3. NoncesConsumed'
  BY DEF IInv, BooksInv, NoncesConsumed, NextNonceOf
<1>4. HoldersMatch'
  BY DEF IInv, BooksInv, HoldersMatch, RequestsCoherent
<1>5. LocksAreBacked'
  BY DEF IInv, BooksInv, LocksAreBacked
<1>6. CapsRespected'
  <2>1. \A g \in DOMAIN grants' : Terms[g].totalCap \in Nat
    BY DataAssumption DEF IsMap, DataAssumption, GrantTerms
  <2> QED BY <2>1 DEF IInv, BooksInv, CapsRespected, NoUsage
<1>7. CallsInv'
  BY CallsStay DEF IInv, calls
<1>8. RequestsStep
  BY UntouchedStep DEF IInv
<1> QED BY <1>1, <1>2, <1>3, <1>4, <1>5, <1>6, <1>7, <1>8 DEF IInv, BooksInv, registry, RegistryTypeOK

\* Registering, revising and revoking keep the invariant; so do mode and pause.
LEMMA OwnerKeeps ==
    ASSUME IInv, OwnerStep
    PROVE  IInv' /\ RequestsStep
<1>1. CASE /\ UNCHANGED <<books, now, calls>> /\ RegistryTypeOK'
  <2>1. BooksInv'
    BY <1>1, BooksStay DEF IInv
  <2>2. CallsInv'
    BY <1>1, CallsStay DEF IInv, books, calls
  <2>3. RequestsStep
    BY <1>1, UntouchedStep DEF IInv, books
  <2> QED BY <1>1, <2>1, <2>2, <2>3 DEF IInv
<1>2. ASSUME NEW m \in OwnerModes, SetMode(m) PROVE IInv' /\ RequestsStep
  BY <1>1, <1>2, BoundAssumption DEF SetMode, IInv, RegistryTypeOK, Mode, BoundAssumption
<1>3. ASSUME NEW b \in BOOLEAN, SetPaused(b) PROVE IInv' /\ RequestsStep
  BY <1>1, <1>3 DEF SetPaused, IInv, RegistryTypeOK
<1>4. ASSUME NEW p \in Plan, InstallPlan(p) PROVE IInv' /\ RequestsStep
  BY <1>1, <1>4 DEF InstallPlan, IInv, RegistryTypeOK
<1>5. ASSUME NEW l \in Ledger, RegisterMockLedger(l) PROVE IInv' /\ RequestsStep
  BY <1>1, <1>5 DEF RegisterMockLedger, IInv, RegistryTypeOK
<1>6. ASSUME NEW o \in Operation, InstallOperation(o) PROVE IInv' /\ RequestsStep
  <2> DEFINE record == [revision |-> 1, state |-> "Available", holder |-> None]
  <2>1. record \in OperationRecord
    BY DEF OperationRecord
  <2>2. /\ IsMap(operations', Operation, OperationRecord)
        /\ DOMAIN operations' = DOMAIN operations \cup {o} /\ operations'[o] = record
        /\ \A x \in DOMAIN operations : operations'[x] = operations[x]
    BY <1>6, <2>1 DEF InstallOperation, IInv, BooksInv, BooksTypeOK, IsMap, Put
  <2>3. IsMap(grants', Grant, GrantRecord) /\ grants' = grants
    BY <1>6 DEF InstallOperation, IInv, BooksInv, BooksTypeOK
  <2> QED BY <1>6, <2>2, <2>3, RegisterKeeps DEF InstallOperation
<1>7. ASSUME NEW o \in Operation, ReviseOperation(o) PROVE IInv' /\ RequestsStep
  <2> DEFINE record == [operations[o] EXCEPT !.revision = @ + 1]
  <2>1. /\ IsMap(operations, Operation, OperationRecord) /\ o \in DOMAIN operations
        /\ operations[o] \in OperationRecord
    BY <1>7 DEF ReviseOperation, IInv, BooksInv, BooksTypeOK, IsMap
  <2>2. /\ record \in OperationRecord /\ record.state = operations[o].state
        /\ record.holder = operations[o].holder
    BY <2>1 DEF OperationRecord
  <2>3. operations' = [operations EXCEPT ![o] = record]
    BY <1>7 DEF ReviseOperation
  <2> HIDE DEF record
  <2>4. /\ IsMap(operations', Operation, OperationRecord) /\ DOMAIN operations' = DOMAIN operations
        /\ operations'[o] = record
        /\ \A x \in DOMAIN operations : x # o => operations'[x] = operations[x]
    BY <2>1, <2>2, <2>3, ExceptMap
  <2>5. IsMap(grants', Grant, GrantRecord) /\ grants' = grants
    BY <1>7 DEF ReviseOperation, IInv, BooksInv, BooksTypeOK
  <2> QED BY <1>7, <2>2, <2>4, <2>5, RegisterKeeps DEF ReviseOperation
<1>8. ASSUME NEW g \in Grant, InstallGrant(g) PROVE IInv' /\ RequestsStep
  <2> DEFINE record == [revision |-> 1, revoked |-> FALSE, total |-> NoUsage]
  <2>1. record \in GrantRecord
    BY DEF GrantRecord, Usage, NoUsage
  <2>2. /\ IsMap(grants', Grant, GrantRecord)
        /\ DOMAIN grants' = DOMAIN grants \cup {g} /\ grants'[g] = record
        /\ \A x \in DOMAIN grants : grants'[x] = grants[x]
    BY <1>8, <2>1 DEF InstallGrant, IInv, BooksInv, BooksTypeOK, IsMap, Put
  <2>3. IsMap(operations', Operation, OperationRecord) /\ operations' = operations
    BY <1>8 DEF InstallGrant, IInv, BooksInv, BooksTypeOK
  <2>4. \A x \in DOMAIN grants' \ DOMAIN grants : grants'[x].total = NoUsage
    BY <2>2
  <2>5. UNCHANGED <<registry, windows, requests, nextNonce, now, calls>>
    BY <1>8 DEF InstallGrant
  <2> QED BY <2>2, <2>3, <2>4, <2>5, RegisterKeeps
<1>9. ASSUME NEW g \in Grant, Revoke(g) PROVE IInv' /\ RequestsStep
  <2> DEFINE record == [grants[g] EXCEPT !.revoked = TRUE, !.revision = @ + 1]
  <2>1. /\ IsMap(grants, Grant, GrantRecord) /\ g \in DOMAIN grants
        /\ grants[g] \in GrantRecord
    BY <1>9 DEF Revoke, IInv, BooksInv, BooksTypeOK, IsMap
  <2>2. record \in GrantRecord /\ record.total = grants[g].total
    <3> DEFINE old == grants[g]
    <3>1. old \in GrantRecord /\ old.revision + 1 \in Nat
      BY <2>1 DEF GrantRecord
    <3>2. record = [old EXCEPT !.revoked = TRUE, !.revision = old.revision + 1]
      BY <3>1 DEF GrantRecord
    <3> HIDE DEF old, record
    <3>3. record \in GrantRecord
      BY <3>1, <3>2 DEF GrantRecord
    <3>4. record.total = old.total
      BY <3>1, <3>2 DEF GrantRecord
    <3> QED BY <3>3, <3>4 DEF old
  <2>3. grants' = [grants EXCEPT ![g] = record]
    BY <1>9, <2>1 DEF Revoke, GrantRecord
  <2> HIDE DEF record
  <2>4. /\ IsMap(grants', Grant, GrantRecord) /\ DOMAIN grants' = DOMAIN grants
        /\ grants'[g] = record /\ \A x \in DOMAIN grants : x # g => grants'[x] = grants[x]
    BY <2>1, <2>2, <2>3, ExceptMap
  <2>5. IsMap(operations', Operation, OperationRecord) /\ operations' = operations
    BY <1>9 DEF Revoke, IInv, BooksInv, BooksTypeOK
  <2> QED BY <1>9, <2>2, <2>4, <2>5, RegisterKeeps DEF Revoke
<1> QED BY <1>2, <1>3, <1>4, <1>5, <1>6, <1>7, <1>8, <1>9 DEF OwnerStep
-----------------------------------------------------------------------------
(* The invariant.                                                          *)

\* A canister starts with empty books and no calls.
LEMMA InitHolds == Init => IInv
<1> SUFFICES ASSUME Init PROVE IInv
  OBVIOUS
<1>1. RegistryTypeOK /\ now \in Time
  <2>1. paused \in BOOLEAN
    BY Zenon DEF Init
  <2>2. mode \in Mode /\ plans \subseteq Plan /\ mockLedgers \subseteq Ledger
    BY DEF Init, Mode
  <2>3. now \in Time
    BY BoundAssumption DEF Init, Time, BoundAssumption
  <2> QED BY <2>1, <2>2, <2>3, Zenon DEF RegistryTypeOK
<1>2. DOMAIN operations = {} /\ DOMAIN grants = {} /\ DOMAIN windows = {}
      /\ DOMAIN requests = {} /\ DOMAIN nextNonce = {}
  BY DEF Init, EmptyMap
<1>3. BooksTypeOK
  BY DEF Init, BooksTypeOK, IsMap, EmptyMap
<1>4. BooksInv
  BY <1>2, <1>3 DEF BooksInv, RequestsCoherent, NoncesConsumed, HoldersMatch, LocksAreBacked, CapsRespected
<1>5. CallsInv
  BY DEF Init, CallsInv, CallsTypeOK, CallsHaveRequests
<1> QED BY <1>1, <1>4, <1>5 DEF IInv

\* No message, of anybody, breaks the invariant.
LEMMA StepHolds == IInv /\ [Next]_vars => IInv' /\ RequestsStep
<1> SUFFICES ASSUME IInv, [Next]_vars PROVE IInv' /\ RequestsStep
  OBVIOUS
<1>1. CASE UNCHANGED <<registry, books>> /\ now' \in Time
           /\ engineCalls' \subseteq engineCalls /\ ledgerCalls' \subseteq ledgerCalls
           /\ lookups' \subseteq lookups
  <2>1. BooksInv'
    BY <1>1, BooksStay DEF IInv
  <2>2. CallsInv'
    BY <1>1, CallsStay DEF IInv, books
  <2>3. RequestsStep
    BY <1>1, UntouchedStep DEF IInv, books
  <2> QED BY <1>1, <2>1, <2>2, <2>3 DEF IInv, registry, RegistryTypeOK
<1>2. CASE Tick
  <2>1. now' \in Time
    BY <1>2, BoundAssumption DEF Tick, IInv, Time, BoundAssumption
  <2> QED BY <1>1, <1>2, <2>1 DEF Tick, calls
<1>3. CASE OwnerStep
  BY <1>3, OwnerKeeps
<1>4. CASE ClientStep
  <2>1. ASSUME NEW caller \in Delegate, NEW o \in Operation, NEW g \in Grant, Submit(caller, o, g)
        PROVE  IInv' /\ RequestsStep
    BY <2>1, SubmitKeeps
  <2>2. ASSUME NEW id \in DOMAIN requests,
               \/ BeginEvaluation(id) \/ Report(id) \/ Dispatch(id)
               \/ RetryUnknown(id) \/ Reconcile(id) \/ Cancel(id)
        PROVE  IInv' /\ RequestsStep
    BY <2>2, BeginEvaluationKeeps, ReportKeeps, DispatchKeeps, RetryUnknownKeeps, ReconcileKeeps,
       CancelKeeps
  <2> QED BY <1>4, <2>1, <2>2 DEF ClientStep
<1>5. CASE EngineStep
  <2>1. ASSUME NEW c \in engineCalls, EngineReturns(c) PROVE IInv' /\ RequestsStep
    BY <2>1, FinishEvaluationKeeps, RefuseEvaluationKeeps, EngineTransportFailedKeeps
       DEF EngineReturns
  <2>2. ASSUME NEW c \in engineCalls, EngineCallbackTraps(c) PROVE IInv' /\ RequestsStep
    BY <1>1, <2>2 DEF EngineCallbackTraps, IInv
  <2> QED BY <1>5, <2>1, <2>2 DEF EngineStep
<1>6. CASE LedgerStep
  <2>1. ASSUME NEW cmd \in ledgerCalls, NEW outcome \in LedgerOutcome, LedgerReturns(cmd, outcome)
        PROVE  IInv' /\ RequestsStep
    BY <2>1, LedgerReturnsKeeps
  <2>2. ASSUME NEW cmd \in lookups, NEW found \in Block \cup {None}, LookupReturns(cmd, found)
        PROVE  IInv' /\ RequestsStep
    BY <2>2, LookupReturnsKeeps
  <2>3. ASSUME NEW cmd, LedgerCallbackTraps(cmd) \/ LookupFails(cmd) PROVE IInv' /\ RequestsStep
    BY <1>1, <2>3 DEF LedgerCallbackTraps, LookupFails, IInv
  <2> QED BY <1>6, <2>1, <2>2, <2>3 DEF LedgerStep
<1>7. CASE Upgrade \/ ForcedUpgrade
  BY <1>7, PostUpgradeKeeps DEF Upgrade, ForcedUpgrade
<1>8. CASE UNCHANGED vars
  BY <1>1, <1>8 DEF vars, calls, IInv
<1> QED BY <1>2, <1>3, <1>4, <1>5, <1>6, <1>7, <1>8 DEF Next

\* So it always holds.
LEMMA Invariance == Spec => []IInv
BY InitHolds, StepHolds, PTL DEF Spec

\* The variables always have their types: in particular a request asks for no
\* more slots, sends and attempts than there are.
THEOREM TypeCorrect == Spec => []TypeOK
<1>1. IInv => TypeOK
  BY DEF IInv, BooksInv, CallsInv, TypeOK
<1> QED BY <1>1, Invariance, PTL

\* Spending and reserving stay within every cap, whatever the engine and the
\* ledger answer, in whatever order, and through any number of upgrades.
THEOREM CapsHold == Spec => []CapsRespected
<1>1. IInv => CapsRespected
  BY DEF IInv, BooksInv
<1> QED BY <1>1, Invariance, PTL

\* No operation is ever locked by a request that does not back the lock.
THEOREM LocksHold == Spec => []LocksAreBacked
<1>1. IInv => LocksAreBacked
  BY DEF IInv, BooksInv
<1> QED BY <1>1, Invariance, PTL

\* Status, frozen transfer and reservation of a request always agree.
THEOREM CoherenceHolds == Spec => []RequestsCoherent
<1>1. IInv => RequestsCoherent
  BY DEF IInv, BooksInv
<1> QED BY <1>1, Invariance, PTL

\* Of all requests for an operation at most one has a transfer that was paid or
\* may still be.
THEOREM OneTransferHolds == Spec => []OneTransferPerOperation
<1>1. IInv => OneTransferPerOperation
  <2> SUFFICES ASSUME IInv, NEW i \in DOMAIN requests, NEW j \in DOMAIN requests,
                      requests[i].operation = requests[j].operation,
                      requests[i].status \in Unresolved \cup {"Succeeded"},
                      requests[j].status \in Unresolved \cup {"Succeeded"}
               PROVE  i = j
    BY DEF OneTransferPerOperation
  <2>1. ASSUME NEW x \in DOMAIN requests, requests[x].status \in Unresolved \cup {"Succeeded"}
        PROVE  operations[requests[x].operation].holder = x
    BY <2>1 DEF IInv, BooksInv, HoldersMatch, RequestsCoherent
  <2> QED BY <2>1
<1> QED BY <1>1, Invariance, PTL
-----------------------------------------------------------------------------
(* What no step does.                                                      *)

\* Once dispatched a transfer keeps its arguments, and once settled its request
\* never changes again.
THEOREM SettlementFinalHolds == Spec => SettlementIsFinal
<1> DEFINE Final(id) ==
      /\ requests[id].frozen # None =>
           /\ requests'[id].frozen = requests[id].frozen
           /\ requests'[id].status \in Unresolved \cup {"Succeeded", "FailedDefinitive"}
      /\ requests[id].status \in {"Succeeded", "FailedDefinitive"} =>
           requests'[id] = requests[id]
<1>1. ASSUME IInv, [Next]_vars PROVE \A id \in DOMAIN requests : Final(id)
  <2> SUFFICES ASSUME NEW id \in DOMAIN requests PROVE Final(id)
    OBVIOUS
  <2>1. RequestStep(id)
    BY <1>1, StepHolds DEF RequestsStep
  <2>2. requests[id].frozen # None <=>
          requests[id].status \in Unresolved \cup {"Succeeded", "FailedDefinitive"}
    BY <1>1 DEF IInv, BooksInv, RequestsCoherent
  <2> QED BY <2>1, <2>2 DEF RequestStep, SameHold, Unresolved
<1>2. IInv /\ [Next]_vars => [\A id \in DOMAIN requests : Final(id)]_vars
  BY <1>1
<1> QED BY <1>2, Invariance, PTL DEF Spec, SettlementIsFinal

\* A reservation whose outcome was ever in doubt is given up for a success only.
THEOREM UnknownKeepsHolds == Spec => UnknownKeepsReservation
<1> DEFINE Keeps(id) ==
      requests[id].everUnknown /\ requests[id].epoch # None =>
        \/ requests'[id].epoch = requests[id].epoch /\ requests'[id].everUnknown
        \/ requests'[id].status = "Succeeded"
<1>1. ASSUME IInv, [Next]_vars PROVE \A id \in DOMAIN requests : Keeps(id)
  <2> SUFFICES ASSUME NEW id \in DOMAIN requests PROVE Keeps(id)
    OBVIOUS
  <2>1. RequestStep(id)
    BY <1>1, StepHolds DEF RequestsStep
  <2> QED BY <2>1 DEF RequestStep, SameHold
<1>2. IInv /\ [Next]_vars => [\A id \in DOMAIN requests : Keeps(id)]_vars
  BY <1>1
<1> QED BY <1>2, Invariance, PTL DEF Spec, UnknownKeepsReservation

\* A new call of the ledger is made by dispatch or retry, for a current request.
LEMMA NewCall ==
    ASSUME IInv, [Next]_vars, NEW cmd \in ledgerCalls' \ ledgerCalls
    PROVE  /\ cmd.request \in DOMAIN requests /\ Current(cmd.request)
           /\ requests[cmd.request].status \in {"ReadyToDispatch", "OutcomeUnknown"}
           /\ requests'[cmd.request].frozen = cmd.created
<1>1. ASSUME NEW id \in DOMAIN requests, Dispatch(id)
      PROVE  /\ cmd.request = id /\ Current(id) /\ requests[id].status = "ReadyToDispatch"
             /\ requests'[id].frozen = cmd.created
  <2>1. /\ cmd.request = id /\ cmd.created = now
        /\ Current(id) /\ requests[id].status = "ReadyToDispatch"
    BY <1>1 DEF Dispatch, Authorized, EvidenceStands
  <2>2. requests[id] \in Request
    BY RequestParts DEF IInv
  <2>3. requests'[id].frozen = now
    BY <1>1, <2>2 DEF Dispatch, Update, Request
  <2> QED BY <2>1, <2>3
<1>2. ASSUME NEW id \in DOMAIN requests, RetryUnknown(id)
      PROVE  /\ cmd.request = id /\ Current(id) /\ requests[id].status = "OutcomeUnknown"
             /\ requests'[id].frozen = cmd.created
  <2>1. /\ cmd.request = id /\ cmd.created = requests[id].frozen
        /\ Current(id) /\ requests[id].status = "OutcomeUnknown"
    BY <1>2 DEF RetryUnknown, Retryable
  <2>2. requests[id] \in Request
    BY RequestParts DEF IInv
  <2>3. requests'[id].frozen = requests[id].frozen
    BY <1>2, <2>2 DEF RetryUnknown, Update, Request
  <2> QED BY <2>1, <2>3
<1>3. ASSUME ledgerCalls' \subseteq ledgerCalls PROVE FALSE
  BY <1>3
<1>4. Tick \/ OwnerStep \/ EngineStep \/ LedgerStep \/ Upgrade \/ ForcedUpgrade \/ UNCHANGED vars
        => ledgerCalls' \subseteq ledgerCalls
  <2>1. Tick \/ Upgrade \/ ForcedUpgrade \/ UNCHANGED vars => ledgerCalls' \subseteq ledgerCalls
    BY DEF Tick, Upgrade, ForcedUpgrade, PostUpgrade, vars, calls
  <2>2. OwnerStep => ledgerCalls' \subseteq ledgerCalls
    BY DEF OwnerStep, SetMode, SetPaused, InstallPlan, InstallOperation, ReviseOperation,
           InstallGrant, Revoke, RegisterMockLedger, calls
  <2>3. EngineStep => ledgerCalls' \subseteq ledgerCalls
    BY DEF EngineStep, EngineReturns, FinishEvaluation, RefuseEvaluation, EngineTransportFailed,
           EngineCallbackTraps, Continue
  <2>4. LedgerStep => ledgerCalls' \subseteq ledgerCalls
    BY DEF LedgerStep, LedgerReturns, LedgerCallbackTraps, LookupReturns, LookupFails
  <2> QED BY <2>1, <2>2, <2>3, <2>4
<1>5. ClientStep => \/ ledgerCalls' \subseteq ledgerCalls
                    \/ \E id \in DOMAIN requests : Dispatch(id) \/ RetryUnknown(id)
  BY DEF ClientStep, Submit, BeginEvaluation, Report, Reconcile, Cancel, calls
<1> QED BY <1>1, <1>2, <1>3, <1>4, <1>5 DEF Next
=============================================================================
