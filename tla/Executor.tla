------------------------------ MODULE Executor ------------------------------
(***************************************************************************)
(* The executor canister: the workflow state machine of                    *)
(* crates/ic-laya-core/src/workflow.rs, driven by the endpoints of         *)
(* canisters/executor/src/lib.rs.                                          *)
(*                                                                         *)
(* A canister message runs alone to its end, or to its next await; every   *)
(* action below is one such message.  advance, dispatch, retry and         *)
(* reconcile are split at their await: the action that makes the call adds *)
(* a record to engineCalls, ledgerCalls or lookups (the continuation that   *)
(* waits for the answer), and the action that runs the continuation takes  *)
(* it away.  What happens at the other end is left open here; Payment.tla  *)
(* puts a ledger there.                                                    *)
(*                                                                         *)
(* Digests are modelled by what they digest, so two are equal exactly when *)
(* their contents are.  Registered data that no message changes (the terms *)
(* of a grant, the proposal of an operation, the signals of a plan) are    *)
(* constants; registering them is still an action.                         *)
(***************************************************************************)
EXTENDS Integers, Sequences, FiniteSetsExt, Maps

CONSTANTS
    Delegate,       \* the principals that may be named in a grant
    Operation,      \* ids of business operations
    Grant,          \* ids of grants
    Plan,           \* ids of evaluation plans
    Ledger,         \* ledger canisters
    Proposal,       \* Proposal[o]: amount, fee and ledger of operation o's transfer
    Terms,          \* Terms[g]: what grant g allows, see GrantTerms
    Signals,        \* Signals[p]: how many signals plan p requires
    Block,          \* block indices a ledger may report
    None,           \* absent Option
    MaxRequests,    \* MAX_REQUESTS, 512 in the code
    MaxRegistry,    \* MAX_REGISTRY, 64 in the code
    MaxWindows,     \* windows kept per grant, 64 in the code
    MaxLedgers,     \* registered mock ledgers, 8 in the code
    RequestTTL,     \* 300 s in the code
    DedupWindow,    \* MOCK_DEDUP_WINDOW_NS, 60 s in the code
    MaxTime,        \* bound of the model: the clock stops here
    MaxRevision,    \* bound of the model: revisions of an operation or a grant
    OwnerModes,     \* bound of the model: the modes that the owner selects
    CallbacksMayTrap, \* whether the continuation after an await may trap
    IndicesMayBeBad \* whether a ledger may report an index that is not a short decimal

MaxSlots == 3
MaxSends == 2
MaxAttempts == 2

Time == 0..MaxTime

\* The registered part of a grant.  covers stands for the operations whose
\* ledger, subaccount, recipient, amount and fee the grant admits.
GrantTerms == [delegate : Delegate, plan : Plan, covers : SUBSET Operation,
               totalCap : Nat, windowCap : Nat, windowLen : Nat \ {0}, expires : Nat]

ASSUME DataAssumption ==
    /\ Proposal \in [Operation -> [amount : Nat \ {0}, fee : Nat, ledger : Ledger]]
    /\ Terms \in [Grant -> GrantTerms]
    /\ Signals \in [Plan -> 1..MaxSlots]

ASSUME BoundAssumption ==
    /\ MaxRequests \in Nat /\ MaxRegistry \in Nat /\ MaxWindows \in Nat /\ MaxLedgers \in Nat
    /\ RequestTTL \in Nat /\ DedupWindow \in Nat /\ MaxTime \in Nat /\ MaxRevision \in Nat
    /\ OwnerModes \subseteq {"ReportOnly", "Shadow", "Mock"}
    /\ CallbacksMayTrap \in BOOLEAN /\ IndicesMayBeBad \in BOOLEAN

\* What a transfer costs; the code checks that the sum fits 128 bits at registration.
Charge(o) == Proposal[o].amount + Proposal[o].fee

\* A request is named by its caller and the nonce it consumed.
RequestId == [caller : Delegate, nonce : Nat]

ASSUME NoneAssumption == None \notin RequestId /\ None \notin Nat /\ None \notin Block

VARIABLES
    mode,           \* ReportOnly, Shadow or Mock
    paused,
    plans,          \* registered plans
    operations,     \* operation id -> revision, state and the request that holds it
    grants,         \* grant id -> revision, revoked and total usage
    windows,        \* <<grant id, epoch>> -> usage, the windows map of every grant
    requests,       \* request id -> record
    nextNonce,      \* caller -> next nonce
    mockLedgers,    \* ledgers that passed the handshake
    now,            \* the replicated clock
    engineCalls,    \* continuations waiting for the decision engine
    ledgerCalls,    \* continuations waiting for icrc1_transfer
    lookups         \* continuations waiting for ic_laya_lookup

registry == <<mode, paused, plans, mockLedgers>>
books == <<operations, grants, windows, requests, nextNonce>>
calls == <<engineCalls, ledgerCalls, lookups>>
vars == <<registry, books, now, calls>>
-----------------------------------------------------------------------------
Mode == {"ReportOnly", "Shadow", "Mock"}
Unresolved == {"Submitted", "OutcomeUnknown"}
Status == {"Received", "Evaluating", "ReadyToDispatch", "Reported", "NeedsReview", "Stale",
           "Cancelled", "Submitted", "OutcomeUnknown", "Succeeded", "FailedDefinitive"}

Usage == [spent : Nat, reserved : Nat]
NoUsage == [spent |-> 0, reserved |-> 0]

OperationRecord == [revision : Nat, state : {"Available", "Reserved", "Consumed"},
                    holder : RequestId \cup {None}]
GrantRecord == [revision : Nat, revoked : BOOLEAN, total : Usage]

\* What a request was judged on: the digest of operation, grant and plan with
\* the revisions they had.
SnapshotDigest == [operation : Operation, revision : Nat,
                   grant : Grant, grantRevision : Nat, plan : Plan]

\* An evaluation id is the digest of request, slot and snapshot.
EvaluationId == [request : RequestId, slot : 1..MaxSlots, snapshot : SnapshotDigest]

\* An outstanding call of evaluate: which evaluation, and the how-manieth send.
EngineCall == [evaluation : EvaluationId, send : 1..MaxSends]

\* A receipt of the engine: the evaluation its stamp binds it to, and whether
\* its outcome meets the rule the plan registers for that slot.
Receipt == [stamp : EvaluationId, pass : BOOLEAN]

Request == [operation : Operation, grant : Grant, snapshot : SnapshotDigest, expires : Nat,
            status : Status, receipts : Seq(Receipt),
            sends : 0..MaxSends, inFlight : BOOLEAN,    \* sends = 0: no pending evaluation
            epoch : Time \cup {None},                   \* reservation
            frozen : Time \cup {None},                  \* created_at_time of the frozen transfer
            attempt : 0..MaxAttempts, everUnknown : BOOLEAN,
            block : Block \cup {None}]                  \* index carried by Succeeded

\* A DispatchCommand; the proposal and the memo follow from the request.
Command == [request : RequestId, attempt : 0..MaxAttempts, created : Time]

\* LedgerOutcome.  Duplicate is treated as Success everywhere; block None is an
\* index that is not a decimal number of at most 128 digits.
Index == IF IndicesMayBeBad THEN Block \cup {None} ELSE Block
LedgerOutcome == [kind : {"Success"}, block : Index] \cup [kind : {"DefinitiveError", "Unknown"}]
Success(b) == [kind |-> "Success", block |-> b]
DefinitiveError == [kind |-> "DefinitiveError"]
Unknown == [kind |-> "Unknown"]

RegistryTypeOK ==
    mode \in Mode /\ paused \in BOOLEAN /\ plans \subseteq Plan /\ mockLedgers \subseteq Ledger

BooksTypeOK ==
    /\ IsMap(operations, Operation, OperationRecord)
    /\ IsMap(grants, Grant, GrantRecord)
    /\ IsMap(windows, Grant \X Time, Usage)
    /\ IsMap(requests, RequestId, Request)
    /\ IsMap(nextNonce, Delegate, Nat)

CallsTypeOK ==
    engineCalls \subseteq EngineCall /\ ledgerCalls \subseteq Command /\ lookups \subseteq Command

TypeOK == RegistryTypeOK /\ BooksTypeOK /\ now \in Time /\ CallsTypeOK
-----------------------------------------------------------------------------
Init ==
    /\ mode = "ReportOnly" /\ paused = FALSE /\ plans = {} /\ mockLedgers = {}
    /\ operations = EmptyMap /\ grants = EmptyMap /\ windows = EmptyMap /\ requests = EmptyMap /\ nextNonce = EmptyMap
    /\ now = 0
    /\ engineCalls = {} /\ ledgerCalls = {} /\ lookups = {}

Tick == now < MaxTime /\ now' = now + 1 /\ UNCHANGED <<registry, books, calls>>
-----------------------------------------------------------------------------
(* Owner operations.                                                       *)

SetMode(m) == mode' = m /\ UNCHANGED <<paused, plans, mockLedgers, books, now, calls>>

SetPaused(b) == paused' = b /\ UNCHANGED <<mode, plans, mockLedgers, books, now, calls>>

InstallPlan(p) ==
    /\ p \notin plans /\ Cardinality(plans) < MaxRegistry
    /\ plans' = plans \cup {p}
    /\ UNCHANGED <<mode, paused, mockLedgers, books, now, calls>>

InstallOperation(o) ==
    /\ o \notin DOMAIN operations /\ Cardinality(DOMAIN operations) < MaxRequests
    /\ operations' = Put(operations, o, [revision |-> 1, state |-> "Available", holder |-> None])
    /\ UNCHANGED <<registry, grants, windows, requests, nextNonce, now, calls>>

ReviseOperation(o) ==
    /\ o \in DOMAIN operations /\ operations[o].state = "Available"
    /\ operations[o].revision < MaxRevision
    /\ operations' = [operations EXCEPT ![o].revision = @ + 1]
    /\ UNCHANGED <<registry, grants, windows, requests, nextNonce, now, calls>>

InstallGrant(g) ==
    /\ Terms[g].plan \in plans
    /\ g \notin DOMAIN grants /\ Cardinality(DOMAIN grants) < MaxRegistry
    /\ grants' = Put(grants, g, [revision |-> 1, revoked |-> FALSE, total |-> NoUsage])
    /\ UNCHANGED <<registry, operations, windows, requests, nextNonce, now, calls>>

\* Revoking again would only bump the revision again; the bound keeps it finite.
Revoke(g) ==
    /\ g \in DOMAIN grants /\ grants[g].revision < MaxRevision
    /\ grants' = [grants EXCEPT ![g].revoked = TRUE, ![g].revision = @ + 1]
    /\ UNCHANGED <<registry, operations, windows, requests, nextNonce, now, calls>>

\* The message after the handshake; nothing read before the await is used in it.
RegisterMockLedger(l) ==
    /\ l \notin mockLedgers /\ Cardinality(mockLedgers) < MaxLedgers
    /\ mockLedgers' = mockLedgers \cup {l}
    /\ UNCHANGED <<mode, paused, plans, books, now, calls>>
-----------------------------------------------------------------------------
(* Submitting a request.                                                   *)

Eligible(caller, g, o) ==
    /\ caller = Terms[g].delegate /\ ~grants[g].revoked /\ now < Terms[g].expires
    /\ o \in Terms[g].covers

Snapshot(o, g) ==
    [operation |-> o, revision |-> operations[o].revision,
     grant |-> g, grantRevision |-> grants[g].revision, plan |-> Terms[g].plan]

Earlier(s, t) == IF s < t THEN s ELSE t

NextNonceOf(caller) == IF caller \in DOMAIN nextNonce THEN nextNonce[caller] ELSE 0

\* A fresh submission.  Repeating an older nonce answers from the record and
\* changes nothing; skipping one is refused.
Submit(caller, o, g) ==
    LET id == [caller |-> caller, nonce |-> NextNonceOf(caller)] IN
    /\ ~paused
    /\ Cardinality(DOMAIN requests) < MaxRequests
    /\ caller \in DOMAIN nextNonce \/ Cardinality(DOMAIN nextNonce) < MaxRegistry
    /\ g \in DOMAIN grants /\ o \in DOMAIN operations
    /\ Eligible(caller, g, o) /\ operations[o].state = "Available"
    /\ requests' = Put(requests, id,
           [operation |-> o, grant |-> g, snapshot |-> Snapshot(o, g),
            expires |-> Earlier(now + RequestTTL, Terms[g].expires),
            status |-> "Received", receipts |-> <<>>, sends |-> 0, inFlight |-> FALSE,
            epoch |-> None, frozen |-> None, attempt |-> 0, everUnknown |-> FALSE,
            block |-> None])
    /\ nextNonce' = Put(nextNonce, caller, NextNonceOf(caller) + 1)
    /\ UNCHANGED <<registry, operations, grants, windows, now, calls>>

\* current(): the request may still act on the snapshot it was submitted with.
\* (Seeded fault: it outlives its own deadline.)
Current_NoExpiry(id) ==
    LET r == requests[id] IN
    /\ ~paused
    /\ Eligible(id.caller, r.grant, r.operation)
    /\ Snapshot(r.operation, r.grant) = r.snapshot
Current(id) ==
    LET r == requests[id] IN
    /\ ~paused /\ now < r.expires
    /\ Eligible(id.caller, r.grant, r.operation)
    /\ Snapshot(r.operation, r.grant) = r.snapshot

Update(id, r) == requests' = [requests EXCEPT ![id] = r]
-----------------------------------------------------------------------------
(* Evaluation: advance() up to its await, and its continuation.            *)

EvaluationOf(id, slot) == [request |-> id, slot |-> slot, snapshot |-> requests[id].snapshot]

\* The evaluation that a pending request waits for.
PendingEvaluation(id) == EvaluationOf(id, Len(requests[id].receipts) + 1)

\* NeedsReview, Stale and Cancelled: the request stops and drops its pending evaluation.
Stopped(r, status) == [r EXCEPT !.status = status, !.sends = 0, !.inFlight = FALSE]

\* Staleness comes before the Busy check: an answer still out does not save the request.
\* (Seeded fault: Busy first.)
GoesStale_BusyFirst(id) == ~Current(id) /\ ~requests[id].inFlight
GoesStale(id) == ~Current(id)

\* A second advance while the engine call is out is refused as Busy.
\* (Seeded fault: it is not.)
MayAsk_WhileBusy(id) == Current(id) /\ requests[id].sends < MaxSends
MayAsk(id) == Current(id) /\ ~requests[id].inFlight /\ requests[id].sends < MaxSends

\* Either the first send of the next slot's question or the one resend of it.
BeginEvaluation(id) ==
    LET r == requests[id] IN
    /\ id \in DOMAIN requests
    /\ r.status \in {"Received", "Evaluating"}
    /\ \/ /\ GoesStale(id)
          /\ Update(id, Stopped(r, "Stale"))
          /\ UNCHANGED engineCalls
       \/ /\ MayAsk(id)
          /\ Update(id, [r EXCEPT !.status = "Evaluating", !.inFlight = TRUE, !.sends = @ + 1])
          /\ engineCalls' = engineCalls \cup
                 {[evaluation |-> PendingEvaluation(id), send |-> r.sends + 1]}
    /\ UNCHANGED <<registry, operations, grants, windows, nextNonce, now, ledgerCalls, lookups>>

\* The continuation of call c: the request it belongs to becomes r, unless it
\* no longer waits for that evaluation; then nothing changes.
Continue(c, r) ==
    LET id == c.evaluation.request IN
    /\ c \in engineCalls
    /\ engineCalls' = engineCalls \ {c}
    /\ IF /\ requests[id].status = "Evaluating" /\ requests[id].sends > 0
          /\ PendingEvaluation(id) = c.evaluation
       THEN Update(id, r) ELSE UNCHANGED requests
    /\ UNCHANGED <<registry, operations, grants, windows, nextNonce, now, ledgerCalls, lookups>>

\* The request after a receipt that is its own, judged by the rule of the slot.
Ruled(r, receipt) ==
    LET receipts == Append(r.receipts, receipt) IN
    [Stopped(r, IF ~receipt.pass THEN "NeedsReview"
                ELSE IF Len(receipts) = Signals[r.snapshot.plan] THEN "ReadyToDispatch"
                ELSE "Received") EXCEPT !.receipts = receipts]

\* A receipt must be stamped with the evaluation asked for.  (Seeded fault: any will do.)
Judged_AnyStamp(r, e, receipt) == Ruled(r, receipt)
Judged(r, e, receipt) == IF receipt.stamp = e THEN Ruled(r, receipt) ELSE Stopped(r, "NeedsReview")

\* finish_evaluation with a receipt.
FinishEvaluation(c, receipt) ==
    LET id == c.evaluation.request IN
    Continue(c, IF Current(id) THEN Judged(requests[id], c.evaluation, receipt)
                               ELSE Stopped(requests[id], "Stale"))

\* finish_evaluation with an error of the engine.
RefuseEvaluation(c) ==
    LET id == c.evaluation.request IN
    Continue(c, Stopped(requests[id], IF Current(id) THEN "NeedsReview" ELSE "Stale"))

\* One resend is left after a lost first call.
AfterLostCall(r) ==
    IF r.sends >= MaxSends THEN Stopped(r, "NeedsReview") ELSE [r EXCEPT !.inFlight = FALSE]

\* The call was rejected, timed out or could not be decoded.
EngineTransportFailed(c) == Continue(c, AfterLostCall(requests[c.evaluation.request]))

\* mutate() traps in the continuation (the snapshot no longer fits, say): its
\* changes are rolled back and the answer is lost.
EngineCallbackTraps(c) ==
    /\ CallbacksMayTrap /\ c \in engineCalls
    /\ engineCalls' = engineCalls \ {c}
    /\ UNCHANGED <<registry, books, now, ledgerCalls, lookups>>
-----------------------------------------------------------------------------
(* Dispatch: authorize and prepare_dispatch run in one message.            *)

\* authorize() goes over every receipt again.
EvidenceStands(id) ==
    LET r == requests[id]
        n == Signals[r.snapshot.plan] IN
    /\ Current(id)
    /\ r.status = "ReadyToDispatch" /\ r.sends = 0
    /\ Len(r.receipts) = n
    /\ \A slot \in 1..n : r.receipts[slot] = [stamp |-> EvaluationOf(id, slot), pass |-> TRUE]

\* (Seeded fault: the operation may be in use.)
Authorized_UsedOperation(id) == EvidenceStands(id)
Authorized(id) == EvidenceStands(id) /\ operations[requests[id].operation].state = "Available"

\* ReportOnly and Shadow stop here.
Report(id) ==
    /\ id \in DOMAIN requests /\ Authorized(id)
    /\ mode \in {"ReportOnly", "Shadow"}
    /\ Update(id, [requests[id] EXCEPT !.status = "Reported"])
    /\ UNCHANGED <<registry, operations, grants, windows, nextNonce, now, calls>>

\* The usage of a window; one without an entry is unused.  (Seeded fault: every
\* reservation starts its window afresh.)
UsageIn_Fresh(g, epoch) == NoUsage
UsageIn(g, epoch) ==
    IF <<g, epoch>> \in DOMAIN windows THEN windows[<<g, epoch>>] ELSE NoUsage

WindowsOf(g) == {w \in DOMAIN windows : w[1] = g}

WithinTotal(g, charge, epoch) ==
    /\ <<g, epoch>> \in DOMAIN windows \/ Cardinality(WindowsOf(g)) < MaxWindows
    /\ grants[g].total.spent + grants[g].total.reserved + charge <= Terms[g].totalCap

\* ... nor the cap of the window.
CanReserve(g, charge, epoch) ==
    /\ WithinTotal(g, charge, epoch)
    /\ UsageIn(g, epoch).spent + UsageIn(g, epoch).reserved + charge <= Terms[g].windowCap

\* Reserve the budget and the operation, freeze the arguments, make the call.
Dispatch(id) ==
    LET r == requests[id]
        o == r.operation
        g == r.grant
        charge == Charge(o)
        epoch == now \div Terms[g].windowLen IN
    /\ id \in DOMAIN requests /\ Authorized(id)
    /\ mode = "Mock" /\ Proposal[o].ledger \in mockLedgers
    /\ CanReserve(g, charge, epoch)
    /\ grants' = [grants EXCEPT ![g].total.reserved = @ + charge]
    /\ windows' = Put(windows, <<g, epoch>>, [UsageIn(g, epoch) EXCEPT !.reserved = @ + charge])
    /\ operations' = [operations EXCEPT ![o].state = "Reserved", ![o].holder = id]
    /\ Update(id, [r EXCEPT !.epoch = epoch, !.frozen = now, !.status = "Submitted",
                            !.attempt = 1])
    /\ ledgerCalls' = ledgerCalls \cup {[request |-> id, attempt |-> 1, created |-> now]}
    /\ UNCHANGED <<registry, nextNonce, now, engineCalls, lookups>>
-----------------------------------------------------------------------------
(* Settlement: finish_ledger, reached from send() and from reconcile_mock. *)

\* settle_record fails, and changes nothing, unless the reservation is there in
\* the request, the operation and both usages.
CanSettle(id) ==
    LET r == requests[id]
        charge == Charge(r.operation) IN
    /\ r.epoch # None
    /\ operations[r.operation].state = "Reserved" /\ operations[r.operation].holder = id
    /\ <<r.grant, r.epoch>> \in DOMAIN windows
    /\ grants[r.grant].total.reserved >= charge
    /\ windows[<<r.grant, r.epoch>>].reserved >= charge

\* (Seeded fault: a definitive failure releases nothing.)
Settled_NoRelease(usage, charge, success) ==
    [spent |-> IF success THEN usage.spent + charge ELSE usage.spent,
     reserved |-> IF success THEN usage.reserved - charge ELSE usage.reserved]
Settled(usage, charge, success) ==
    [spent |-> IF success THEN usage.spent + charge ELSE usage.spent,
     reserved |-> usage.reserved - charge]

SettleRecord(id, success, block) ==
    LET r == requests[id]
        charge == Charge(r.operation) IN
    /\ CanSettle(id)
    /\ grants' = [grants EXCEPT ![r.grant].total = Settled(@, charge, success)]
    /\ windows' = [windows EXCEPT ![<<r.grant, r.epoch>>] = Settled(@, charge, success)]
    /\ operations' = [operations EXCEPT
           ![r.operation].state = IF success THEN "Consumed" ELSE "Available",
           ![r.operation].holder = IF success THEN id ELSE None]
    /\ Update(id, [r EXCEPT !.epoch = None, !.block = block,
                            !.status = IF success THEN "Succeeded" ELSE "FailedDefinitive"])

\* The outcome is of a call this transfer made.
OwnAttempt(cmd) ==
    requests[cmd.request].frozen = cmd.created /\ cmd.attempt \in 1..requests[cmd.request].attempt

\* ... and the transfer is still open.  (Seeded fault: or closed.)
Answers_AnyStatus(cmd) == OwnAttempt(cmd)
Answers(cmd) == OwnAttempt(cmd) /\ requests[cmd.request].status \in Unresolved

\* An error proves non-execution only if no attempt was ever in doubt.
\* (Seeded fault: the last attempt's error is believed.)
Definite_LastAttempt(cmd, outcome) ==
    outcome = DefinitiveError /\ cmd.attempt = requests[cmd.request].attempt
Definite(cmd, outcome) ==
    LET r == requests[cmd.request] IN
    /\ outcome = DefinitiveError
    /\ ~r.everUnknown /\ cmd.attempt = r.attempt

\* A transfer once in doubt remains so marked.
Doubtful(r) == [r EXCEPT !.status = "OutcomeUnknown", !.everUnknown = TRUE]

FinishLedger(cmd, outcome) ==
    LET id == cmd.request
        paid == outcome.kind = "Success" /\ outcome.block # None
        refused == Definite(cmd, outcome) IN
    \/ /\ Answers(cmd) /\ paid
       /\ SettleRecord(id, TRUE, outcome.block)
    \/ /\ Answers(cmd) /\ refused
       /\ SettleRecord(id, FALSE, None)
    \/ /\ Answers(cmd) /\ outcome.kind # "Success" /\ ~refused
       /\ Update(id, Doubtful(requests[id]))
       /\ UNCHANGED <<operations, grants, windows>>
    \/ /\ \/ ~Answers(cmd)
          \/ outcome = Success(None)
          \/ (paid \/ refused) /\ ~CanSettle(id)
       /\ UNCHANGED <<operations, grants, windows, requests>>

\* The continuation of send(): the ledger's answer, or no answer at all.
LedgerReturns(cmd, outcome) ==
    /\ cmd \in ledgerCalls
    /\ ledgerCalls' = ledgerCalls \ {cmd}
    /\ FinishLedger(cmd, outcome)
    /\ UNCHANGED <<registry, nextNonce, now, engineCalls, lookups>>

\* mutate() traps in the continuation: the outcome is lost.
LedgerCallbackTraps(cmd) ==
    /\ CallbacksMayTrap /\ cmd \in ledgerCalls
    /\ ledgerCalls' = ledgerCalls \ {cmd}
    /\ UNCHANGED <<registry, books, now, engineCalls, lookups>>

\* The ledger still deduplicates the frozen transfer.
WithinDedup(r) == r.frozen # None /\ r.frozen <= now /\ now - r.frozen <= DedupWindow

\* (Seeded fault: attempts without limit.)
Retryable_Unbounded(id) ==
    LET r == requests[id] IN
    Current(id) /\ mode = "Mock" /\ r.status = "OutcomeUnknown" /\ WithinDedup(r)
Retryable(id) ==
    LET r == requests[id] IN
    /\ Current(id) /\ mode = "Mock"
    /\ r.status = "OutcomeUnknown" /\ r.attempt < MaxAttempts /\ WithinDedup(r)

\* A bounded retry of the identical transfer, inside the ledger's dedup window.
RetryUnknown(id) ==
    LET r == requests[id] IN
    /\ id \in DOMAIN requests /\ Retryable(id)
    /\ Update(id, [r EXCEPT !.attempt = @ + 1, !.status = "Submitted"])
    /\ ledgerCalls' = ledgerCalls \cup
           {[request |-> id, attempt |-> r.attempt + 1, created |-> r.frozen]}
    /\ UNCHANGED <<registry, operations, grants, windows, nextNonce, now, engineCalls, lookups>>

\* reconcile_mock up to its await.  The status and the attempt are read here;
\* a retry may overtake the lookup.
Reconcile(id) ==
    LET r == requests[id] IN
    /\ id \in DOMAIN requests /\ r.status \in Unresolved
    /\ r.frozen # None /\ Proposal[r.operation].ledger \in mockLedgers
    /\ lookups' = lookups \cup {[request |-> id, attempt |-> r.attempt, created |-> r.frozen]}
    /\ UNCHANGED <<registry, books, now, engineCalls, ledgerCalls>>

\* Its continuation: found at a block, or not found, which proves nothing.
LookupReturns(cmd, found) ==
    /\ cmd \in lookups
    /\ lookups' = lookups \ {cmd}
    /\ FinishLedger(cmd, IF found # None THEN Success(found) ELSE Unknown)
    /\ UNCHANGED <<registry, nextNonce, now, engineCalls, ledgerCalls>>

\* No answer, an undecodable one, one for another transfer, a bad index, or a trap.
LookupFails(cmd) ==
    /\ cmd \in lookups
    /\ lookups' = lookups \ {cmd}
    /\ UNCHANGED <<registry, books, now, engineCalls, ledgerCalls>>
-----------------------------------------------------------------------------
Cancel(id) ==
    LET r == requests[id] IN
    /\ id \in DOMAIN requests
    /\ r.frozen = None /\ r.epoch = None
    /\ Update(id, Stopped(r, "Cancelled"))
    /\ UNCHANGED <<registry, operations, grants, windows, nextNonce, now, calls>>

\* (Seeded fault: an upgrade frees the reservation it interrupts.)
Interrupted_Released(r) == [Doubtful(r) EXCEPT !.epoch = None]
Interrupted(r) == Doubtful(r)

Recovered(r) ==
    CASE r.status = "Evaluating" -> Stopped(r, "NeedsReview")
      [] r.status = "Submitted" -> Interrupted(r)
      [] OTHER -> r

\* post_upgrade restores the snapshot that the last message saved.  The
\* continuations lived in the heap that the upgrade replaced.
PostUpgrade ==
    /\ requests' = [id \in DOMAIN requests |-> Recovered(requests[id])]
    /\ paused' = TRUE
    /\ engineCalls' = {} /\ ledgerCalls' = {} /\ lookups' = {}
    /\ UNCHANGED <<mode, plans, mockLedgers, operations, grants, windows, nextNonce, now>>

\* An ordinary upgrade: pre_upgrade traps while a transfer is unresolved.
Upgrade ==
    /\ \A id \in DOMAIN requests : requests[id].status \notin Unresolved
    /\ PostUpgrade

\* An upgrade that skips pre_upgrade, which recover_after_upgrade allows for.
ForcedUpgrade == PostUpgrade
-----------------------------------------------------------------------------
OwnerStep ==
    \/ \E m \in OwnerModes : SetMode(m)
    \/ \E b \in BOOLEAN : SetPaused(b)
    \/ \E p \in Plan : InstallPlan(p)
    \/ \E o \in Operation : InstallOperation(o) \/ ReviseOperation(o)
    \/ \E g \in Grant : InstallGrant(g) \/ Revoke(g)
    \/ \E l \in Ledger : RegisterMockLedger(l)

ClientStep ==
    \/ \E caller \in Delegate, o \in Operation, g \in Grant : Submit(caller, o, g)
    \/ \E id \in DOMAIN requests :
         \/ BeginEvaluation(id) \/ Report(id) \/ Dispatch(id)
         \/ RetryUnknown(id) \/ Reconcile(id) \/ Cancel(id)

\* Receipts the engine may send: of any evaluation of any request, passing or
\* not.  Only the executor's own check ties an answer to its question.
Receipts == {[stamp |-> EvaluationOf(id, slot), pass |-> b] :
                id \in DOMAIN requests, slot \in 1..MaxSlots, b \in BOOLEAN}

EngineReturns(c) ==
    \/ \E receipt \in Receipts : FinishEvaluation(c, receipt)
    \/ RefuseEvaluation(c)
    \/ EngineTransportFailed(c)

EngineStep == \E c \in engineCalls : EngineReturns(c) \/ EngineCallbackTraps(c)

LedgerStep ==
    \/ \E cmd \in ledgerCalls :
         (\E outcome \in LedgerOutcome : LedgerReturns(cmd, outcome)) \/ LedgerCallbackTraps(cmd)
    \/ \E cmd \in lookups :
         (\E found \in Block \cup {None} : LookupReturns(cmd, found)) \/ LookupFails(cmd)

Next == Tick \/ OwnerStep \/ ClientStep \/ EngineStep \/ LedgerStep \/ Upgrade \/ ForcedUpgrade

Spec == Init /\ [][Next]_vars

\* Nonces are below MaxRequests: every one of them has a record and none is removed.
TrackedRequest == [caller : Delegate, nonce : 0..(MaxRequests - 1)]
-----------------------------------------------------------------------------
(* Safety.                                                                 *)

Holding == {id \in DOMAIN requests : requests[id].epoch # None}

Charges == [id \in DOMAIN requests |-> Charge(requests[id].operation)]

Reserves(S) == SumFunctionOnSet(Charges, S)

\* The reserved columns of a grant are exactly the reservations its requests
\* hold, in total and in the window each was made in, however often replies
\* are late, repeated or contradictory (first half of check_invariants).
UsageMatches ==
    \A g \in DOMAIN grants :
      LET held == {id \in Holding : requests[id].grant = g} IN
      /\ grants[g].total.reserved = Reserves(held)
      /\ \A w \in WindowsOf(g) :
           windows[w].reserved = Reserves({id \in held : requests[id].epoch = w[2]})

\* Money spent and money reserved never exceed the caps of the grant, in total
\* or in any window, whatever the model said (I01; check_invariants).
CapsRespected ==
    /\ \A g \in DOMAIN grants :
         grants[g].total.spent + grants[g].total.reserved <= Terms[g].totalCap
    /\ \A w \in DOMAIN windows :
         windows[w].spent + windows[w].reserved <= Terms[w[1]].windowCap

\* A reservation belongs to an unresolved request whose operation names it, and
\* a success to the request that consumed the operation.
HoldersMatch ==
    \A id \in DOMAIN requests :
      LET r == requests[id]
          o == operations[r.operation] IN
      /\ r.epoch # None => o.state = "Reserved" /\ o.holder = id /\ r.status \in Unresolved
      /\ r.status = "Succeeded" => r.epoch = None /\ o.state = "Consumed" /\ o.holder = id

\* A nonce with a record can not be handed out again (check_invariants, I04).
NoncesConsumed == \A id \in DOMAIN requests : id.nonce < NextNonceOf(id.caller)

\* The code checks all of the above after every mutation and traps if it fails,
\* which would stop the canister for good: the trap never fires.
CheckInvariants == UsageMatches /\ CapsRespected /\ HoldersMatch /\ NoncesConsumed

\* What check_invariants does not look at: an operation is never left Reserved
\* or Consumed by a request that no longer backs it, which would lock it for good.
LocksAreBacked ==
    \A o \in DOMAIN operations :
      LET h == operations[o].holder IN
      /\ operations[o].state = "Available" <=> h = None
      /\ h # None => /\ h \in DOMAIN requests /\ requests[h].operation = o
                     /\ operations[o].state = "Reserved" => requests[h].epoch # None
                     /\ operations[o].state = "Consumed" => requests[h].status = "Succeeded"

\* The parts of a request tell one story: only one that still evaluates has
\* slots left to ask for, a transfer is frozen exactly from its dispatch on, and
\* its budget is held exactly while its outcome is open.
RequestsCoherent ==
    \A id \in DOMAIN requests :
      LET r == requests[id] IN
      /\ r.operation \in DOMAIN operations /\ r.grant \in DOMAIN grants
      /\ r.status \in {"Received", "Evaluating"} => Len(r.receipts) < Signals[r.snapshot.plan]
      /\ r.frozen # None <=> r.status \in Unresolved \cup {"Succeeded", "FailedDefinitive"}
      /\ r.epoch # None <=> r.status \in Unresolved

\* Every unresolved transfer can be settled: finish_ledger never meets the
\* Storage errors of settle_record, so a known outcome is never dropped.
SettlementPossible ==
    \A id \in DOMAIN requests : requests[id].status \in Unresolved => CanSettle(id)

\* Of all the requests ever made for one operation, at most one has a transfer
\* that was paid or may still be (I04).
OneTransferPerOperation ==
    \A i, j \in DOMAIN requests :
      /\ requests[i].operation = requests[j].operation
      /\ requests[i].status \in Unresolved \cup {"Succeeded"}
      /\ requests[j].status \in Unresolved \cup {"Succeeded"}
      => i = j

\* A request that is ready, reported or dispatched has one passing receipt for
\* every slot of its plan, each bound to this request, this slot and the one
\* snapshot it was submitted with (I02, I03), whatever receipts the engine sends.
EvidenceComplete ==
    \A id \in DOMAIN requests :
      LET r == requests[id] IN
      r.status \in {"ReadyToDispatch", "Reported"} \/ r.frozen # None =>
        /\ Len(r.receipts) = Signals[r.snapshot.plan]
        /\ \A slot \in 1..Len(r.receipts) :
             r.receipts[slot] = [stamp |-> EvaluationOf(id, slot), pass |-> TRUE]

\* A request never has two engine calls out, and one that it still waits for is
\* marked in flight: clients that advance at the same time buy one inference.
OneEngineCall ==
    /\ \A c, d \in engineCalls : c.evaluation.request = d.evaluation.request => c = d
    /\ \A c \in engineCalls :
         LET id == c.evaluation.request IN
         requests[id].status = "Evaluating" =>
           requests[id].inFlight /\ c.evaluation = PendingEvaluation(id)
-----------------------------------------------------------------------------
(* Action properties.                                                      *)

\* A reservation whose outcome was ever in doubt is given up for a success only:
\* not for an expiry, a revocation, a new day, an upgrade or a late error (I05).
UnknownKeepsReservation ==
    [][\A id \in DOMAIN requests :
         requests[id].everUnknown /\ requests[id].epoch # None =>
           \/ requests'[id].epoch = requests[id].epoch /\ requests'[id].everUnknown
           \/ requests'[id].status = "Succeeded"]_vars

\* A dispatched transfer keeps its arguments and stays dispatched, and a settled
\* one never changes again: no late reply, cancel or upgrade reopens it (I06).
SettlementIsFinal ==
    [][\A id \in DOMAIN requests :
         /\ requests[id].frozen # None =>
              /\ requests'[id].frozen = requests[id].frozen
              /\ requests'[id].status \in Unresolved \cup {"Succeeded", "FailedDefinitive"}
         /\ requests[id].status \in {"Succeeded", "FailedDefinitive"} =>
              requests'[id] = requests[id]]_vars

\* What the money goes out on holds in the message that sends it, dispatch or retry: neither the
\* request nor its grant has expired, nothing is paused or revoked, and every receipt, each
\* collected in an earlier message, is of the operation, the grant and the plan as they are
\* registered now.  An answer, a resend, a deadline or the owner may come between any two (I03).
OnlyCurrentRequestsPay ==
    [][\A cmd \in ledgerCalls' \ ledgerCalls :
         LET r == requests[cmd.request]
             judged == Snapshot(r.operation, r.grant) IN
         /\ ~paused /\ ~grants[r.grant].revoked
         /\ now < r.expires /\ now < Terms[r.grant].expires
         /\ Len(r.receipts) = Signals[judged.plan]
         /\ \A slot \in DOMAIN r.receipts :
              r.receipts[slot].pass /\ r.receipts[slot].stamp.snapshot = judged
         /\ requests'[cmd.request].frozen = cmd.created]_vars
-----------------------------------------------------------------------------
(* Liveness.                                                               *)

Is(id, status) == id \in DOMAIN requests /\ requests[id].status = status

\* Even when the answer to an evaluation is lost in a trapping continuation, a
\* client that keeps advancing gets the request out of Evaluating: by its expiry
\* at the latest.
EvaluatingEnds == \A id \in TrackedRequest : Is(id, "Evaluating") ~> ~Is(id, "Evaluating")
=============================================================================
