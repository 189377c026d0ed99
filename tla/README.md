# TLA+ specifications of IC-Laya

IC-Laya runs a small language model inside an Internet Computer canister and
lets a second canister act on its answers under rules that a human registered
in advance.  The model never decides alone: a request passes through a fixed
workflow, its evidence is bound to one snapshot of what was registered, and
money moves at most once, within caps, whatever the model or the network does.

This directory models that workflow and the payment behind it, the engine that
gives the answers, and the tools that measure it; checks them with TLC; and
proves with TLAPS every safety property that TLC checks.

## 1. The system

Three canisters and a set of client tools (paths relative to the repository).

| Part | Where | State it keeps | Operations |
|---|---|---|---|
| Executor workflow | `crates/ic-laya-core/src/workflow.rs`, `canisters/executor/src/lib.rs` | mode, pause flag, registered plans, grants with usage per window, operations, requests, nonces, mock ledgers | owner: register and revise, revoke, set mode, pause; client: submit, advance, dispatch, retry, reconcile, cancel; upgrade |
| Mock ledger | `canisters/mock-ledger/src/lib.rs` | balances, booked transfers by fingerprint, next block, fault switch | `icrc1_transfer`, `ic_laya_lookup`, `set_fault` |
| Decision engine core | `crates/ic-laya-core/src/engine.rs` | schemas, calibrations, quotas per caller and minute, result cache | register, `evaluate` |
| Decision engine canister | `canisters/decision-engine/src/lib.rs` | upload and warm-up of the model, one resumable token job | upload, step, activate, upgrade; begin, step and replay a job; query begin, step, finish |
| Query client and transport | `tools/client_held_query.py`, `tools/query_transport.py`, `canisters/decision-engine/src/query_transport.rs`, `crates/laya-candle/src/continuation.rs` | a continuation, held by the client between queries | retry, halve the batch, resume |
| Network tools | `tools/measure_inference.py`, `measure_phases.py`, `local_integration.py`, `canister_infer.py` | a local network, what they installed on it, the report so far | start and stop the network, deploy, upload, evaluate, pay |
| Campaigns | fifteen `tools/validate_*.py`, `measure_*.py`, `check_*.py`, ... | a report on disk | measure case by case, save, resume, certify |
| Proposal triage | `tools/sns_proposal_triage.py` | priority, reasons, advice | classify, weigh each field, ask the model about it |
| Pack tools | `tools/laya_port_bridge.py`, `pack_checkpoint.py`, `quantize_pack.py`, `generate_fixtures.py` | a pack in the making on disk | export, convert, rename |
| Distributions, schemas, budget table | `crates/ic-laya-core/src/math.rs`, `schema.rs`, `inference_budget.rs` | none: pure functions | apportionment, compile and render, choose a route |
| Snapshot storage | `crates/canister-common/src/lib.rs`, `crates/ic-laya-core/src/storage.rs` | the last saved state | save after every mutation, restore on upgrade |
| Packs, kernels, tokenizer | `crates/laya-candle/src`, `crates/hf-tokenizer/src` | weights | load, infer |

### How they interact

A canister runs one message at a time and suspends only at an `await`.  The
executor has four of them: the engine call in `advance`, the transfer in `send`
(reached from `dispatch` and `retry_mock_transfer`), the lookup in
`reconcile_mock`, and the handshake in `register_mock_ledger`.  Between a call
and its answer any other message may run.  All are bounded-wait calls: the
callee executes the request at most once, maybe after the caller has given up,
maybe never, and the caller gets an answer or a rejection.  Every mutation ends
by checking `check_invariants` and saving the state; if either fails the message
traps and is rolled back.  An upgrade replaces the heap, and with it every
continuation, and restores what the last message saved.

The endpoints of the engine contain no `await`.  The tools call them one after
the other, over a network where any call may fail or be lost, and are killed or
run again at any point; several tools may be at the same engine or network.

### What is hard

* Several requests, of one caller or of several, compete for one operation and
  pass evaluation side by side.
* Evidence, grant and pause flag change while an answer is out.
* A transfer may be executed although its call was rejected, a retry may overtake
  the first attempt, a lookup may overtake both.
* Continuations can trap, and upgrades lose them.
* The clock runs past expiries, windows, quota minutes and the ledger's deduplication window.
* Budgets are reserved in one window and settled in another.
* Models are replaced between the registration of a schema, the evaluation and its
  repetition; between two steps of a job; between two queries of a session; between
  two cases of a report.
* Tools die between two writes, or during one, and meet what an earlier run, or
  another tool, left behind.

### What makes each part correct

* Executor: evidence complete and bound to one snapshot before anything is paid;
  caps never exceeded; a reservation whose outcome is in doubt never given up;
  a settled request final; an operation locked exactly while some request backs it;
  the trap of `check_invariants` never fires; no request stays in evaluation forever.
* Mock ledger: one block per transfer, deduplication before refusal, books that balance.
* Executor and ledger: an operation is paid at most once, verdicts are true,
  what was debited is in the budget, a booked transfer ends as a success.
* Model life cycle: what is in memory is complete, intact, active and alone, and what
  was uploaded stays until the next upload.
* Token job and its client: a request is answered as asked, from one model and one
  input, or refused; a lost answer can be had again; a start under a known id never
  starts a second job.
* Engine: one inference per caller and evaluation id; a receipt of the model that the request
  names, fresh when it is handed out; no minute beyond its quota.
* Query session: logits from the one pack that the result names; a refused width never
  sent again; no session broken off as invalid; one that goes on gets its logits.
* Network tools: a report true of its packs; other people's networks untouched; success
  announced only over what was seen; nothing left running.
* Campaigns: no row of another pack under a report's name, no measured row lost, no
  incomplete report certified.
* Triage: a priority that does not depend on the order of the fields, complete coverage only if
  every reason was answered.
* Pack tools: a pack that can be seen is whole, each weight in its place.

`PROJECT.json` lists the components with their status, and under `hazards` each
difficulty at its line with the properties that would catch it.

## 2. The modules

| Module | What it is |
|---|---|
| `Maps` | finite maps (`BTreeMap`): empty, insertion, type |
| `Executor` | the executor canister; the other ends of its calls may answer anything |
| `FiniteProofs` | facts about sums over finite sets and least numbers, for the other proofs |
| `ExecutorProofs`, `ExecutorSafetyProofs` | theorems about `Executor`: types, locks, caps, settlement; evidence, budgets, what was spent |
| `MockLedger` | the mock ledger |
| `Payment` | `Executor` and `MockLedger` joined by a network |
| `ExactlyOncePayment` | what the two promise together |
| `PaymentProofs` | theorems about `Payment`: the refinement, and what leaves the account |
| `ModelLifecycle` | upload, warm-up, activation and upgrade of the decision engine |
| `ModelLifecycleProofs` | theorems about `ModelLifecycle` |
| `TokenInference` | the token job, over `ModelLifecycle` |
| `TokenClient` | the command line client of the token job and its reruns, over `TokenInference` |
| `TokenInferenceProofs` | theorems about job and client |
| `DecisionEngine` | evaluations with cache, quota and expiry, over `ModelLifecycle` |
| `Harness` | the four network tools, over `DecisionEngine` |
| `DecisionEngineProofs` | theorems about engine and tools |
| `QuerySession` | a session held by the client |
| `Campaign` | the fifteen scripts that keep a report |
| `ProposalTriage` | the triage of a proposal |
| `PackFiles` | the makers of packs |
| `StandaloneProofs` | theorems about query session, mock ledger, triage, campaigns and pack makers |
| `MCExecutor`, `MCPayment`, `MCTokenClient`, `MCDecisionEngine`, `MCHarness`, `MCCampaign` | constants for TLC |
| `MCMockLedger` | the ledger under arbitrary callers |
| `MCStandalone` | ledger, query session, triage and pack makers, each alone in one run |

`ModelLifecycle` has no run of its own: `DecisionEngine`, `Harness` and
`TokenClient` take its steps.

### Executor

One action is one message, or the part of a message up to its await, or the
continuation after it.

| Action | Code |
|---|---|
| `SetMode`, `SetPaused`, `InstallPlan`, `InstallOperation`, `ReviseOperation`, `InstallGrant`, `Revoke` | the owner's endpoints and the functions of `ExecutorState` behind them |
| `RegisterMockLedger` | the message after the handshake; what was read before it is not used after it |
| `Submit` | `submit` with a fresh nonce (a repeated one changes nothing, a gap is refused) |
| `BeginEvaluation` | `advance` up to the call: first send, one resend, or Stale |
| `FinishEvaluation`, `RefuseEvaluation`, `EngineTransportFailed` | the continuation of `advance`: receipt, error of the engine, no readable answer |
| `EngineCallbackTraps`, `LedgerCallbackTraps` | `mutate` traps in a continuation: answer lost, state unchanged |
| `Report`, `Dispatch` | `dispatch` up to the call: `authorize` and `prepare_dispatch` |
| `LedgerReturns` | the continuation of `send`: `finish_ledger` and `settle_record` |
| `RetryUnknown` | `retry_mock_transfer` up to the call |
| `Reconcile`, `LookupReturns`, `LookupFails` | `reconcile_mock` up to the call, and its continuation |
| `Cancel` | `cancel` |
| `Upgrade`, `ForcedUpgrade` | `pre_upgrade` and `post_upgrade`; the second skips `pre_upgrade`, a case `recover_after_upgrade` provides for |
| `Tick` | time passes |

Abstractions:

* A digest is what it digests: `snapshot` is the record of operation, grant,
  plan and revisions, an evaluation id the record of request, slot and snapshot.
  Two digests are equal exactly when their contents are (collision freedom).
  A request id is the pair of caller and nonce.
* Registered data that no message changes (terms of a grant, proposal of an
  operation, number of signals of a plan) are constants; `covers` stands for the
  comparison of ledger, accounts, amount and fee in `Grant::eligible`.
* Whether a receipt passes its rule is a Boolean of the receipt; the rules
  themselves (`check_rule`) are arithmetic on distributions and are left out.
* The caller of each endpoint is one who may call it: owner or delegate checks
  decide who acts, not what an action does.  That the submitter is the
  grant's delegate is modelled, because `current` looks at it again later.
* The engine may send any receipt of any request, slot and snapshot (`Receipts`),
  because only the executor's own check ties an answer to its question.  This is
  more than `DecisionEngine` sends, so what holds here holds with that engine.
* In `Executor` alone the ledger may answer anything at any time.

Bounds, all of them constants: `MaxTime` stops the clock and `MaxRevision` the
revisions; `MaxRequests`, `MaxRegistry`, `MaxWindows`, `MaxLedgers`,
`RequestTTL` and `DedupWindow` are the code's limits with smaller values;
`OwnerModes` restricts which modes are selected; `CallbacksMayTrap` and
`IndicesMayBeBad` say whether continuations may trap and whether a ledger may
report an index the code refuses.  `MaxSlots`, `MaxSends` and `MaxAttempts` have
the code's values 3, 2 and 2.

### MockLedger and Payment

`icrc1_transfer` decides and commits in one message, so it is one action with a
reply; under the fault `CommitThenCallbackTrap` the reply of a new transfer is a
rejection.  The accounts are left out of the fingerprint: with the memo, which
is the request id, they follow from the request.

`Payment` replaces the ledger that may answer anything by this one.  `transit`
holds transfers that were sent and not yet executed, `replies` and `inspected`
the answers on their way.  A transfer in transit may be executed late
(`Deliver`), after its caller gave up (`TimeOut`), lost its continuation
(`SendTraps`) or was upgraded (`UpgradeStep`), or never (`Drop`); it is never
executed twice, which the Internet Computer guarantees.

`ExactlyOncePayment` is the abstract specification: an operation is free, held or
settled; it is paid only while held, released only while unpaid, settled only
once paid.  `Payment` implements it with `hold` read off the operation and `paid`
off the ledger's books.

### ModelLifecycle, TokenInference and TokenClient

The endpoints of the decision engine contain no `await`, so each is one action.

| Action | Code |
|---|---|
| `EnableSyntheticFixture`, `BeginUpload`, `UploadChunk`, `StartWarmup`, `WarmupNext` | the owner's endpoints of the same names |
| `Upgrade` | `pre_upgrade` and `post_upgrade`: stable memory stays, `MODEL`, `BUILDER`, `TOKENIZER` and `INFERENCE` are gone |
| `StartTokens`, `StartBatch` | `start_token_inference`, `start_token_inference_batch` with its replay |
| `StepTokens` | `step_token_inference`, `step_token_inference_batch` and `profile_token_step`, all through `advance` |
| `StartHeard`, `StartLost`, `StepHeard`, `StepLost`, `StepFails` | one call of `infer` in `tools/canister_infer.py`: executed and its reply read, executed and lost, or refused or not executed |

Stable memory is a function from positions to cells, a cell being the bytes of one tensor or of
the tokenizer; a chunk that ends inside a tensor is not told apart from one that carries
wrong bytes.  A pack is named by its manifest, so its digest is the name.  Requests
that are refused, chunks sent again and queries change nothing and are not actions.
A warm-up whose manifest passes `parse` cannot fail in `finish`, which repeats the
same checks.  Logits stand for the pack and the input that they come from.

A job id digests pack, clock, the id of the job it replaces, and the request.  It is
modelled as the record of these, so two jobs have equal ids when
the code's digests are equal: a job dropped with its model and begun again within one
round has its old id.  The answers are the same then, and no property relies on more.

`RunAgain` is what the user does after a failure: the command with the `--request-id`
that it printed.  Rerunning with another batch size is possible, and so is a second
process while the first is still alive.

### DecisionEngine

| Action | Code |
|---|---|
| `AllowCaller`, `RegisterSchema`, `RegisterCalibration` | the owner's endpoints (`lib.rs`) and `EngineState` (`engine.rs`) behind them; a schema is compiled with the tokenizer in memory |
| `Evaluate` | `evaluate`: the checks of `Admissible`, then `Replay` of a cached result or `Compute` |
| `ModelStep` | any step of `ModelLifecycle` |
| `Tick` | time passes |

A result carries who computed it (`by`: a pack, or the fixture) instead of numbers.  A failed
computation is cached like any other result.  The ghost `runs` counts inferences per caller and
id, the ghost `spent` those per caller and minute.  The limits of 64 callers, 64 schemas
and 128 calibrations are left out; the limit of the cache is `MaxCached`.

### QuerySession

| Action | Code |
|---|---|
| `StartAdvance` | `advance` of `client_held_query.py` up to the call, with the width chosen by `query_transport.py` |
| `CallAnswered` | the engine's query endpoint (`check_query_pack`, `import_inference`) and the client's checks of the reply |
| `CallFails` | an error of the call: halve the batch, retry, or raise |
| `ModelChanges` | the owner loads another pack, or the engine loses its memory |

All kinds of session are there: one direct query, automatic width with a fused begin,
and a fixed width after a plain begin.  Numbers of tokens, phases, tiers and the error
classification are the code's.  The bytes of a continuation, its compression and framing
are not modelled; its header is.

### Harness

Each process walks through the steps of its tool: begin, look at the network, start it,
check the port; `Provision`, `Install`, `Admit`; for each tier `BeginsUpload`, `SendsChunk`,
`StartsWarmup`, `WarmsNext`, `RegistersSchema`, `RegistersCalibration`,
`MeasuresEvaluation` or `MeasuresPhases`, `Probes`; `WritesReport`.
`local_integration.py` goes on with `InstallsExecutor`, `Submits`, `Advances`,
`Dispatches`, `Retries`, `ChecksGuard`; `canister_infer.py` infers (`Infers`) and names the pack
(`Names`), after `ReadsActive` if it has a budget.  `Fails` is any step raising, `Unwinds` the
`finally` block that follows, `Killed` a death without one.  `StopNetwork` may fail, which the code
ignores (`expect_ok=False`): the network then stays up, and `left` says so.  The canister side of each
call is the action of `DecisionEngine`, so two tools on one engine do to each other what they would do.

What `canister_infer.py` looks at depends on how it is called (`route`, `SamePack`).  With a budget it
compares the active pack before and after, with `--query-stepped` the pack of the result with the
one active afterwards, and with `--pack` that one with the manifest.  A plain inference without `--pack`
compares nothing: it reads the active pack once, after the inference.  `--warmup`, which repeats
the warm-up of what is uploaded already, is not among the jobs.

Executor and ledger are what `local_integration.py` observes of them; `Payment` has them in full.
Its `advance` and `dispatch` may fail, not be executed, or be executed and lost; what they may leave of
a request is `Judges`, `Lost`, `DispatchLeaves` and `RetryLeaves`.  The code looks at the ledger only for the first
request.  Of the second it looks only for `OutcomeUnknown` (lines 640-643), which a dispatch that never
reached the ledger leaves too, and says ALL CHECKS PASSED before it tries the upgrade.  So `GreenIsTrue` does
not claim that the second transfer is booked.  The executor answers the identity that created
it (`Paid`): what an earlier run left, and a run of another identity, are met as they are.

Two properties have a premise about the jobs.

* `GreenIsTrue`: two runs of `local_integration.py` with one identity take turns (`IntegrationsAlone`).
  Each reinstalls the canisters, which empties the executor under the other; the tool has no lock against it.
  Runs of different identities are not restricted: only the creator of the canisters gets past
  their installation, and the run `harness` has such a pair.
* `ReportsAreTrue` speaks of what a tool vouches for (`Vouches`).  A measuring tool and a query
  session vouch for all they report.  An inference with a budget or with `--pack` does if its pack
  is uploaded once (`LoadedOnce`): a pack that is replaced and loaded again between
  the two looks is the same to them.  A plain inference without `--pack` vouches for nothing: one
  replacement between the inference and `info` gives its result a wrong label.

### Campaign, ProposalTriage, PackFiles

A script of `Campaign` is a record of what it differs in from the others: what it does with an
earlier report, which module and pack it accepts, when it saves, what it looks at again at the
end.  `StartRun`, `Infers`, `Records`, `Certifies`, `Refuses` are the loop all of them share;
`Dies` and `DiesWriting` stop it anywhere, `OwnerActs` changes the engine, `NewOutput` and
`TriesLater` are the user.  A row keeps the packs and modules that its inferences came from.

`ProposalTriage` takes the fields of a proposal in any order: `Classifies`, `Weighs` each,
`AsksModel`, `Assesses` each, `FailsToAsk`, `Concludes`.  Parsing of the text is modelled
by whether a value is found, and whether it is a number.

`PackFiles` builds a pack tensor by tensor: `DownloadsTokenizer`, `BeginsExport`,
`BeginsQuantize`, `CopiesTensor`, `RenamesPack`, `WritesInput`, `Killed`.
Upstream tensors may be missing, misshapen or not finite.  A tensor holds the name of the
upstream tensor it was copied from.

## 3. What is checked

| Run | Instance | What it shows |
|---|---|---|
| `contention` | two requests, one operation, plans of two signals, two revisions, requests that expire after one tick, modes free, traps and bad indices | one open or paid transfer per operation, a passing receipt of its own for every slot, one engine call per request; a doubted reservation is kept, a settlement is final, only current requests pay: unexpired, with receipts of what is registered now |
| `budget` | two operations under one grant, caps that admit both only in different windows | the trap of `check_invariants` never fires, an open transfer can always be settled |
| `payment` | two requests for one operation, unreliable network, trapping callbacks, upgrades | types, booked stays held, refinement of `ExactlyOncePayment` |
| `payment_time` | one request, revocation, a clock of two ticks and a deduplication window of one | verdicts true for good, debits covered by the budget |
| `payment_settles` | one request whose grant expires at the last tick; a client that advances and reconciles | a booked transfer ends as Succeeded, no request stays in Evaluating |
| `token_client` | two packs of three and two phases, batches of one or two, three starts; two processes under one request id and any other requests | answers exact, each process gets the answer to its own input, starts idempotent |
| `token_client_finishes` | three processes, one start, two batches | reruns end with the answer of the one job |
| `decision_engine` | two packs with one tokenizer and different qtypes, one of two tensors, warm-ups interrupted between them, the fixture, two ids of which each may be used for different requests, quotas of one and two, minutes of two ticks, three instants, a cache of two | receipts fit their requests and are fresh, of a whole pack, one inference per id, quotas hold |
| `harness` | eleven pairs of tools, on a local or a connected network, up or down | types, reports true, only own networks touched, success true, nothing left running |
| `kept_state` | the same pairs, among them a `--keep-state` run after a complete one | a disagreement of code and text, section 5 |
| `campaign` | each of fifteen scripts; two cases of two inferences, two modules, two packs | rows from the named pack, certificates true, rows kept, a complete report comes about |
| `standalone` | ledger: two callers, two memos, balance for two transfers, a window of 0 and one tick; session: packs of 32 and 30 phases, inputs on each side of the tiers, two retries; packs: two makers at a time, a defective tensor, configurations of one and two layers; triage: three fields, values on both sides of the factors 2 and 10 | books and replies true; answers of one pack, refused widths stay refused, finish completes; packs sound; priority deserved, coverage real |

Why the bounds are enough.

* Executor and payment.  The hazards are pairwise: two requests competing for
  an operation, two dispatches sharing a budget, two attempts or an attempt and a
  lookup of one transfer.  Two requests with two attempts each show all of them;
  the code allows no third attempt.  Two ticks separate windows and pass the
  deduplication window and the expiries; in `contention` one tick passes the expiry of a request.  Two revisions are one revision after
  submission, which is all that `current` can see.  Two slots show a receipt of the
  wrong slot.  Beyond these sizes the proofs take over.
* Token job.  Three phases in batches of two have a full and a clipped batch; three starts
  have a job replaced and its request id used again.
* Engine.  Two minutes and a boundary between them; a cache that fills up; a
  registration that expires while its request does not.  Beyond these sizes the proofs.
* Tools.  What one tool does to another takes two of them.  The pairs are chosen so that each
  step of a tool meets a tool that reinstalls the engine, replaces its pack, uploads chunks of
  another pack, or stops the network, at once or in succession.  `Signals` is 2 instead of 3: enough for a plan that is partly
  answered.  The owner's clock stands still (`MaxTime` 0), because a run is over before its
  registrations expire; expiry is checked in `decision_engine`.
* Campaigns.  Two cases show a run that stops between cases, two inferences one that stops
  within a case; the scripts treat all cases alike.  `changes` counts the owner's acts up to two,
  since the scripts cannot see a change that is undone before they look again, and say so
  nowhere: `NamesItsEngine` is stated for fewer than two changes.
* Standalone.  The four components share no variable; while one runs the others rest, so the
  states are the sum of theirs.  The session's numbers are the code's.

Deadlock checking is off in `decision_engine`, `harness`, `kept_state`, `campaign`, `standalone`
and `token_client_finishes`, where processes end or the last component comes to rest.  In
the other runs it is on: an executor can always be paused and an engine upgraded.

Fairness:

* `Reconciling` (run `payment_settles`): the client keeps calling
  `reconcile_mock`, and lookups, which may fail any number of times, do not fail
  forever (strong fairness).  Nothing is assumed about transfers, faults or upgrades.
* `Patience` (same run): time passes and the client calls `advance` again and again.
  The engine is not assumed to answer: the request becomes Stale by its expiry.
* `Persistence` (run `token_client_finishes`): the user runs the command again, and
  a start and a step that are executed are at some time heard (strong fairness).  The
  model stays in memory.  That two batches are enough is an assumption of the
  instance: of the later requests only the last can be repeated (`docs/INT8.md:40`), so with
  three batches a rerun can find its job too far ahead.  The tool's default of 16 phases per call
  needs two for the 32 phases of the model.
* `Finishing` (run `standalone`): the user calls `finish()` until it is done, and queries that
  could be answered are answered at some time (strong fairness).  Nothing is assumed of the owner;
  `FinishCompletes` speaks of the case that the calibrated pack stays at last.
* `HarnessSpec` (run `harness`): each tool takes its next step, because every call
  returns or fails within its time limit.  Nothing is assumed about which.
* `Perseverance` (run `campaign`): the script is run again, and its user picks a new output
  if it keeps being refused.  `CampaignEnds` further supposes that the engine stays as it
  should be and that kills stop, both as premises of the property.

Each property is paired in `PROJECT.json` with a seeded fault of the code (the
operators with a suffix such as `Authorized_UsedOperation`), under which its run
reports a violation.  The operators with a suffix are used nowhere else.

## 4. What is proved

All theorems hold for every value of the constants that satisfies the named
assumptions, which TLC evaluates on every instance.  None of the properties is
inductive alone; each module proves an inductive invariant, one lemma per
action, and derives the rest.  Every invariant and every action property of the
passing runs of section 3, and the refinement, is a theorem.

| Module | Theorem | Statement |
|---|---|---|
| `FiniteProofs` | `SumIsUnits` | a sum of naturals over a finite set is the number of its units |
| `ExecutorProofs` | `TypeCorrect` | `Spec => []TypeOK` |
| | `CapsHold` | `Spec => []CapsRespected` |
| | `LocksHold` | `Spec => []LocksAreBacked` |
| | `CoherenceHolds` | `Spec => []RequestsCoherent` |
| | `OneTransferHolds` | `Spec => []OneTransferPerOperation` |
| | `SettlementFinalHolds` | `Spec => SettlementIsFinal` |
| | `UnknownKeepsHolds` | `Spec => UnknownKeepsReservation` |
| `ExecutorSafetyProofs` | `EvidenceHolds` | `Spec => []EvidenceComplete` |
| | `OnlyCurrentHolds` | `Spec => OnlyCurrentRequestsPay` |
| | `OneEngineCallHolds` | `Spec => []OneEngineCall` |
| | `CheckHolds` | `Spec => []CheckInvariants` |
| | `SettlementHolds` | `Spec => []SettlementPossible` |
| | `SpentHolds` | what a grant says is spent is what its succeeded requests cost |
| `PaymentProofs` | `PaymentTypeCorrect` | `PaymentSpec => []PaymentTypeOK` |
| | `BookedHeldHolds` | `PaymentSpec => []BookedStaysHeld` |
| | `VerdictsTrue` | `PaymentSpec => []VerdictsAreTrue` |
| | `PaysExactlyOnce` | `PaymentSpec => ExactlyOnceSpec` |
| | `DebitsBudgeted` | `PaymentSpec => []DebitsAreBudgeted` |
| | `DebitsWithinCap` | what leaves the account under a grant is within its total cap |
| `ModelLifecycleProofs` | `ModelIntact`, `HotModelActive`, `OneModel`, `ReceivedStaysHolds` | the properties of `ModelLifecycle` |
| `TokenInferenceProofs` | `TokenTypeCorrect`, `AnswersExact`, `JobsOfHotModel`, `LastRequestCanBeRepeated`, `StartsIdempotent` | types; answers exact; no job without its model; the last request repeatable; starts idempotent |
| | `ClientsAreAnswered` | a client that ends with an answer has that to what it asked |
| `DecisionEngineProofs` | `ReceiptsFit`, `ReceiptsFresh`, `OneInference`, `Quota` | the four properties of run `decision_engine` |
| | `EngineTypeCorrect` | `EngineSpec => []EngineTypeOK`, the limit of the cache included |
| | `EngineImplementsLifecycle` | `EngineSpec => LifecycleSpec` |
| | `HarnessTypeCorrect` | `HarnessSpec => []HarnessTypeOK` |
| | `OnlyOwn` | `HarnessSpec => OnlyOwnNetworks` |
| | `ReportsTrue` | `HarnessSpec => []ReportsAreTrue` |
| | `WorkflowGreen` | `HarnessSpec => GreenIsTrue`, assuming `IntegrationsAlone` |
| `StandaloneProofs` | `SessionTypeCorrect`, `AnswersOfOnePackHold`, `RefusedStay`, `TriesBounded`, `OnlyForwardHolds` | types; answers of one pack and no reply invalid; refused widths; bounded tries; a continuation only goes forward |
| | `BooksTrue` | `CallsSpec => []BooksAreTrue` |
| | `TriageTypeCorrect`, `PriorityDeserved`, `CoverageReal` | types; the priority the set of values deserves, in any order; coverage claimed only if there is an answer to each reason |
| | `RowsNamed`, `CertifiedTrue`, `RowsKept` | `CampaignSpec` implies `[]RowsOfNamedPack`, `[]CertifiedIsTrue` and `RowsAreKept` |
| | `FilesInvariant`, `FilesTypeCorrect`, `PacksSound` | `FilesSpec` implies the invariant, the types and `[]PacksAreSound` |
| | `ApartTypesCorrect` | `ApartSpec => []TypesOK` |

Type invariants, locks, caps and coherence that are proved here are not run again.

**Sums** (`FiniteProofs`).  `SumFunctionOnSet` folds over a set, and induction over a set takes an
operator as parameter, which the prover cannot instantiate.  So the sum is related to a cardinality
instead: `Units(f, S)` is the set of pairs `<<x, i>>` with `i` in `1..f[x]`, and `SumIsUnits` shows that
the sum is its size.  That in turn is shown of the least number of elements for which it might fail
(`HasLeast`), not by an induction rule.  What happens to a sum when an element comes, goes or changes
then follows from the facts about cardinalities in the library.

**Executor** (`DataAssumption`, `BoundAssumption`, `NoneAssumption`: data have their
types with one to three signals, limits are naturals, an absent value is no value).

    IInv == RegistryTypeOK /\ now \in Time /\ BooksInv /\ CallsInv

* `OneTransferPerOperation` follows from `HoldersMatch`: a request that is open or
  paid is named by its operation, and an operation names one request.
  `HoldersMatch` survives a dispatch only because an operation that is Available
  has no holder, which is `LocksAreBacked`, and an open request holds a
  reservation, which is `RequestsCoherent`.
* `LocksAreBacked` survives a submission only if the new id is new:
  `NoncesConsumed`.
* `CapsRespected` survives a settlement because `CanSettle` is part of it, and a
  reservation because `CanReserve` looks at both caps.
* A continuation may only touch a request that exists: `CallsInv`.

One lemma per action shows that it keeps `BooksInv` and, in the same breath, how it
may change each request: keep its hold, be dispatched for the first time, or be settled, as
a failure only if it was never in doubt (`RequestStep`).  The action properties
follow from that.

**Evidence.**

    JudgingInv == IInv /\ EvidenceInv /\ OneEngineCall /\ AskedInv

`EvidenceInv` says that the receipts of a request that goes on are those of its slots, in order,
and passed, and that all of them are there once it no longer asks; a continuation appends one only if
its stamp is the evaluation the request waits for (`PendingEvaluation`).  `OneEngineCall` needs
`AskedInv`: while a call is out its request is not back in Received, from where it would ask anew.
`OnlyCurrentHolds` puts `EvidenceInv` and `Current` together: the receipts were collected in earlier
messages, each stamped with the snapshot of the submission, and `current` shows at the transfer that this
is still the snapshot of what is registered, and that neither request nor grant has expired.

**Budgets.**  `BudgetInv` says that what a grant and each of its windows say is reserved is the sum of the
charges of the requests that hold it, which is the part of `check_invariants` that adds up.  A step
takes one request into the sum, out of it, or leaves it; what is settled leaves the window it was
reserved in, however late.  With `IInv` it gives `CheckInvariants`, so the trap before a save never fires,
and `SettlementPossible`: each open charge is a summand of the totals it is taken from.  `SpentInv`
says the same of what is spent and the requests that succeeded.

**Payment** (further `OneLedger`, `IndicesAreNumbers`, `LedgerNumbers`: one ledger, whose block
indices and settings are numbers).

    PayInv == IInv /\ L!LedgerTypeOK /\ WireTypes /\ WireInv
    WireInv == CountInv /\ CommandsInv /\ RecordsInv /\ VerdictsInv /\ RepliesInv /\ InspectedInv

It extends `IInv` by what is on the wires.  A transfer that was never in doubt was sent once: no other copy of it is in
transit, so an error reply is final (`VerdictsInv`).  Every reply is of a call
whose request still waits for it, and says what the ledger holds or will never hold
(`RepliesInv`, `InspectedInv`).  A booked transfer is that of the request its
operation is held by (`RecordsInv`).  For the refinement, what is booked of an operation is
at most its holder's one record, so each step books nothing, or one, or settles: a step of
`ExactlyOncePayment` or a stutter.

`DebitsBudgeted` puts the two together: each booked transfer is that of a request that still
holds its reservation or has succeeded, and no two are of one request, so the sum over the
books is at most the sum over the requests, which `BudgetInv` and `SpentInv` equate with reserved
and spent.  With `CapsRespected` the ledger itself never pays more than the cap (`DebitsWithinCap`).

**Model life cycle** (`PackAssumption`: a manifest lists at least one tensor and the tokenizer).
`LifecycleInv` adds to the properties that the tensors of the builder are the first ones of
its manifest, that an upload ends the fixture, and that received cells are in stable memory.

**Token job** (also `StepsAssumption`).  `TokenInv` says of every remembered answer what
`AnswersAreExact` says of the last one, and that the job began with the model in memory.
`ClientInv` says of each client that what it has so far is the answer to its own input, from the job
whose id it holds.

**Engine** (also `EvaluationAssumption`).  `EngineInv` says of each cached result that
it was computed by the model its request names, under that model's qtype; that what was run is cached
and was run once; and that the counter of a quota is at least what was spent in this minute.  That a
receipt comes from a whole pack (`ReceiptsFresh`) is `ModelIntact` of the life cycle at the moment it is sent.  `EngineImplementsLifecycle` carries the theorems on the life cycle over.

**Tools** (also `HarnessAssumption`: questions are about the pack they are asked of, the plan has
at least one signal, and an absent process is no process).

    HarnessTypes == EngineSide /\ NetworkSide /\ PaySide /\ job \in Assignment /\ ... /\ \A t \in Process : Local(job[t], tool[t])

`EngineSide` is the invariant of the engine and of the life cycle, which every call of a tool keeps
because it is a step of `DecisionEngine`, or a new installation.  `Local` speaks of one tool at
a time, by its kind: the places it comes to, its tier, and that its records are those of the
tiers that are over, each by the pack of its tier or by none.  Since a receipt is of the model its request names
(`EngineInv`), and the endpoint of `measure_phases.py` refuses a request for another model,
this is what `ReportsAreTrue` says of the measuring tools.

* `OnlyOwn` needs that a tool which started the network finds it up and its own (`StarterInv`), and that
  on a connected network no tool comes further than to look at it (`RemoteInv`).
* For `canister_infer.py`: `Future(p)` says that some tool is still to begin an upload of `p`.  A pack
  that is uploaded once is not in the future when it is uploaded or active (`OnceInv`), and what is
  not in the future stays so.  So an inference by another pack than the one the tool
  looks for afterwards (`Sought`) means that this one is gone, is not coming back, and that `SamePack`
  refuses (`InferTrue`).  A query session looks for the pack it met, and needs no premise.
* `WorkflowGreen`: of two runs with one identity one waits until the other has ended (`TurnInv`).  A run is the only
  one that changes the requests of an executor that answers its identity, and a request that has
  succeeded stays as it is; so what it finds from its second request on is what it left, or an
  executor without requests, over which nothing further passes (`StageTrue`).  That a request
  which has succeeded is booked, and one that was dispatched has all its signals, is in `PaySide`
  (`Counted`).

Proving it showed one definition to be too loose: the cases of `Ready` overlapped, so the prover
could not tell where a tool goes on.

**Query session** (`SessionAssumption`).  `SessionInv` adds that a continuation is always of the
benchmarked pack, that the cap is below the least refused width, and that the failures of a call
are at most its retries and the halvings that led to its width.

**Mock ledger** (`LedgerAssumption`, `CallsAssumption`).  `LedgerInv` says that each booked transfer has
a block of its own below the next one, and that balances and booked debits of an account add
up to what it started with, again as a sum by units.

**Triage** (`TriageAssumption`: the factors are numbers, 1 < `Review` <= `Extreme`).  `TriageInv` says that the
priority so far is what the values looked at so far deserve, as a set: raising it commutes.  `AdviceInv`
says which pieces of evidence have an answer.

**Campaigns** (`CampaignAssumption`, `ScriptAssumption`).  `CampaignInv` relates the report in memory to the
one on disk and both to the packs and modules that were measured; a run goes through
its cases in order, so the rows of a certified report are all cases, each once.

**Packs** (`FilesAssumption`, `NothingAssumption`: an absent file is no file).  `FilesInv` says that what has a name
on disk is a sound pack, and what is being built is the beginning of one: each tensor at the end
of the last, the remaining ones those that follow in the order of names.  That the loader's names
(`expected`) and the writer's order (`ordered`) are the same tensors is a lemma (`OrderedExpected`).

**Side by side** (`RestAssumption`).  `ApartInv` is the invariant of the component that runs and the types of those that rest.

Only model-checked: all liveness (`BookedIsSettled`, `EvaluatingEnds`, `RerunsFinish`, `StartedIsStopped`,
`CampaignEnds`, `FinishCompletes`), because the prover does not handle fairness and ENABLED; and the
disagreement of section 5, which is a counterexample.  The run `standalone` checks its invariants under
`ApartSpec`, the proofs, but for `TypesOK`, under the specification of each component.

## 5. Where code and text disagree

`local_integration.py` ends by stranding a transfer in doubt.  It says of it
(lines 602-604 and 616-617): "The next `--keep-state` run upgrades the canister
with this transfer unresolved, which is the situation `pre_upgrade`/`post_upgrade` exist for."
But `pre_upgrade` (`canisters/executor/src/lib.rs:20`) refuses an upgrade while any transfer is
unresolved.  Run `kept_state` finds a complete run with `--keep`, followed by a `--keep-state` run
whose installation of the executor (line 439) is refused, and no such run gets further.

## 6. Not modelled

* Distributions and calibration (`math.rs`): floating-point functions without state.
* Schemas and rendering: pure functions on text.  What the others need of a
  schema, its key and qtype, is in `DecisionEngine`.
* The inference budget: a fixed table of measured costs.
* Numeric kernels and the tokenizer: no state; arithmetic out of a model checker's reach.
* The encodings: snapshot, continuation and its framing, manifest text.  That a message saves
  everything before it ends is modelled, and so is what a continuation and a manifest say.
* Protocol checks, kernel benchmarks and offline scripts: tests of the tools that are modelled,
  or straight-line programs.
* Exhaustion: requests, operations, windows and cached results are never removed, so the
  limits of the canisters are reached some day.  The guards are modelled; no property forbids
  reaching them, because the code sets them on purpose and has no way to remove anything.
