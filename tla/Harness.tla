------------------------------- MODULE Harness -------------------------------
(***************************************************************************)
(* The tools that drive the canisters on a local network:                  *)
(* measure_inference.py ("measure"), measure_phases.py ("phases"),         *)
(* local_integration.py ("integrate") and canister_infer.py ("infer").     *)
(* Several may run at once, on one network and one decision engine, which  *)
(* is that of DecisionEngine.                                              *)
(*                                                                         *)
(* The executor and the mock ledger, which only "integrate" uses, are what *)
(* that tool observes of them; Payment has them in full.  The owner's time *)
(* stands still: a run is over before its registrations expire.            *)
(***************************************************************************)
EXTENDS DecisionEngine

CONSTANTS
    Process,
    Assignment,     \* assignments of jobs to processes, see Jobs
    ExecutorId,     \* the principal of the executor
    Budgeted,       \* BUNDLE_HASH: the pack whose cost the budget table knows
    Granted,        \* the quota that the tools ask for, 1000 in the code
    Signals,        \* questions of the plan, 3 in the code
    Question,       \* Question[<<use, p>>]: the request that a tool sends about pack p
    Signal          \* Signal[<<n, i>>]: the i-th question of the n-th payment

\* What a process was started with.  route: how "infer" asks, with --max-update-instructions,
\* with --query-stepped or neither.  after: the process that it waits for, if any.
Jobs == [kind : {"measure", "phases", "integrate", "infer"}, identity : Caller, packs : Seq(Pack),
         route : {"plain", "budget", "query"}, keep : BOOLEAN, keepState : BOOLEAN,
         skipUpgrade : BOOLEAN, initialize : BOOLEAN, portFits : BOOLEAN,
         after : Process \cup {None}]

ASSUME HarnessAssumption ==
    /\ Assignment \subseteq [Process -> Jobs]
    /\ \A a \in Assignment : \A t \in Process :   \* "does not match the requested pack"
         a[t].route = "budget" => a[t].packs \in {<<>>, <<Budgeted>>}
    /\ Budgeted \in Pack
    /\ ExecutorId \in Caller /\ Signals \in Nat \ {0} /\ Granted \in PerMinute
    /\ Question \in [{"measure", "phases", "probe"} \X Pack -> Request]
    /\ \A use \in {"measure", "phases", "probe"}, p \in Pack : Question[<<use, p>>].model = p
    /\ Signal \in [(1..2) \X (1..Signals) -> Request]
    /\ Process # {} /\ NoBundle \notin Pack /\ None \notin Process \cup Caller

VARIABLES
    job,
    network,        \* the replica: up, started locally, and by whom
    canister,       \* the decision engine as the management canister knows it
    pay,            \* executor and ledger
    tool            \* where each process is; left: it ended without its finally block, or
                    \* the stop in it failed

harnessVars == <<engineVars, job, network, canister, pay, tool>>

NoCanister == [controller |-> None, installed |-> FALSE]
NoPayments == [controller |-> None, installed |-> FALSE, requests |-> <<>>]

Outside == {"begin", "look", "start", "port"}
InTier == {"upload", "chunk", "warm", "warming", "schemas", "calibrate", "measure", "probe"}
InWorkflow == {"executor", "fixture", "submit", "advance", "dispatch", "retry", "guard"}
Places == Outside \cup InTier \cup InWorkflow \cup
          {"provision", "install", "admit", "read", "infer", "name", "report", "stopping", "ended"}

HarnessTypeOK ==
    /\ EngineTypeOK
    /\ network.up \in BOOLEAN /\ network.starter \in Process \cup {None}
    /\ canister.controller \in Caller \cup {None}
    /\ canister.installed => canister.controller # None
    /\ \A i \in DOMAIN pay.requests :
         /\ pay.requests[i].status \in {"Received", "Evaluating", "NeedsReview", "ReadyToDispatch",
                                        "OutcomeUnknown", "Succeeded", "FailedDefinitive"}
         /\ pay.requests[i].answered \in 0..Signals /\ pay.requests[i].booked \in BOOLEAN
    /\ \A t \in Process :
         /\ tool[t].at \in Places /\ tool[t].tier \in 1..(Len(job[t].packs) + 1)
         /\ tool[t].at \in InTier /\ job[t].kind # "integrate" => tool[t].tier <= Len(job[t].packs)

\* A network is local, or a connected one on which the operator has an engine already.
HarnessInit ==
    /\ EngineInit
    /\ job \in Assignment
    /\ \E managed \in BOOLEAN, up \in BOOLEAN :
         /\ network = [up |-> up \/ ~managed, managed |-> managed, starter |-> None]
         /\ canister = IF managed THEN NoCanister
                       ELSE [controller |-> job[CHOOSE t \in Process : TRUE].identity, installed |-> TRUE]
    /\ pay = NoPayments
    /\ tool = [t \in Process |->
                 [at |-> "begin", here |-> FALSE, tier |-> 1, count |-> 0, asked |-> 0, by |-> None,
                  before |-> None, results |-> <<>>, passed |-> FALSE, left |-> FALSE]]

Unmoved == UNCHANGED <<job, network, canister, pay>>
NoEngineStep == UNCHANGED engineVars

Goes(t, place) == tool' = [tool EXCEPT ![t].at = place]

PackOf(t) == job[t].packs[tool[t].tier]
-----------------------------------------------------------------------------
(* The network.  A status call may also fail, and then says nothing.       *)

\* require_local_network
RequireLocal(t) ==
    /\ tool[t].at = "begin"
    /\ job[t].after # None => tool[job[t].after].at = "ended"
    /\ \E heard \in BOOLEAN :
         Goes(t, IF heard /\ network.up /\ ~network.managed THEN "ended" ELSE "look")
    /\ NoEngineStep /\ Unmoved

\* Where "infer" goes on when its pack is loaded: only the budget is looked up first.
Asks(t) == IF job[t].route = "budget" THEN "read" ELSE "infer"

\* Where a tool goes on when it has a network.
Ready(t) ==
    CASE job[t].kind = "integrate" -> "port"
      [] job[t].kind \in {"measure", "phases"} -> "provision"
      [] job[t].kind = "infer" -> IF job[t].initialize THEN "provision"
                                  ELSE IF job[t].packs = <<>> THEN Asks(t) ELSE "upload"

\* network_status
Usable == network.up /\ network.managed

\* (Seeded fault: the tool does not look whether the network was up.)
StartedHere_Always(usable) == TRUE
StartedHere(usable) == ~usable

Look(t) ==
    /\ tool[t].at = "look"
    /\ \E heard \in BOOLEAN :
         tool' = [tool EXCEPT ![t].here = job[t].kind # "infer" /\ StartedHere(heard /\ Usable),
                              ![t].at = IF heard /\ Usable THEN Ready(t)
                                        ELSE IF job[t].kind = "infer" THEN "ended" ELSE "start"]
    /\ NoEngineStep /\ Unmoved

\* The replica that is started is new; a connected network cannot be started.
FreshEngine ==
    /\ fixture' = FALSE /\ upload' = None /\ blob' = <<>> /\ activeModel' = NoBundle
    /\ tokenizer' = None /\ builder' = None /\ model' = None
    /\ schemas' = EmptyMap /\ calibrations' = {} /\ callers' = EmptyMap /\ cache' = EmptyMap
    /\ reply' = None /\ spent' = [c \in Caller |-> 0] /\ runs' = EmptyMap
    /\ UNCHANGED clock

StartNetwork(t) ==
    /\ tool[t].at = "start" /\ network.managed /\ ~network.up
    /\ network' = [network EXCEPT !.up = TRUE, !.starter = t]
    /\ canister' = NoCanister /\ pay' = NoPayments /\ FreshEngine
    /\ Goes(t, Ready(t))
    /\ UNCHANGED job

\* --port only asserts, before the try block; a network just started is asked for its port.
CheckPort(t) ==
    /\ tool[t].at = "port"
    /\ \E heard \in BOOLEAN :
         /\ heard \/ tool[t].here
         /\ IF heard /\ job[t].portFits THEN Goes(t, "provision")
            ELSE tool' = [tool EXCEPT ![t].at = "ended", ![t].left = TRUE]
    /\ NoEngineStep /\ Unmoved

\* The finally block.  A stop that fails is not looked at.
StopNetwork(t) ==
    LET due == tool[t].here /\ ~job[t].keep IN
    /\ tool[t].at = "stopping"
    /\ \E stops \in BOOLEAN :
         /\ network' = [network EXCEPT !.up = @ /\ ~(due /\ stops)]
         /\ tool' = [tool EXCEPT ![t].at = "ended", ![t].left = due /\ ~stops]
    /\ NoEngineStep /\ UNCHANGED <<job, canister, pay>>
-----------------------------------------------------------------------------
(* The engine is installed.                                                *)

\* ensure_identity, ensure_cycles, ensure_canister: whoever creates a canister controls it.
Provision(t) ==
    /\ tool[t].at = "provision" /\ network.up
    /\ canister' = IF canister.controller # None THEN canister
                   ELSE [canister EXCEPT !.controller = job[t].identity]
    /\ pay' = IF pay.controller # None \/ job[t].kind # "integrate" THEN pay
              ELSE [pay EXCEPT !.controller = job[t].identity]
    /\ Goes(t, "install")
    /\ NoEngineStep /\ UNCHANGED <<job, network>>

InstallMode(t) ==
    CASE job[t].kind = "infer" -> "install"
      [] job[t].kind = "integrate" /\ job[t].keepState -> "upgrade"
      [] OTHER -> "reinstall"

Install(t) ==
    /\ tool[t].at = "install" /\ network.up /\ canister.controller = job[t].identity
    /\ \/ InstallMode(t) = "reinstall" /\ FreshEngine
       \/ InstallMode(t) = "install" /\ ~canister.installed /\ FreshEngine
       \/ InstallMode(t) = "upgrade" /\ canister.installed /\ Upgrade /\ UNCHANGED <<core, clock>> /\ Quiet
    /\ canister' = [canister EXCEPT !.installed = TRUE]
    /\ Goes(t, CASE job[t].kind = "integrate" -> "executor"
                 [] job[t].kind = "infer" -> (IF job[t].packs = <<>> THEN Asks(t) ELSE "upload")
                 [] OTHER -> "admit")
    /\ UNCHANGED <<job, network, pay>>

\* The canister answers its owner, who installed it, while it runs.
Owned(t) == network.up /\ canister.installed /\ canister.controller = job[t].identity

\* When the caller is admitted, tiers follow, or the questions of the plan.
Admit(t) ==
    /\ tool[t].at = "admit" /\ Owned(t)
    /\ AllowCaller(IF job[t].kind = "integrate" THEN ExecutorId ELSE job[t].identity, Granted)
    /\ Goes(t, IF job[t].kind = "integrate" THEN "schemas"
               ELSE IF job[t].packs = <<>> THEN "report" ELSE "upload")
    /\ Unmoved
-----------------------------------------------------------------------------
(* A pack is uploaded and warmed up.                                       *)

EngineOnly == UNCHANGED <<core, clock>> /\ Quiet

BeginsUpload(t) ==
    /\ tool[t].at = "upload" /\ Owned(t)
    /\ BeginUpload(PackOf(t)) /\ EngineOnly
    /\ tool' = [tool EXCEPT ![t].at = "chunk", ![t].count = 0]
    /\ Unmoved

\* upload_chunk; a chunk that is there already is compared.
SendsChunk(t) ==
    LET i == tool[t].count
        cell == CellOf(PackOf(t), i) IN
    /\ tool[t].at = "chunk" /\ Owned(t) /\ upload # None
    /\ \/ UploadChunk(i, <<cell>>)
       \/ i < upload.received /\ blob[i] = cell /\ UNCHANGED lifecycle
    /\ EngineOnly
    /\ tool' = [tool EXCEPT ![t].count = i + 1,
                            ![t].at = IF i + 1 = Total(PackOf(t)) THEN "warm" ELSE "chunk"]
    /\ Unmoved

StartsWarmup(t) ==
    /\ tool[t].at = "warm" /\ Owned(t) /\ upload # None
    /\ StartWarmup /\ EngineOnly
    /\ tool' = [tool EXCEPT ![t].at = "warming", ![t].count = 0]
    /\ Unmoved

\* Until the engine says that the model is complete; "infer" counts the tensors as well.
WarmsNext(t) ==
    LET loaded == tool[t].count + 1
        expected == job[t].kind # "infer" \/ loaded = Tensors(PackOf(t)) IN
    /\ tool[t].at = "warming" /\ Owned(t) /\ builder # None
    /\ WarmupNext /\ EngineOnly
    /\ tool' = [tool EXCEPT ![t].count = loaded,
                            ![t].at = IF builder' # None THEN "warming"
                                      ELSE IF job[t].kind # "infer" THEN "schemas"
                                      ELSE IF expected THEN Asks(t) ELSE "ended"]
    /\ Unmoved
-----------------------------------------------------------------------------
(* Questions are registered and asked.                                     *)

\* The bundle that a tool registers for.
BundleOf(t) == IF job[t].kind = "integrate" THEN Synthetic ELSE PackOf(t)

RegistersSchema(t) ==
    /\ tool[t].at = "schemas" /\ Owned(t)
    /\ \E s \in Schema, qtype \in {Qtype[p] : p \in Pack} : RegisterSchema(s, qtype)
    /\ Goes(t, "calibrate") /\ Unmoved

RegistersCalibration(t) ==
    /\ tool[t].at = "calibrate" /\ Owned(t)
    /\ \E k \in Calibration : Calibrated[k].model = BundleOf(t) /\ RegisterCalibration(k)
    /\ tool' = [tool EXCEPT ![t].at = IF job[t].kind = "integrate" THEN "submit" ELSE "measure",
                            ![t].count = 0, ![t].asked = 0]
    /\ Unmoved

\* A record of the tier is kept and the next tier begins.  (Seeded fault: one tier
\* too many.)
Recorded_OneMore(t, result) ==
    tool' = [tool EXCEPT ![t].results = Append(@, result), ![t].tier = @ + 1, ![t].by = None,
                         ![t].at = IF tool[t].tier > Len(job[t].packs) THEN "report" ELSE "upload"]
Recorded(t, result) ==
    tool' = [tool EXCEPT ![t].results = Append(@, result), ![t].tier = @ + 1, ![t].by = None,
                         ![t].at = IF tool[t].tier = Len(job[t].packs) THEN "report" ELSE "upload"]

\* measure_inference asks the engine; an answer that cannot be read is recorded as such.
MeasuresEvaluation(t) ==
    /\ tool[t].at = "measure" /\ job[t].kind = "measure" /\ network.up
    /\ Evaluate(job[t].identity, Question[<<"measure", PackOf(t)>>])
    /\ Recorded(t, [pack |-> PackOf(t), by |-> IF reply'.result.ok THEN reply'.result.by ELSE None])
    /\ Unmoved

\* The endpoint measure_phases checks a request as evaluate does, up to the model in memory.
Profiles(q) ==
    LET k == Calibrated[q.calibration] IN
    /\ MappingHolds(q.key) /\ q.model = activeModel /\ model # None
    /\ clock < q.expires /\ q.expires - clock <= Horizon
    /\ q.calibration # None =>
         /\ q.calibration \in calibrations /\ clock < k.expires
         /\ k.model = q.model /\ k.key = q.key /\ q.expires <= k.expires

MeasuresPhases(t) ==
    /\ tool[t].at = "measure" /\ job[t].kind = "phases" /\ Owned(t)
    /\ Profiles(Question[<<"phases", PackOf(t)>>])
    /\ tool' = [tool EXCEPT ![t].at = "probe", ![t].by = model.bundle]
    /\ NoEngineStep /\ Unmoved

\* The number of tokens comes from an evaluation of its own; without it nothing is derived.
Probes(t) ==
    /\ tool[t].at = "probe" /\ network.up
    /\ Evaluate(job[t].identity, Question[<<"probe", PackOf(t)>>])
    /\ Recorded(t, [pack |-> PackOf(t), by |-> IF reply'.result.ok THEN tool[t].by ELSE None])
    /\ Unmoved

WritesReport(t) ==
    /\ tool[t].at = "report"
    /\ tool' = [tool EXCEPT ![t].at = "stopping", ![t].passed = TRUE]
    /\ NoEngineStep /\ Unmoved
-----------------------------------------------------------------------------
(* canister_infer asks for one inference and names the pack that made it.  *)

\* "cannot route budgeted inference": the table holds for one pack only.
ReadsActive(t) ==
    /\ tool[t].at = "read" /\ Owned(t) /\ activeModel = Budgeted
    /\ tool' = [tool EXCEPT ![t].at = "infer", ![t].before = activeModel]
    /\ NoEngineStep /\ Unmoved

Infers(t) ==
    /\ tool[t].at = "infer" /\ Owned(t) /\ model # None
    /\ tool' = [tool EXCEPT ![t].at = "name", ![t].by = model.bundle]
    /\ NoEngineStep /\ Unmoved

\* What is compared with the pack that is active afterwards depends on how the tool was
\* called; a plain inference without --pack compares nothing.  (Seeded fault: nor does one
\* with --pack.)
SamePack_NoManifest(t) ==
    /\ job[t].route = "budget" => activeModel = tool[t].before
    /\ job[t].route = "query" => activeModel = tool[t].by
SamePack(t) ==
    /\ job[t].route = "budget" => activeModel = tool[t].before
    /\ job[t].route = "query" => activeModel = tool[t].by
    /\ job[t].packs # <<>> => activeModel = PackOf(t)

Names(t) ==
    /\ tool[t].at = "name" /\ Owned(t) /\ SamePack(t)
    /\ tool' = [tool EXCEPT ![t].at = "ended", ![t].passed = TRUE,
                            ![t].results = <<[pack |-> activeModel, by |-> tool[t].by]>>]
    /\ NoEngineStep /\ Unmoved
-----------------------------------------------------------------------------
(* The workflow of local_integration.                                      *)

Unresolved == \E i \in DOMAIN pay.requests : pay.requests[i].status = "OutcomeUnknown"

\* The executor answers the owner of the run that installed it.
Paid(t) == network.up /\ pay.installed /\ pay.controller = job[t].identity

\* What committed_transfers counts.
Committed(requests) == Cardinality({i \in DOMAIN requests : requests[i].booked})

\* An upgrade interrupts what waits for an answer.
Upgraded == [pay EXCEPT !.requests =
    [i \in DOMAIN @ |-> IF @[i].status = "Evaluating" THEN [@[i] EXCEPT !.status = "NeedsReview"]
                        ELSE @[i]]]

\* pre_upgrade of the executor traps over an unresolved transfer.
InstallsExecutor(t) ==
    /\ tool[t].at = "executor" /\ network.up /\ pay.controller = job[t].identity
    /\ \/ ~job[t].keepState /\ pay' = [pay EXCEPT !.installed = TRUE, !.requests = <<>>]
       \/ job[t].keepState /\ pay.installed /\ ~Unresolved /\ pay' = Upgraded
    /\ Goes(t, "fixture")
    /\ NoEngineStep /\ UNCHANGED <<job, network, canister>>

EnablesFixture(t) ==
    /\ tool[t].at = "fixture" /\ Owned(t)
    /\ EnableSyntheticFixture /\ EngineOnly
    /\ Goes(t, "admit") /\ Unmoved

\* The refused submissions before the first one need its nonce unused, and leave it so.  A
\* nonce that was used answers with its request, and one cannot be left out.
Submits(t) ==
    LET n == tool[t].count + 1
        fresh == [status |-> "Received", answered |-> 0, booked |-> FALSE] IN
    /\ tool[t].at = "submit" /\ Paid(t)
    /\ n <= Len(pay.requests) + 1
    /\ n = 1 => pay.requests = <<>>
    /\ pay' = IF n \in DOMAIN pay.requests THEN pay ELSE [pay EXCEPT !.requests = Append(@, fresh)]
    /\ tool' = [tool EXCEPT ![t].at = "advance", ![t].asked = 0]
    /\ NoEngineStep /\ UNCHANGED <<job, network, canister>>

\* Each advance() has the engine answer one signal; a request with fewer is not dispatched.
Judges(r) ==
    [r EXCEPT !.answered = @ + 1,
              !.status = IF r.answered + 1 = Signals THEN "ReadyToDispatch" ELSE "Received"]

\* A call of the engine that brings no answer may be repeated once.
Lost(r) == [r EXCEPT !.status = IF @ = "Received" THEN "Evaluating" ELSE "NeedsReview"]

\* The answer to advance number k of request n: the first of all is not looked at, but what it
\* leaves is, and so is what the last one of the first request leaves.
AdvanceHolds(n, k, err, r) ==
    /\ err => n = 1 /\ k = 1
    /\ n = 1 /\ k = 1 => r.status # "ReadyToDispatch"
    /\ n = 1 /\ k = Signals => r.status = "ReadyToDispatch"

\* The request becomes r, with an error for an answer or not.
Advanced(t, r, err) ==
    LET n == tool[t].count + 1
        k == tool[t].asked + 1
        next == IF k = Signals THEN "dispatch" ELSE "advance" IN
    /\ pay' = [pay EXCEPT !.requests[n] = r]
    /\ tool' = [tool EXCEPT ![t].asked = k,
                            ![t].at = IF AdvanceHolds(n, k, err, r) THEN next ELSE "stopping"]

Advances(t) ==
    LET n == tool[t].count + 1
        r == pay.requests[n]
        asking == r.status \in {"Received", "Evaluating"} IN
    /\ tool[t].at = "advance" /\ Paid(t) /\ n \in DOMAIN pay.requests
    /\ \/ /\ asking /\ Evaluate(ExecutorId, Signal[<<n, r.answered + 1>>])
          /\ \/ reply'.result.ok /\ Advanced(t, Judges(r), FALSE)
             \/ Advanced(t, [r EXCEPT !.status = "NeedsReview"], FALSE)
             \/ Advanced(t, Lost(r), TRUE)
       \/ /\ NoEngineStep
          /\ \/ asking /\ Advanced(t, Lost(r), TRUE)
             \/ Advanced(t, r, TRUE)
    /\ UNCHANGED <<job, network, canister>>

\* What a dispatch can leave of request r: it was refused; the ledger booked it and the reply
\* was lost, as the fault CommitThenCallbackTrap has it; it did not, or refused for good.
DispatchLeaves(r) ==
    {r} \cup (IF r.status # "ReadyToDispatch" THEN {}
              ELSE {[r EXCEPT !.status = "OutcomeUnknown", !.booked = b] : b \in BOOLEAN}
                   \cup {[r EXCEPT !.status = "FailedDefinitive"]})

\* (Seeded fault: that the request is not in Submitted is enough.)
LooksUnknown_NotSubmitted(r) == r.status # "Submitted"
LooksUnknown(r) == r.status = "OutcomeUnknown"

\* The answer is not looked at, only the request, and the ledger for the first one.  Over the
\* second one ALL CHECKS PASSED is said, before the upgrade guard is checked.
Dispatches(t) ==
    LET n == tool[t].count + 1
        r == pay'.requests[n]
        next == IF n = 1 THEN "retry" ELSE IF job[t].skipUpgrade THEN "stopping" ELSE "guard"
        holds == LooksUnknown(r) /\ (n = 1 => Committed(pay'.requests) = 1) IN
    /\ tool[t].at = "dispatch" /\ Paid(t) /\ n \in DOMAIN pay.requests
    /\ \E left \in DispatchLeaves(pay.requests[n]) : pay' = [pay EXCEPT !.requests[n] = left]
    /\ tool' = [tool EXCEPT ![t].at = IF holds THEN next ELSE "stopping",
                            ![t].passed = n = 2 /\ holds]
    /\ NoEngineStep /\ UNCHANGED <<job, network, canister>>

\* What sending the same payload again can leave of request r: it settles it, or does not.
RetryLeaves(r) ==
    {r} \cup (IF r.status # "OutcomeUnknown" THEN {}
              ELSE {[r EXCEPT !.status = "Succeeded", !.booked = TRUE], [r EXCEPT !.booked = TRUE]})

Retries(t) ==
    /\ tool[t].at = "retry" /\ Paid(t) /\ pay.requests # <<>>
    /\ \E left \in RetryLeaves(pay.requests[1]) : pay' = [pay EXCEPT !.requests[1] = left]
    /\ IF pay'.requests[1].status = "Succeeded" /\ Committed(pay'.requests) = 1
       THEN tool' = [tool EXCEPT ![t].at = "submit", ![t].count = 1]
       ELSE Goes(t, "stopping")
    /\ NoEngineStep /\ UNCHANGED <<job, network, canister>>

\* verify_upgrade_guard asks for an upgrade that should be refused; if it is not, that is all.
ChecksGuard(t) ==
    /\ tool[t].at = "guard" /\ Paid(t)
    /\ pay' = IF Unresolved THEN pay ELSE Upgraded
    /\ Goes(t, "stopping")
    /\ NoEngineStep /\ UNCHANGED <<job, network, canister>>
-----------------------------------------------------------------------------
\* Any call fails, or is refused, or a check does.  A failure in a tier is recorded, unless it
\* is of a class that is not caught; others unwind through the finally block, if it was entered.
\* (Seeded fault: they do not.)
Unwinds_NoFinally(t) == "ended"
Unwinds(t) == IF tool[t].at \in Outside \/ job[t].kind = "infer" THEN "ended" ELSE "stopping"

Fails(t) ==
    /\ tool[t].at \notin {"begin", "look", "port", "stopping", "ended"}
    /\ \/ Goes(t, Unwinds(t))
       \/ /\ tool[t].at \in InTier /\ job[t].kind \in {"measure", "phases"}
          /\ Recorded(t, [pack |-> PackOf(t), by |-> None])
    /\ NoEngineStep /\ Unmoved

\* The process is killed; nothing is cleaned up.
Killed(t) ==
    /\ tool[t].at # "ended"
    /\ tool' = [tool EXCEPT ![t].at = "ended", ![t].left = TRUE]
    /\ NoEngineStep /\ Unmoved

Proceeds(t) ==
    \/ RequireLocal(t) \/ Look(t) \/ StartNetwork(t) \/ CheckPort(t) \/ StopNetwork(t)
    \/ Provision(t) \/ Install(t) \/ Admit(t)
    \/ BeginsUpload(t) \/ SendsChunk(t) \/ StartsWarmup(t) \/ WarmsNext(t)
    \/ RegistersSchema(t) \/ RegistersCalibration(t)
    \/ MeasuresEvaluation(t) \/ MeasuresPhases(t) \/ Probes(t) \/ WritesReport(t)
    \/ ReadsActive(t) \/ Infers(t) \/ Names(t)
    \/ InstallsExecutor(t) \/ EnablesFixture(t)
    \/ Submits(t) \/ Advances(t) \/ Dispatches(t) \/ Retries(t) \/ ChecksGuard(t)
    \/ Fails(t)

HarnessNext == \E t \in Process : Proceeds(t) \/ Killed(t)

\* Every call returns or fails in its time.
HarnessSpec ==
    /\ HarnessInit /\ [][HarnessNext]_harnessVars
    /\ \A t \in Process : WF_harnessVars(Proceeds(t))
-----------------------------------------------------------------------------
\* Of all processes one uploads pack p, and once.
LoadedOnce(p) ==
    \A u, v \in Process : \A i \in DOMAIN job[u].packs, j \in DOMAIN job[v].packs :
      /\ job[u].kind # "integrate" /\ job[u].packs[i] = p
      /\ job[v].kind # "integrate" /\ job[v].packs[j] = p
      => u = v /\ i = j

\* What "infer" looks for it can miss: that its pack was replaced and loaded again.  Plain and
\* without --pack it names the pack that is active afterwards, and vouches for nothing.
Vouches(t) ==
    CASE job[t].kind # "infer" \/ job[t].route = "query" -> TRUE
      [] job[t].route = "budget" -> LoadedOnce(Budgeted)
      [] OTHER -> job[t].packs # <<>> /\ LoadedOnce(job[t].packs[1])

\* What a tool vouches for was computed by the pack it is reported of, although others reinstall
\* the engine, replace the pack, mix their chunks with its own, or stop the network.
MeasuredOnItsPack ==
    \A t \in Process :
      Vouches(t) =>
        \A i \in DOMAIN tool[t].results : tool[t].results[i].by \in {None, tool[t].results[i].pack}

\* An artifact has one record of each tier, in order, whatever failed.
ReportsCoverTiers ==
    \A t \in Process :
      tool[t].passed /\ job[t].kind \in {"measure", "phases"} =>
        [i \in DOMAIN tool[t].results |-> tool[t].results[i].pack] = job[t].packs

\* An artifact is what it says, whatever else runs on the engine and whichever tiers fail.
ReportsAreTrue == ReportsCoverTiers /\ MeasuredOnItsPack

\* Every tool ends, without waiting for another process to do so, and a network that it started
\* does not outlive it, unless it was told to keep it or never came to its finally block.
StartedIsStopped ==
    \A t \in Process :
      job[t].after = None =>
        <>[](/\ tool[t].at = "ended"
             /\ ~tool[t].left /\ ~job[t].keep =>
                  ~(network.up /\ network.starter = t))

\* "Do not stop a network that we did not start: another project may be using it".
OthersNetworkStays ==
    [][network.up /\ ~network'.up =>
         \E t \in Process : network.starter = t /\ tool'[t] # tool[t]]_harnessVars

\* "Refuse anything that could touch a real network", also when a status call fails.
RemoteUntouched ==
    [][~network.managed => UNCHANGED <<network, canister, pay, engineVars>>]_harnessVars

\* A tool stops and changes only networks that it may.
OnlyOwnNetworks == OthersNetworkStays /\ RemoteUntouched

\* A run reinstalls the canisters, also those of a run with the same identity: they take turns.
IntegrationsAlone ==
    \A a \in Assignment : \A t, u \in Process :
      /\ t # u /\ a[t].kind = "integrate" /\ a[u].kind = "integrate"
      /\ a[t].identity = a[u].identity
      => a[t].after = u \/ a[u].after = t

\* ALL CHECKS PASSED is said only over a first request that is paid and has succeeded, and a
\* second one whose outcome is unknown, both with all their signals, whichever calls failed or
\* were lost and whatever other runs left or try meanwhile.
GreenIsTrue ==
    [][\A t \in Process :
         job[t].kind = "integrate" /\ tool'[t].passed /\ ~tool[t].passed =>
           LET requests == pay'.requests IN
           /\ Len(requests) = 2
           /\ requests[1].status = "Succeeded" /\ requests[1].booked
           /\ requests[2].status = "OutcomeUnknown"
           /\ \A i \in 1..2 : requests[i].answered = Signals]_harnessVars

\* A run with --keep-state finds an executor that it can upgrade: "The next --keep-state run
\* upgrades the canister with this transfer unresolved".
KeptStateUpgrades ==
    \A t \in Process :
      job[t].keepState /\ tool[t].at = "executor" /\ network.up /\ pay.installed => ~Unresolved
=============================================================================
