--------------------------- MODULE TokenInference ----------------------------
(***************************************************************************)
(* The token job of the decision engine: one inference, run a few phases   *)
(* per message and kept in the heap between them                           *)
(* (canisters/decision-engine/src/lib.rs, INFERENCE and its endpoints).    *)
(*                                                                         *)
(* Any request may arrive at any time: late, twice, out of order, or from  *)
(* a client whose job was replaced.  A request that is refused changes     *)
(* nothing and is not an action.                                           *)
(***************************************************************************)
EXTENDS ModelLifecycle

CONSTANTS
    Input,      \* token inputs that pass validate_input
    RequestId,  \* ids that clients choose for a start
    Steps,      \* Steps[p]: phases of an inference by p, inference_steps()
    MaxBatch,   \* phases per message, 16 in the code
    MaxStarts,  \* bound of the model: jobs that are started
    MaxTime     \* bound of the model: the clock stops here

ASSUME StepsAssumption ==
    /\ Steps \in [Pack -> Nat \ {0}] /\ MaxBatch \in Nat \ {0}
    /\ MaxStarts \in Nat /\ MaxTime \in Nat
    /\ None \notin RequestId \cup Input

VARIABLES
    job,        \* INFERENCE
    clock,      \* ic_cdk::api::time
    starts,     \* how many jobs were started
    answer      \* the last answer given: to what request, and what it says

tokenVars == <<lifecycle, job, clock, starts, answer>>

NoRequest == <<>>
Least(a, b) == IF a < b THEN a ELSE b

\* Logits stand for what they are computed from.
Logits == [bundle : Pack, input : Input]
IsProgress(r) ==
    /\ r.completed \in Nat /\ r.logits \in Logits \cup {None}
    /\ r.job.bundle \in Pack /\ r.job.input \in Input

TokenTypeOK ==
    /\ LifecycleTypeOK
    /\ clock \in 0..MaxTime /\ starts \in 0..MaxStarts
    /\ job = None \/
         /\ job.id.bundle \in Pack /\ job.id.input \in Input
         /\ job.session \in [bundle : Pack, input : Input, next : Nat]
         /\ job.session.next <= Steps[job.session.bundle]
         /\ job.last = None \/ IsProgress(job.last)
         /\ job.lastRequest = NoRequest \/
              (job.lastRequest[1] \in Nat /\ job.lastRequest[2] \in 1..MaxBatch)
         /\ job.start = None \/ (job.start.request \in RequestId /\ IsProgress(job.start.result))
    /\ answer = None \/
         /\ answer.from \in Nat /\ answer.max \in 0..MaxBatch
         /\ answer.input \in Input \cup {None} /\ IsProgress(answer.progress)

TokenInit == LifecycleInit /\ job = None /\ clock = 0 /\ starts = 0 /\ answer = None
-----------------------------------------------------------------------------
\* A digest of the pack, the clock, the id of the job that is replaced, and the request.
JobId(input, request, max) ==
    [bundle |-> model.bundle, time |-> clock, input |-> input, request |-> <<request, max>>,
     old |-> IF job = None THEN None ELSE job.id]

NewJob(input, request, max) ==
    [id |-> JobId(input, request, max),
     session |-> [bundle |-> model.bundle, input |-> input, next |-> 0],
     last |-> None, lastRequest |-> NoRequest, start |-> None]

\* The batch ends at the last phase.
BatchEnd(j, max) == Least(j.session.next + max, Steps[j.session.bundle])

Result(j, max) ==
    LET end == BatchEnd(j, max) IN
    [job |-> j.id, completed |-> end,
     logits |-> IF end = Steps[j.session.bundle]
                THEN [bundle |-> j.session.bundle, input |-> j.session.input] ELSE None]

\* (Seeded fault: the request is not remembered, so that its repetition is refused.)
Advanced_Forgetful(j, max) ==
    [j EXCEPT !.session.next = BatchEnd(j, max), !.last = Result(j, max)]
Advanced(j, max) ==
    [j EXCEPT !.session.next = BatchEnd(j, max), !.last = Result(j, max),
              !.lastRequest = <<j.session.next, max>>]

Repeats(expected, max) == job.lastRequest = <<expected, max>>

\* (Seeded fault: a request that comes too late runs from where the job is now.)
Continues_Stale(expected) == job.session.next >= expected /\ job.session.next < Steps[job.session.bundle]
Continues(expected) == job.session.next = expected /\ expected < Steps[job.session.bundle]

\* step_inference refuses a session that another pack began.
SamePack == job.session.bundle = model.bundle

StepTokens(id, expected, max) ==
    /\ max \in 1..MaxBatch
    /\ job # None /\ model # None /\ job.id = id
    /\ \/ Repeats(expected, max) /\ UNCHANGED job
       \/ ~Repeats(expected, max) /\ Continues(expected) /\ SamePack /\ job' = Advanced(job, max)
    /\ answer' = [input |-> None, from |-> expected, max |-> max, progress |-> job'.last]
    /\ UNCHANGED <<lifecycle, clock, starts>>

\* What token_inference_status says of a job.
Status(j) ==
    IF j.last = None THEN [job |-> j.id, completed |-> 0, logits |-> None] ELSE j.last

StartTokens(input) ==
    /\ model # None /\ starts < MaxStarts
    /\ job' = NewJob(input, None, 0) /\ starts' = starts + 1
    /\ answer' = [input |-> input, from |-> 0, max |-> 0, progress |-> Status(job')]
    /\ UNCHANGED <<lifecycle, clock>>

Fingerprint(input, max) == <<input, max, model.bundle>>
IsCurrentStart(request) == job # None /\ job.start # None /\ job.start.request = request

\* A known id is answered as before, or refused.  (Seeded fault: with other contents it starts afresh.)
MayStart_KnownId(input, request, max) ==
    ~(IsCurrentStart(request) /\ job.start.fingerprint = Fingerprint(input, max))
MayStart(input, request, max) == ~IsCurrentStart(request)

\* (Seeded fault: only the id is compared.)
Replays_AnyInput(input, request, max) == IsCurrentStart(request)
Replays(input, request, max) ==
    IsCurrentStart(request) /\ job.start.fingerprint = Fingerprint(input, max)

\* A start that is replayed is answered as it was, however far the job has come since.
StartAnswer == job.start.result

StartBatch(input, request, max) ==
    LET new == Advanced(NewJob(input, request, max), max) IN
    /\ max \in 1..MaxBatch /\ model # None
    /\ \/ Replays(input, request, max) /\ UNCHANGED <<job, starts>>
       \/ /\ MayStart(input, request, max)
          /\ starts < MaxStarts /\ starts' = starts + 1
          /\ job' = [new EXCEPT !.start = [request |-> request, result |-> new.last,
                                           fingerprint |-> Fingerprint(input, max)]]
    /\ answer' = [input |-> input, from |-> 0, max |-> max, progress |-> StartAnswer']
    /\ UNCHANGED <<lifecycle, clock>>
-----------------------------------------------------------------------------
\* A job does not outlive the upload it belongs to.
JobDropped == job' = None

LifecycleStep ==
    /\ \/ (\E p \in Pack : BeginUpload(p)) /\ JobDropped
       \/ StartWarmup /\ JobDropped
       \/ EnableSyntheticFixture /\ UNCHANGED job
       \/ Upgrade /\ job' = None
       \/ WarmupNext /\ UNCHANGED job
       \/ (\E offset \in Offsets, chunk \in Chunks : UploadChunk(offset, chunk)) /\ UNCHANGED job
    /\ UNCHANGED <<clock, starts, answer>>

\* Time passes between rounds of the replica.
TickRound == clock < MaxTime /\ clock' = clock + 1 /\ UNCHANGED <<lifecycle, job, starts, answer>>

\* Ids that clients hold are those of jobs they were told of; only the current one is served.
CurrentId == IF job = None THEN {} ELSE {job.id}

TokenNext ==
    \/ LifecycleStep
    \/ TickRound
    \/ \E input \in Input : StartTokens(input)
    \/ \E input \in Input, request \in RequestId, max \in 1..MaxBatch : StartBatch(input, request, max)
    \/ \E id \in CurrentId, expected \in 0..MaxBatch * 2, max \in 1..MaxBatch : StepTokens(id, expected, max)

TokenSpec == TokenInit /\ [][TokenNext]_tokenVars
-----------------------------------------------------------------------------
\* "Exact retries return the cached result; a stale request cannot advance twice": an
\* answer says what the request asked for, no phase more or less, and its logits come from
\* the pack and the input that the id of the job stands for.
AnswersAreExact ==
    answer # None =>
      LET result == answer.progress
          id == result.job
          end == Least(answer.from + answer.max, Steps[id.bundle]) IN
      /\ result.completed = end
      /\ result.logits = IF end = Steps[id.bundle]
                         THEN [bundle |-> id.bundle, input |-> id.input] ELSE None
      /\ answer.input # None => answer.input = id.input

\* A job lives in memory with the model that began it, and was started under an id that
\* digests this model and its input: neither a replacement of the model nor an upgrade
\* leaves a job behind.
JobOfHotModel ==
    job # None =>
      /\ model # None /\ model.bundle = job.session.bundle
      /\ job.id.bundle = job.session.bundle /\ job.id.input = job.session.input

\* A client that lost an answer can ask again: after an advance, the request that caused it
\* would be answered as it was.
LastRequestRepeatable ==
    job # None /\ job.session.next > 0 =>
      /\ job.lastRequest # NoRequest
      /\ job.session.next = Least(job.lastRequest[1] + job.lastRequest[2], Steps[job.session.bundle])
      /\ job.last.completed = job.session.next
-----------------------------------------------------------------------------
\* "request_id makes retries of the current job idempotent": starting again under the id of
\* the current job never replaces the job, whatever the other arguments are.
StartsAreIdempotent ==
    [][job # None /\ job' # None /\ job'.id # job.id /\ job'.start # None =>
         job.start = None \/ job'.start.request # job.start.request]_tokenVars
=============================================================================
