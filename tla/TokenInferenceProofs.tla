------------------------ MODULE TokenInferenceProofs -------------------------
(***************************************************************************)
(* Theorems about TokenInference: whichever requests arrive, in whichever  *)
(* order, an answer says exactly what its request asked for, and no job    *)
(* outlives the model that began it; and, of TokenClient, that each client  *)
(* that ends has the logits of its own input.                              *)
(***************************************************************************)
EXTENDS TokenClient, ModelLifecycleProofs

\* What an answer to the request for max phases from phase from says.
Exact(result, from, max) ==
    LET end == Least(from + max, Steps[result.job.bundle]) IN
    /\ IsProgress(result)
    /\ result.completed = end
    /\ result.logits = IF end = Steps[result.job.bundle]
                       THEN [bundle |-> result.job.bundle, input |-> result.job.input] ELSE None

\* The job as begun: by the model in memory, for the pack and the input in its id.
JobBegun(j) ==
    /\ j = [id |-> j.id, session |-> j.session, last |-> j.last,
            lastRequest |-> j.lastRequest, start |-> j.start]
    /\ j.session \in [bundle : Pack, input : Input, next : Nat]
    /\ j.session.next <= Steps[j.session.bundle]
    /\ j.id.bundle = j.session.bundle /\ j.id.input = j.session.input

\* The last answer of a job is that to its last request, and is where its session is.
LastIsExact(j) ==
    \/ j.lastRequest = NoRequest /\ j.last = None /\ j.session.next = 0
    \/ \E from \in Nat, max \in 1..MaxBatch :
         /\ j.lastRequest = <<from, max>> /\ Exact(j.last, from, max)
         /\ j.last.completed = j.session.next /\ j.last.job = j.id

\* The answer to a start is remembered with what the start asked for.
StartIsExact(j) ==
    j.start # None =>
      \E input \in Input, max \in 1..MaxBatch, bundle \in Pack :
        /\ j.start.fingerprint = <<input, max, bundle>> /\ j.start.request \in RequestId
        /\ Exact(j.start.result, 0, max) /\ j.start.result.job.input = input

JobInv ==
    job # None =>
      /\ model # None /\ model.bundle = job.session.bundle
      /\ JobBegun(job) /\ LastIsExact(job) /\ StartIsExact(job)

AnswerInv ==
    answer # None =>
      /\ answer.from \in Nat /\ answer.max \in 0..MaxBatch
      /\ answer.input \in Input \cup {None}
      /\ Exact(answer.progress, answer.from, answer.max)
      /\ answer.input # None => answer.input = answer.progress.job.input

TokenInv ==
    /\ LifecycleInv /\ clock \in 0..MaxTime /\ starts \in 0..MaxStarts
    /\ JobInv /\ AnswerInv
-----------------------------------------------------------------------------
\* A new job is that of the model in memory, and has done nothing.
LEMMA NewJobBegun ==
    ASSUME LifecycleInv, model # None, NEW input \in Input, NEW request, NEW max
    PROVE  LET j == NewJob(input, request, max) IN
           /\ JobBegun(j) /\ j.lastRequest = NoRequest /\ j.last = None /\ j.start = None
           /\ j.session = [bundle |-> model.bundle, input |-> input, next |-> 0]
  <1>1. model.bundle \in Pack  BY DEF LifecycleInv, LifecycleTypeOK
  <1>2. Steps[model.bundle] \in Nat \ {0}  BY <1>1, StepsAssumption
  <1> QED  BY <1>1, <1>2 DEF NewJob, JobId, JobBegun

\* A batch from where the job is does what was asked, and ends no later than the inference.
LEMMA AdvanceIsExact ==
    ASSUME NEW j, JobBegun(j), NEW max \in 1..MaxBatch
    PROVE  /\ JobBegun(Advanced(j, max))
           /\ Advanced(j, max).last = Result(j, max) /\ Advanced(j, max).start = j.start
           /\ Advanced(j, max).id = j.id
           /\ Advanced(j, max).session.bundle = j.session.bundle
           /\ Result(j, max).job = j.id
           /\ Exact(Result(j, max), j.session.next, max)
           /\ LastIsExact(Advanced(j, max))
  <1> DEFINE end == BatchEnd(j, max)
             new == Advanced(j, max)
  <1>1. /\ j.session \in [bundle : Pack, input : Input, next : Nat]
        /\ j.session.next \in Nat /\ j.session.bundle \in Pack /\ j.session.input \in Input
    BY DEF JobBegun
  <1>2. Steps[j.session.bundle] \in Nat /\ max \in Nat
    BY <1>1, StepsAssumption
  <1>3. end \in Nat /\ end <= Steps[j.session.bundle]
        /\ end = Least(j.session.next + max, Steps[j.session.bundle])
    BY <1>1, <1>2 DEF BatchEnd, Least
  <1>4. /\ new = [id |-> j.id, session |-> [j.session EXCEPT !.next = end], last |-> Result(j, max),
                  lastRequest |-> <<j.session.next, max>>, start |-> j.start]
    <2>1. j = [id |-> j.id, session |-> j.session, last |-> j.last,
               lastRequest |-> j.lastRequest, start |-> j.start]
      BY DEF JobBegun
    <2> HIDE DEF end
    <2>2. new = [j EXCEPT !.session = [j.session EXCEPT !.next = end], !.last = Result(j, max),
                          !.lastRequest = <<j.session.next, max>>]
      BY <2>1 DEF Advanced, end
    <2> QED  BY <2>1, <2>2
  <1>5. /\ new.session \in [bundle : Pack, input : Input, next : Nat] /\ new.session.next = end
        /\ new.session.bundle = j.session.bundle /\ new.session.input = j.session.input
    BY <1>1, <1>3, <1>4
  <1>6. JobBegun(new)
    BY <1>3, <1>4, <1>5 DEF JobBegun
  <1>7. /\ Result(j, max).job = j.id /\ Result(j, max).completed = end
        /\ j.id.bundle = j.session.bundle /\ j.id.input = j.session.input
        /\ Result(j, max).logits = IF end = Steps[j.session.bundle]
                THEN [bundle |-> j.session.bundle, input |-> j.session.input] ELSE None
    BY DEF Result, JobBegun
  <1>8. Exact(Result(j, max), j.session.next, max)
    BY <1>1, <1>3, <1>7 DEF Exact, IsProgress, Logits
  <1>9. LastIsExact(new)
    BY <1>1, <1>4, <1>5, <1>7, <1>8 DEF LastIsExact
  <1> QED  BY <1>4, <1>5, <1>6, <1>7, <1>8, <1>9

\* A step of the life cycle keeps the model that a job runs on, or drops the job with it.
LEMMA LifecycleStepKeeps ==
    ASSUME TokenInv, LifecycleStep
    PROVE  TokenInv'
  <1>1. UNCHANGED <<clock, starts, answer>>  BY DEF LifecycleStep
  <1>2. LifecycleNext
    BY DEF LifecycleStep, LifecycleNext
  <1>3. LifecycleInv'  BY <1>2, LifecycleStepHolds DEF TokenInv
  <1>4. AnswerInv'  BY <1>1 DEF TokenInv, AnswerInv
  <1>5. JobInv'
    <2>1. job' = None \/ (job' = job /\ UNCHANGED model) \/ (job' = job /\ WarmupNext)
      BY DEF LifecycleStep, JobDropped, EnableSyntheticFixture, UploadChunk, heap
    <2>2. WarmupNext => model = None
      BY DEF WarmupNext, TokenInv, LifecycleInv, MemoryInv, OneModelInMemory
    <2> QED  BY <2>1, <2>2 DEF TokenInv, JobInv
  <1> QED  BY <1>1, <1>3, <1>4, <1>5 DEF TokenInv

\* A request is answered from the job, by its remembered answer or by an advance.
LEMMA StepKeeps ==
    ASSUME TokenInv, NEW id, NEW expected \in Nat, NEW max \in 1..MaxBatch, StepTokens(id, expected, max)
    PROVE  TokenInv' /\ Exact(answer'.progress, expected, max) /\ answer'.progress.job = id
  <1>1. /\ job # None /\ model # None /\ job.id = id /\ UNCHANGED <<lifecycle, clock, starts>>
        /\ answer' = [input |-> None, from |-> expected, max |-> max, progress |-> job'.last]
    BY DEF StepTokens
  <1>2. JobBegun(job) /\ LastIsExact(job) /\ StartIsExact(job) /\ model.bundle = job.session.bundle
    BY <1>1 DEF TokenInv, JobInv
  <1>3. LifecycleInv' /\ UNCHANGED model
    BY <1>1, StutterKeeps DEF TokenInv, lifecycle, heap
  <1>4. max \in 0..MaxBatch /\ None \notin Input
    BY StepsAssumption
  <1>5. CASE Repeats(expected, max) /\ UNCHANGED job
    <2>1. Exact(job.last, expected, max) /\ job.last.job = job.id
      <3>1. PICK f \in Nat, m \in 1..MaxBatch :
              <<expected, max>> = <<f, m>> /\ Exact(job.last, f, m) /\ job.last.job = job.id
        BY <1>2, <1>5 DEF Repeats, LastIsExact, NoRequest
      <3> QED  BY <3>1
    <2>2. AnswerInv'  BY <1>1, <1>4, <1>5, <2>1 DEF AnswerInv
    <2>3. TokenInv'  BY <1>1, <1>3, <1>5, <2>2 DEF TokenInv, JobInv
    <2> QED  BY <1>1, <1>5, <2>1, <2>3
  <1>6. CASE Continues(expected) /\ job' = Advanced(job, max)
    <2>1. job'.last = Result(job, max) /\ job'.start = job.start /\ job'.session.bundle = job.session.bundle
          /\ JobBegun(job') /\ LastIsExact(job') /\ Exact(job'.last, expected, max)
          /\ job'.last.job = job.id
      BY <1>2, <1>6, AdvanceIsExact DEF Continues
    <2>2. AnswerInv'  BY <1>1, <1>4, <2>1 DEF AnswerInv
    <2>3. JobInv'
      BY <1>1, <1>2, <1>3, <2>1 DEF JobInv, StartIsExact
    <2>4. TokenInv'  BY <1>1, <1>3, <2>2, <2>3 DEF TokenInv
    <2> QED  BY <1>1, <2>1, <2>4
  <1> QED  BY <1>5, <1>6 DEF StepTokens

\* A start without a request id is answered with a job that has done nothing.
LEMMA StartTokensKeeps ==
    ASSUME TokenInv, NEW input \in Input, StartTokens(input)
    PROVE  TokenInv' /\ Exact(answer'.progress, 0, 0) /\ answer'.progress.job.input = input
  <1> DEFINE j == NewJob(input, None, 0)
  <1>1. /\ model # None /\ UNCHANGED <<lifecycle, clock>> /\ starts < MaxStarts /\ starts' = starts + 1
        /\ job' = j /\ answer' = [input |-> input, from |-> 0, max |-> 0, progress |-> Status(job')]
    BY DEF StartTokens
  <1>2. LifecycleInv' /\ UNCHANGED model
    BY <1>1, StutterKeeps DEF TokenInv, lifecycle, heap
  <1>3. /\ JobBegun(j) /\ j.lastRequest = NoRequest /\ j.last = None /\ j.start = None
        /\ j.session = [bundle |-> model.bundle, input |-> input, next |-> 0]
    BY <1>1, NewJobBegun DEF TokenInv
  <1>4. model.bundle \in Pack /\ Steps[model.bundle] \in Nat \ {0}
    BY <1>1, StepsAssumption DEF TokenInv, LifecycleInv, LifecycleTypeOK
  <1>5. Status(j) = [job |-> j.id, completed |-> 0, logits |-> None]
    BY <1>3 DEF Status
  <1>6. j.id.bundle = model.bundle /\ j.id.input = input
    BY <1>3 DEF JobBegun
  <1>7. Exact(Status(j), 0, 0)
    BY <1>4, <1>5, <1>6 DEF Exact, IsProgress, Least
  <1>8. AnswerInv'
    <2>1. 0 \in 0..MaxBatch  BY StepsAssumption
    <2> QED  BY <1>1, <1>5, <1>6, <1>7, <2>1 DEF AnswerInv
  <1>9. JobInv'
    BY <1>1, <1>2, <1>3 DEF JobInv, LastIsExact, StartIsExact
  <1>10. starts' \in 0..MaxStarts
    BY <1>1, StepsAssumption DEF TokenInv
  <1>11. TokenInv'  BY <1>1, <1>2, <1>8, <1>9, <1>10 DEF TokenInv
  <1>12. answer'.progress = Status(j)  BY <1>1
  <1> QED  BY <1>5, <1>6, <1>7, <1>11, <1>12

\* A start with a request id is a new job and its first batch, or the answer remembered for it.
LEMMA StartBatchKeeps ==
    ASSUME TokenInv, NEW input \in Input, NEW request \in RequestId, NEW max \in 1..MaxBatch,
           StartBatch(input, request, max)
    PROVE  TokenInv' /\ Exact(answer'.progress, 0, max) /\ answer'.progress.job.input = input
  <1> DEFINE j == NewJob(input, request, max)
             new == Advanced(j, max)
  <1>1. /\ model # None /\ UNCHANGED <<lifecycle, clock>>
        /\ answer' = [input |-> input, from |-> 0, max |-> max, progress |-> StartAnswer']
    BY DEF StartBatch
  <1>2. LifecycleInv' /\ UNCHANGED model
    BY <1>1, StutterKeeps DEF TokenInv, lifecycle, heap
  <1>3. max \in 0..MaxBatch
    BY StepsAssumption
  <1>4. CASE Replays(input, request, max) /\ UNCHANGED <<job, starts>>
    <2>1. job # None /\ job.start # None /\ job.start.fingerprint = <<input, max, model.bundle>>
      BY <1>4 DEF Replays, IsCurrentStart, Fingerprint
    <2>2. PICK i \in Input, m \in 1..MaxBatch, b \in Pack :
            /\ job.start.fingerprint = <<i, m, b>>
            /\ Exact(job.start.result, 0, m) /\ job.start.result.job.input = i
      BY <2>1 DEF TokenInv, JobInv, StartIsExact
    <2>3. i = input /\ m = max  BY <2>1, <2>2
    <2>4. answer'.progress = job.start.result
      BY <1>1, <1>4 DEF StartAnswer
    <2>5. AnswerInv'
      BY <1>1, <1>3, <2>2, <2>3, <2>4 DEF AnswerInv
    <2>6. TokenInv'  BY <1>1, <1>2, <1>4, <2>5 DEF TokenInv, JobInv
    <2> QED  BY <2>2, <2>3, <2>4, <2>6
  <1>5. CASE /\ starts < MaxStarts /\ starts' = starts + 1
             /\ job' = [new EXCEPT !.start = [request |-> request, result |-> new.last,
                                              fingerprint |-> Fingerprint(input, max)]]
    <2>1. /\ JobBegun(j) /\ j.session = [bundle |-> model.bundle, input |-> input, next |-> 0]
      BY <1>1, NewJobBegun DEF TokenInv
    <2>2. /\ JobBegun(new) /\ new.last = Result(j, max) /\ new.id = j.id
          /\ new.session.bundle = model.bundle /\ Result(j, max).job = j.id
          /\ Exact(Result(j, max), 0, max) /\ LastIsExact(new)
      BY <2>1, AdvanceIsExact
    <2> HIDE DEF new, j
    <2>3. job' = [id |-> new.id, session |-> new.session, last |-> new.last,
                  lastRequest |-> new.lastRequest,
                  start |-> [request |-> request, result |-> new.last,
                             fingerprint |-> Fingerprint(input, max)]]
      BY <1>5, <2>2 DEF JobBegun
    <2>4. JobBegun(job') /\ LastIsExact(job') /\ job'.session.bundle = model.bundle
      BY <2>2, <2>3 DEF JobBegun, LastIsExact
    <2>5. j.id.input = input
      BY <2>1 DEF JobBegun
    <2>6. StartIsExact(job')
      <3>1. model.bundle \in Pack
        BY <1>1 DEF TokenInv, LifecycleInv, LifecycleTypeOK
      <3> QED  BY <2>2, <2>3, <2>5, <3>1 DEF StartIsExact, Fingerprint
    <2>7. answer'.progress = Result(j, max)
      BY <1>1, <2>2, <2>3 DEF StartAnswer
    <2>8. AnswerInv'
      BY <1>1, <1>3, <2>2, <2>5, <2>7 DEF AnswerInv
    <2>9. starts' \in 0..MaxStarts
      BY <1>5, StepsAssumption DEF TokenInv
    <2>10. TokenInv'  BY <1>1, <1>2, <2>4, <2>6, <2>8, <2>9 DEF TokenInv, JobInv
    <2> QED  BY <2>2, <2>5, <2>7, <2>10
  <1> QED  BY <1>4, <1>5 DEF StartBatch

\* Nothing has been asked of a new canister.
LEMMA TokenInitHolds == TokenInit => TokenInv
  BY LifecycleInitHolds, StepsAssumption DEF TokenInit, TokenInv, JobInv, AnswerInv

\* Every message and every round keeps the invariant.
LEMMA TokenStepHolds == TokenInv /\ [TokenNext]_tokenVars => TokenInv'
  <1> SUFFICES ASSUME TokenInv, [TokenNext]_tokenVars PROVE TokenInv'
    OBVIOUS
  <1>1. CASE LifecycleStep  BY <1>1, LifecycleStepKeeps
  <1>2. CASE TickRound
    <2>1. LifecycleInv' /\ UNCHANGED <<model, job, starts, answer>> /\ clock' \in 0..MaxTime
      BY <1>2, StutterKeeps, StepsAssumption DEF TokenInv, TickRound, lifecycle, heap
    <2> QED  BY <2>1 DEF TokenInv, JobInv, AnswerInv
  <1>3. ASSUME NEW input \in Input, StartTokens(input) PROVE TokenInv'  BY <1>3, StartTokensKeeps
  <1>4. ASSUME NEW input \in Input, NEW request \in RequestId, NEW max \in 1..MaxBatch,
               StartBatch(input, request, max)
        PROVE  TokenInv'
    BY <1>4, StartBatchKeeps
  <1>5. ASSUME NEW id, NEW expected \in 0..MaxBatch * 2, NEW max \in 1..MaxBatch,
               StepTokens(id, expected, max)
        PROVE  TokenInv'
    <2>1. expected \in Nat  BY StepsAssumption
    <2> QED  BY <1>5, <2>1, StepKeeps
  <1>6. CASE UNCHANGED tokenVars
    <2>1. LifecycleInv' /\ UNCHANGED <<model, job, clock, starts, answer>>
      BY <1>6, StutterKeeps DEF TokenInv, tokenVars, lifecycle, heap
    <2> QED  BY <2>1 DEF TokenInv, JobInv, AnswerInv
  <1> QED  BY <1>1, <1>2, <1>3, <1>4, <1>5, <1>6 DEF TokenNext

\* The invariant holds throughout.
LEMMA TokenInvariant == TokenSpec => []TokenInv
  <1> QED  BY TokenInitHolds, TokenStepHolds, PTL DEF TokenSpec
-----------------------------------------------------------------------------
\* The variables keep their types; a job never passes the last phase of its model.
THEOREM TokenTypeCorrect == TokenSpec => []TokenTypeOK
  <1>1. TokenInv => TokenTypeOK
    BY DEF TokenInv, LifecycleInv, TokenTypeOK, JobInv, JobBegun, LastIsExact, StartIsExact, AnswerInv, Exact
  <1> QED  BY <1>1, TokenInvariant, PTL

\* An answer, computed or remembered, is that to its request: as many phases, from the same
\* pack and input, however often requests are repeated (lib.rs:254-305).
THEOREM AnswersExact == TokenSpec => []AnswersAreExact
  <1>1. TokenInv => AnswersAreExact
    BY DEF TokenInv, AnswerInv, Exact, AnswersAreExact
  <1> QED  BY <1>1, TokenInvariant, PTL

\* No job outlives the model that began it: begin_upload, start_warmup and an upgrade drop it,
\* and a warm-up under way means that there is none (lib.rs:175, 206).
THEOREM JobsOfHotModel == TokenSpec => []JobOfHotModel
  <1>1. TokenInv => JobOfHotModel
    BY DEF TokenInv, JobInv, JobBegun, JobOfHotModel
  <1> QED  BY <1>1, TokenInvariant, PTL

\* The request that advanced a job last can be asked again, for any batches (lib.rs:254).
THEOREM LastRequestCanBeRepeated == TokenSpec => []LastRequestRepeatable
  <1>1. TokenInv => LastRequestRepeatable
    <2> SUFFICES ASSUME TokenInv, job # None, job.session.next > 0
                 PROVE  /\ job.lastRequest # NoRequest
                        /\ job.session.next = Least(job.lastRequest[1] + job.lastRequest[2],
                                                    Steps[job.session.bundle])
                        /\ job.last.completed = job.session.next
      BY DEF LastRequestRepeatable
    <2>1. PICK from \in Nat, max \in 1..MaxBatch :
            /\ job.lastRequest = <<from, max>> /\ Exact(job.last, from, max)
            /\ job.last.completed = job.session.next /\ job.last.job = job.id
      BY DEF TokenInv, JobInv, LastIsExact
    <2>2. job.id.bundle = job.session.bundle
      BY DEF TokenInv, JobInv, JobBegun
    <2> QED  BY <2>1, <2>2 DEF NoRequest, Exact
  <1> QED  BY <1>1, TokenInvariant, PTL

\* "request_id makes retries of the current job idempotent": no start under the request id of
\* the current job begins another job, whatever its other arguments are (lib.rs:306-330).
THEOREM StartsIdempotent == TokenSpec => StartsAreIdempotent
  <1> DEFINE Idempotent ==
        job # None /\ job' # None /\ job'.id # job.id /\ job'.start # None =>
          job.start = None \/ job'.start.request # job.start.request
  <1>1. ASSUME TokenInv, [TokenNext]_tokenVars PROVE [Idempotent]_tokenVars
    <2>1. CASE LifecycleStep
      BY <2>1 DEF LifecycleStep, JobDropped
    <2>2. CASE TickRound  BY <2>2 DEF TickRound
    <2>3. ASSUME NEW input \in Input, StartTokens(input) PROVE Idempotent
      <3>1. model # None /\ job' = NewJob(input, None, 0)
        BY <2>3 DEF StartTokens
      <3> QED  BY <1>1, <3>1, NewJobBegun DEF TokenInv
    <2>4. ASSUME NEW input \in Input, NEW request \in RequestId, NEW max \in 1..MaxBatch,
                 StartBatch(input, request, max)
          PROVE  Idempotent
      <3> DEFINE new == Advanced(NewJob(input, request, max), max)
      <3>1. CASE UNCHANGED job  BY <3>1
      <3>2. CASE /\ MayStart(input, request, max)
                 /\ job' = [new EXCEPT !.start = [request |-> request, result |-> new.last,
                                                  fingerprint |-> Fingerprint(input, max)]]
        <4>1. model # None  BY <2>4 DEF StartBatch
        <4>2. JobBegun(new)
          BY <1>1, <4>1, NewJobBegun, AdvanceIsExact DEF TokenInv
        <4>3. job'.start.request = request
          BY <3>2, <4>2 DEF JobBegun
        <4> QED  BY <3>2, <4>3 DEF MayStart, IsCurrentStart
      <3> QED  BY <2>4, <3>1, <3>2 DEF StartBatch
    <2>5. ASSUME NEW id, NEW expected, NEW max \in 1..MaxBatch, StepTokens(id, expected, max)
          PROVE  Idempotent
      <3>1. CASE UNCHANGED job  BY <3>1
      <3>2. CASE job' = Advanced(job, max)
        <4>1. job # None  BY <2>5 DEF StepTokens
        <4> QED  BY <1>1, <3>2, <4>1, AdvanceIsExact DEF TokenInv, JobInv
      <3> QED  BY <2>5, <3>1, <3>2 DEF StepTokens
    <2> QED  BY <1>1, <2>1, <2>2, <2>3, <2>4, <2>5 DEF TokenNext
  <1> QED  BY <1>1, TokenInvariant, PTL DEF TokenSpec, StartsAreIdempotent
-----------------------------------------------------------------------------
\* A client that is not at the start knows a job for its own input, how far that has come, and
\* how many phases to ask for; when it is done, it has the logits of that job.
Asked(c) ==
    /\ client[c].at \in {"step", "done"}
    /\ client[c].id.bundle \in Pack /\ client[c].id.input = Ask[c]
    /\ client[c].step \in Nat /\ client[c].width \in 1..MaxBatch
    /\ client[c].at = "done" =>
         client[c].logits = [bundle |-> client[c].id.bundle, input |-> Ask[c]]

ProcessInv == \A c \in Process : client[c] = Idle \/ Asked(c)

ClientInv == TokenInv /\ client = [c \in Process |-> client[c]] /\ ProcessInv

\* The reply to what a client asked for its input passes the client's check.
LEMMA ReadsKeeps ==
    ASSUME ClientInv, TokenInv', NEW c \in Process, NEW step \in Nat, NEW width \in 1..MaxBatch,
           NEW asked \in Nat, Exact(answer'.progress, step, asked),
           answer'.progress.job.input = Ask[c], Reads(c, step, width, asked)
    PROVE  ClientInv'
  <1> DEFINE r == answer'.progress
             total == Steps[r.job.bundle]
             new == [at |-> IF r.completed # Least(step + asked, total) THEN "failed"
                            ELSE IF r.completed = total THEN "done" ELSE "step",
                     step |-> r.completed, width |-> width, id |-> r.job, logits |-> r.logits]
  <1>1. client' = [client EXCEPT ![c] = new] /\ client = [d \in Process |-> client[d]]
    BY DEF Reads, ClientInv
  <1>2. /\ r.completed = Least(step + asked, total) /\ r.completed \in Nat /\ r.job.bundle \in Pack
        /\ r.logits = IF r.completed = total
                      THEN [bundle |-> r.job.bundle, input |-> r.job.input] ELSE None
    BY DEF Exact, IsProgress
  <1>3. /\ new.at \in {"step", "done"} /\ new.id = r.job /\ new.step = r.completed
        /\ new.width = width
        /\ new.at = "done" => new.logits = [bundle |-> r.job.bundle, input |-> r.job.input]
    BY <1>2
  <1> HIDE DEF new
  <1>4. client'[c] = new /\ \A d \in Process : d # c => client'[d] = client[d]
    BY <1>1
  <1>5. Asked(c)'
    BY <1>2, <1>3, <1>4 DEF Asked
  <1>6. ProcessInv'
    <2> SUFFICES ASSUME NEW d \in Process, d # c PROVE (client[d] = Idle \/ Asked(d))'
      BY <1>5 DEF ProcessInv
    <2> QED  BY <1>4 DEF ClientInv, ProcessInv, Asked
  <1>7. client' = [d \in Process |-> client'[d]]
    BY <1>1
  <1> QED  BY <1>6, <1>7 DEF ClientInv

\* What a client sends to start is answered for its input, from the first phase.
LEMMA SendStartAnswers ==
    ASSUME ClientInv, NEW c \in Process, NEW width \in Widths[c], SendStart(c, width)
    PROVE  /\ TokenInv' /\ width \in 1..MaxBatch
           /\ Exact(answer'.progress, 0, IF width = 1 THEN 0 ELSE width)
           /\ answer'.progress.job.input = Ask[c]
  <1>1. Ask[c] \in Input /\ Name[c] \in RequestId /\ width \in 1..MaxBatch
    BY ProcessAssumption
  <1>2. CASE width = 1 /\ StartTokens(Ask[c])
    BY <1>1, <1>2, StartTokensKeeps DEF ClientInv
  <1>3. CASE width > 1 /\ StartBatch(Ask[c], Name[c], width)
    <2>1. width # 1  BY <1>1, <1>3
    <2> QED  BY <1>1, <1>3, <2>1, StartBatchKeeps DEF ClientInv
  <1> QED  BY <1>2, <1>3 DEF SendStart

\* What a client sends next is answered for its input, from the phase where it is.
LEMMA SendStepAnswers ==
    ASSUME ClientInv, NEW c \in Process, SendStep(c)
    PROVE  /\ TokenInv' /\ client[c].step \in Nat /\ client[c].width \in 1..MaxBatch
           /\ Exact(answer'.progress, client[c].step, client[c].width)
           /\ answer'.progress.job.input = Ask[c]
  <1>1. Asked(c)
    BY DEF SendStep, ClientInv, ProcessInv, Idle
  <1> QED  BY <1>1, StepKeeps DEF ClientInv, SendStep, Asked

\* The command is run again from the start.
LEMMA RunAgainKeeps ==
    ASSUME ClientInv, TokenInv', NEW c \in Process, RunAgain(c)
    PROVE  ClientInv'
  <1>1. client' = [client EXCEPT ![c] = Idle] /\ client = [d \in Process |-> client[d]]
    BY DEF RunAgain, ClientInv
  <1>2. client'[c] = Idle /\ \A d \in Process : d # c => client'[d] = client[d]
    BY <1>1
  <1>3. ProcessInv'
    BY <1>2 DEF ClientInv, ProcessInv, Asked
  <1> QED  BY <1>1, <1>3 DEF ClientInv

\* Every message, of the clients and of others, keeps the invariant.
LEMMA ClientStepHolds == ClientInv /\ [ClientNext]_clientVars => ClientInv'
  <1> SUFFICES ASSUME ClientInv, [ClientNext]_clientVars PROVE ClientInv'
    OBVIOUS
  <1>1. ASSUME UNCHANGED client, TokenInv' PROVE ClientInv'
    BY <1>1 DEF ClientInv, ProcessInv, Asked
  <1>2. CASE TokenNext /\ UNCHANGED client
    BY <1>1, <1>2, TokenStepHolds DEF ClientInv
  <1>3. CASE UNCHANGED clientVars
    BY <1>1, <1>3, TokenStepHolds DEF ClientInv, clientVars
  <1>4. ASSUME NEW c \in Process, StartHeard(c) PROVE ClientInv'
    <2>1. PICK width \in Widths[c] :
            SendStart(c, width) /\ Reads(c, 0, width, IF width = 1 THEN 0 ELSE width)
      BY <1>4 DEF StartHeard
    <2> DEFINE asked == IF width = 1 THEN 0 ELSE width
    <2>2. TokenInv' /\ width \in 1..MaxBatch /\ Exact(answer'.progress, 0, asked)
          /\ answer'.progress.job.input = Ask[c]
      BY <2>1, SendStartAnswers
    <2>3. asked \in Nat  BY <2>2
    <2> HIDE DEF asked
    <2>4. Reads(c, 0, width, asked)  BY <2>1 DEF asked
    <2> QED  BY <2>2, <2>3, <2>4, ReadsKeeps
  <1>5. ASSUME NEW c \in Process, StartLost(c) PROVE ClientInv'
    BY <1>1, <1>5, SendStartAnswers DEF StartLost
  <1>6. ASSUME NEW c \in Process, StepHeard(c) PROVE ClientInv'
    <2>1. SendStep(c) /\ Reads(c, client[c].step, client[c].width, client[c].width)
      BY <1>6 DEF StepHeard
    <2> QED  BY <2>1, SendStepAnswers, ReadsKeeps
  <1>7. ASSUME NEW c \in Process, StepLost(c) PROVE ClientInv'
    BY <1>7, SendStepAnswers, RunAgainKeeps DEF StepLost
  <1>8. ASSUME NEW c \in Process, StepFails(c) PROVE ClientInv'
    <2>1. TokenInv'  BY <1>8, TokenStepHolds DEF StepFails, ClientInv
    <2> QED  BY <1>8, <2>1, RunAgainKeeps DEF StepFails
  <1> QED  BY <1>2, <1>3, <1>4, <1>5, <1>6, <1>7, <1>8 DEF ClientNext, ProcessNext

\* The engine and every client start idle.
LEMMA ClientInvariant == ClientSpec => []ClientInv
  <1>1. ClientInit => ClientInv
    BY TokenInitHolds DEF ClientInit, ClientInv, ProcessInv
  <1> QED  BY <1>1, ClientStepHolds, PTL DEF ClientSpec

\* A process that ends holds the logits of the input it was given, computed by one pack, and
\* none meets "unexpected batch progress", whatever other processes and tools call
\* (tools/canister_infer.py:189).
THEOREM ClientsAreAnswered == ClientSpec => []ClientsGetTheirAnswers
  <1>1. ClientInv => ClientsGetTheirAnswers
    <2> SUFFICES ASSUME ClientInv, NEW c \in Process
                 PROVE  /\ client[c].at # "failed"
                        /\ client[c].at = "done" =>
                             /\ client[c].logits # None /\ client[c].logits.input = Ask[c]
                             /\ client[c].logits.bundle = client[c].id.bundle
      BY DEF ClientsGetTheirAnswers
    <2>1. Ask[c] \in Input  BY ProcessAssumption
    <2>2. CASE client[c] = Idle
      BY <2>2 DEF Idle
    <2>3. CASE Asked(c)
      <3>1. [bundle |-> client[c].id.bundle, input |-> Ask[c]] # None
        BY <2>1, <2>3, ProcessAssumption DEF Asked, Logits
      <3> QED  BY <2>3, <3>1 DEF Asked
    <2> QED  BY <2>2, <2>3 DEF ClientInv, ProcessInv
  <1> QED  BY <1>1, ClientInvariant, PTL
=============================================================================
