----------------------------- MODULE TokenClient -----------------------------
(***************************************************************************)
(* The command line client of the token job, infer(stepped) of             *)
(* tools/canister_infer.py, and the users who run it.                      *)
(*                                                                         *)
(* A process starts a job and asks for batch after batch.  A call may be   *)
(* executed and its reply lost, or not be executed; either ends the        *)
(* process, and its user runs the command again with the request id that   *)
(* it printed.  Two processes may use the same id at once: the first was   *)
(* taken for dead.                                                         *)
(***************************************************************************)
EXTENDS TokenInference

CONSTANTS
    Process,
    Ask,        \* Ask[c]: the input that c was given
    Name,       \* Name[c]: its request id
    Widths      \* Widths[c]: values of --steps-per-call that its user tries

ASSUME ProcessAssumption ==
    /\ Ask \in [Process -> Input] /\ Name \in [Process -> RequestId]
    /\ Widths \in [Process -> SUBSET (1..MaxBatch)]
    /\ None \notin Logits

VARIABLE client     \* where each process is

clientVars == <<tokenVars, client>>

Idle == [at |-> "start", step |-> 0, width |-> 1, id |-> None, logits |-> None]

ClientInit == TokenInit /\ client = [c \in Process |-> Idle]
-----------------------------------------------------------------------------
\* The reply is checked against what was asked for: "unexpected batch progress".
Reads(c, step, width, asked) ==
    LET r == answer'.progress
        total == Steps[r.job.bundle] IN
    client' = [client EXCEPT ![c] =
        [at |-> IF r.completed # Least(step + asked, total) THEN "failed"
                ELSE IF r.completed = total THEN "done" ELSE "step",
         step |-> r.completed, width |-> width, id |-> r.job, logits |-> r.logits]]

RunAgain(c) == client' = [client EXCEPT ![c] = Idle]

\* A width of one starts without a batch and without a request id.
SendStart(c, width) ==
    \/ width = 1 /\ StartTokens(Ask[c])
    \/ width > 1 /\ StartBatch(Ask[c], Name[c], width)

StartHeard(c) ==
    /\ client[c].at = "start"
    /\ \E width \in Widths[c] :
         SendStart(c, width) /\ Reads(c, 0, width, IF width = 1 THEN 0 ELSE width)

StartLost(c) ==
    /\ client[c].at = "start"
    /\ \E width \in Widths[c] : SendStart(c, width)
    /\ UNCHANGED client

SendStep(c) == client[c].at = "step" /\ StepTokens(client[c].id, client[c].step, client[c].width)

StepHeard(c) == SendStep(c) /\ Reads(c, client[c].step, client[c].width, client[c].width)

StepLost(c) == SendStep(c) /\ RunAgain(c)

\* The call is refused, or not executed in time.
StepFails(c) == client[c].at = "step" /\ RunAgain(c) /\ UNCHANGED tokenVars

ProcessNext(c) == StartHeard(c) \/ StartLost(c) \/ StepHeard(c) \/ StepLost(c) \/ StepFails(c)

\* The owner's other tools call the engine as well, with any arguments.
ClientNext ==
    \/ TokenNext /\ UNCHANGED client
    \/ \E c \in Process : ProcessNext(c)

ClientSpec == ClientInit /\ [][ClientNext]_clientVars
-----------------------------------------------------------------------------
\* The model is in memory and stays there.
WarmInit ==
    /\ \E p \in Pack :
         /\ upload = [pack |-> p, received |-> Total(p)]
         /\ blob = [i \in 0..Total(p) - 1 |-> CellOf(p, i)]
         /\ activeModel = p
         /\ model = [bundle |-> p, tensors |-> SubSeq(Content[p], 1, Tensors(p))]
         /\ tokenizer = CellOf(p, Tensors(p))
    /\ fixture = FALSE /\ builder = None
    /\ job = None /\ clock = 0 /\ starts = 0 /\ answer = None
    /\ client = [c \in Process |-> Idle]

\* The command is run again until it is through, and replies are not lost for ever.
Persistence(c) == SF_clientVars(StartHeard(c)) /\ SF_clientVars(StepHeard(c))

WarmNext == (TickRound /\ UNCHANGED client) \/ \E c \in Process : ProcessNext(c)

WarmSpec ==
    /\ WarmInit
    /\ [][WarmNext]_clientVars
    /\ \A c \in Process : Persistence(c)
-----------------------------------------------------------------------------
\* A process that ends holds the logits of the input that it was given, computed by one pack,
\* although others ran under the same request id, replaced its job, or replaced the model.
\* None meets "unexpected batch progress": an engine that lost the job, ran it further for
\* someone else, or began it again refuses the request instead.
ClientsGetTheirAnswers ==
    \A c \in Process :
      /\ client[c].at # "failed"
      /\ client[c].at = "done" =>
        /\ client[c].logits # None /\ client[c].logits.input = Ask[c]
        /\ client[c].logits.bundle = client[c].id.bundle
-----------------------------------------------------------------------------
\* A user who runs the command again after each failure gets the answer, from the one job
\* that was started first, if two batches are enough: "--request-id resends the start of the
\* current job; later, only the last request can be repeated".
RerunsFinish == \A c \in Process : <>(client[c].at = "done")
=============================================================================
