---------------------------- MODULE QuerySession ----------------------------
(***************************************************************************)
(* An inference whose state is held by the client, QuerySession of         *)
(* tools/client_held_query.py, against the query endpoints of the decision *)
(* engine.  Each query runs some phases and returns the whole continuation *)
(* to the client; the engine keeps nothing, and its owner may replace the  *)
(* model, or upgrade the engine, between two queries.                      *)
(*                                                                         *)
(* A continuation is the record of its header: the pack that made it and   *)
(* the phases completed; "by" adds the packs that computed it.             *)
(***************************************************************************)
EXTENDS Integers

CONSTANTS
    Bundle,         \* packs that the owner installs
    Benchmarked,     \* AUTO_BUNDLE, QUERY_BENCHMARKED_BUNDLE
    Phases,         \* Phases[b]: inference_steps() of the pack
    Unset,
    Asked           \* inputs and options of a session: see SessionAssumption

CONSTANT Retries    \* retries

\* What a client holds between two queries.
Continuation ==
    [done : BOOLEAN, completed : Nat, total : Nat, bundle : Bundle, by : SUBSET Bundle]

ASSUME SessionAssumption ==
    /\ Benchmarked \in Bundle /\ Unset \notin Bundle \cup Continuation
    /\ Phases \in [Bundle -> Nat \ {0}] /\ Phases[Benchmarked] = 32
    /\ Asked \subseteq [tokens : 1..128, mode : {"f32", "int8"}, steps : 1..16 \cup {Unset}]
    /\ Retries \in Nat

VARIABLES
    hot,            \* the pack in the memory of the engine
    asked,          \* what the session was created for
    session,        \* what its object holds
    call            \* the call of advance() under way

queryVars == <<hot, asked, session, call>>

Least(a, b) == IF a < b THEN a ELSE b

auto == asked.steps = Unset
direct == auto /\ asked.mode = "f32" /\ asked.tokens <= 16
fusedBegin == auto /\ ~direct
beginning == session.progress = Unset
complete == session.progress # Unset /\ session.progress.done

\* Tokens up to which each width of a batch fits the budget of a query.
Tier(tokens, mode) ==
    CASE tokens <= 16 -> 16
      [] tokens \in 17..43 -> IF mode = "f32" THEN 9 ELSE 8
      [] tokens \in 44..65 -> 6
      [] tokens \in 66..72 -> IF mode = "f32" THEN 6 ELSE 5
      [] tokens \in 73..(IF mode = "f32" THEN 96 ELSE 90) -> 4
      [] OTHER -> 3

\* The last encoder phases are merged with the cheap phases of the head.
AutoWidth(tokens, mode, completed, cap) ==
    LET width == Least(Tier(tokens, mode), cap)
        encoderLeft == IF completed < 28 THEN 28 - completed ELSE 0
        merged == encoderLeft <= 1 \/ encoderLeft + 2 <= width IN
    Least(IF merged THEN Least(16, cap) ELSE width, 32 - completed)

QueryTypeOK ==
    /\ hot \in Bundle \cup {Unset} /\ asked \in Asked
    /\ session \in [progress : Continuation \cup {Unset}, cap : 1..16, bundle : Bundle \cup {Unset},
                    steps : 1..16]
    /\ beginning \/ session.progress.completed \in 0..session.progress.total
    /\ call \in [at : {"idle", "calling", "raised", "invalid"}, attempts : 0..Retries, failed : Nat,
                 refused : 2..17]

QueryInit ==
    /\ hot \in Bundle \cup {Unset} /\ asked \in Asked
    /\ session = [progress |-> Unset, cap |-> 16, bundle |-> Unset,
                  steps |-> IF asked.steps = Unset THEN 1 ELSE asked.steps]
    /\ call = [at |-> "idle", attempts |-> 0, failed |-> 0, refused |-> 17]
-----------------------------------------------------------------------------
\* An error of a call: a timeout, or a text in which HTTP statuses and words are looked for.
Errors ==
    [timedOut : {TRUE}, statuses : {{}}, words : {{}}] \cup
    [timedOut : {FALSE}, statuses : SUBSET {400, 503},
     words : SUBSET {"connection reset", "instruction limit"}]

Transient(e) ==
    \/ e.timedOut
    \/ e.statuses # {} /\ e.statuses \subseteq {429, 502, 503, 504}
    \/ e.statuses = {} /\ "connection reset" \in e.words

OverLimit(e) == "instruction limit" \in e.words

\* advance() begins: an automatic session chooses the width anew.
StartAdvance ==
    /\ call.at # "calling" /\ ~complete
    /\ call' = [call EXCEPT !.at = "calling", !.attempts = 0, !.failed = 0]
    /\ session' = IF ~fusedBegin THEN session
                  ELSE [session EXCEPT !.steps =
                          AutoWidth(asked.tokens, asked.mode,
                                    IF beginning THEN 0 ELSE session.progress.completed,
                                    session.cap)]
    /\ UNCHANGED <<hot, asked>>

\* The phases that the payload asks for: a plain begin runs none.
Width == IF direct THEN 32 ELSE IF beginning /\ ~fusedBegin THEN 0 ELSE session.steps

\* A batch that exhausts the instruction limit is halved, for the rest of the session.
\* (Seeded fault: only for this call.)
Halved_Once == [session EXCEPT !.steps = @ \div 2]
Halved ==
    [session EXCEPT !.steps = @ \div 2,
                    !.cap = IF auto THEN Least(@, session.steps \div 2) ELSE @]

\* A batch of one phase cannot be halved.  (Seeded fault: it is.)
Halves_ToZero(e) == OverLimit(e) /\ (~beginning \/ fusedBegin) /\ session.steps > 0
Halves(e) == OverLimit(e) /\ (~beginning \/ fusedBegin) /\ session.steps > 1

Retried(e) ==
    /\ Transient(e) /\ call.attempts < Retries
    /\ call' = [call EXCEPT !.failed = @ + 1, !.attempts = @ + 1]

CallFails(e) ==
    /\ call.at = "calling"
    /\ \/ /\ Halves(e) /\ session' = Halved
          /\ call' = [call EXCEPT !.failed = @ + 1, !.refused = Least(@, session.steps)]
       \/ /\ ~Halves(e) /\ Retried(e)
          /\ UNCHANGED session
       \/ /\ ~Halves(e) /\ ~(Transient(e) /\ call.attempts < Retries)
          /\ call' = [call EXCEPT !.at = "raised"]
          /\ UNCHANGED session
    /\ UNCHANGED <<hot, asked>>
-----------------------------------------------------------------------------
\* check_query_pack: the engine answers queries with the benchmarked pack only.
\* (Seeded fault: with any.)
Serves_AnyPack == hot # Unset
Serves == hot = Benchmarked

\* import_inference: a continuation is resumed by the pack that made it.
Resumes == ~beginning => session.progress.bundle = hot

\* What the engine returns when it has run the phases.
Computed ==
    LET from == IF beginning THEN [completed |-> 0, by |-> {}] ELSE session.progress
        total == Phases[hot]
        completed == Least(from.completed + Width, total) IN
    [done |-> completed = total, completed |-> completed, total |-> total,
     bundle |-> hot, by |-> from.by \cup {hot}]

\* The checks of a reply, in the order of the code, up to the one for the model.
Expected(r) ==
    LET expected == IF direct THEN 32
                    ELSE IF beginning THEN (IF fusedBegin THEN Least(session.steps, r.total) ELSE 0)
                    ELSE Least(session.progress.completed + session.steps, session.progress.total)
    IN  /\ r.completed = expected /\ expected <= r.total
        /\ ~beginning => r.total = session.progress.total
        /\ r.done = (expected = r.total)
        /\ auto => r.total = 32

\* "query model changed".
SameModel(r) == r.done \/ session.bundle \in {Unset, r.bundle}

\* Progress is replaced only by a valid reply; a direct query takes its pack as granted.
Taken(r) ==
    [session EXCEPT !.progress = r,
                    !.bundle = IF direct THEN Benchmarked ELSE IF r.done THEN @ ELSE r.bundle]

CallAnswered ==
    /\ call.at = "calling" /\ Serves /\ Resumes
    /\ IF Expected(Computed) /\ SameModel(Computed) /\ (auto /\ ~Computed.done => Computed.bundle = Benchmarked)
       THEN session' = Taken(Computed) /\ call' = [call EXCEPT !.at = "idle"]
       ELSE session' = session /\ call' = [call EXCEPT !.at = "invalid"]
    /\ UNCHANGED <<hot, asked>>

\* The owner of the engine loads another pack, or the heap is lost.
ModelChanges ==
    /\ hot' \in Bundle \cup {Unset}
    /\ UNCHANGED <<asked, session, call>>

SessionStep == StartAdvance \/ CallAnswered \/ \E e \in Errors : CallFails(e)

QueryNext == SessionStep \/ ModelChanges

QuerySpec == QueryInit /\ [][QueryNext]_queryVars

\* finish() calls advance() until it raises or is done; its user calls it again, and
\* answers do not fail for ever.  Nothing is asked of the owner.
Finishing == WF_queryVars(SessionStep) /\ WF_queryVars(StartAdvance) /\ SF_queryVars(CallAnswered)

FairQuerySpec == QuerySpec /\ Finishing
-----------------------------------------------------------------------------
\* Logits come from the one pack that the result names, whichever packs were in memory
\* while the session was under way, and also when the pack was never in a reply.
OnePackComputes ==
    complete => session.progress.by = {session.bundle} /\ session.bundle = Benchmarked

\* The checks of a reply never fail against this engine, whatever the owner does between two
\* calls: a session is never lost to "unexpected query progress" or "query model changed".
RepliesAreValid == call.at # "invalid"

\* Whatever the owner loads meanwhile, a session neither mixes packs nor breaks off as invalid.
AnswersOfOnePack == OnePackComputes /\ RepliesAreValid

\* A width above one is not sent again once the engine refused it or a smaller one,
\* not by a later call of advance() either: "the caller halves the cap on a rejection".
RefusedWidthsStayRefused ==
    call.at = "calling" /\ Width > 1 /\ ~direct => session.steps < call.refused

\* advance() gives up: a failing call is sent at most once per retry and per halving of 16.
TriesAreBounded == call.failed <= Retries + 4

\* A continuation is replaced only by one with more phases, of the same pack: no answer lost,
\* repeated or refused moves the session back.
OnlyForward ==
    [][session'.progress # session.progress =>
         \/ beginning
         \/ /\ session'.progress # Unset
            /\ session'.progress.completed > session.progress.completed
            /\ session'.progress.bundle = session.progress.bundle]_queryVars

\* If the calibrated pack stays in memory from some time on, a client that calls finish()
\* again gets its logits.
FinishCompletes == <>[](hot = Benchmarked) => <>complete
=============================================================================
