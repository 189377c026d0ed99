------------------------ MODULE ExecutorSafetyProofs ------------------------
(***************************************************************************)
(* Theorems about what the executor owes its owner: what a request that    *)
(* may pay was judged on, how many engine calls it has out, and what the   *)
(* grants have reserved and spent. They rest on the invariant of           *)
(* ExecutorProofs, which says that requests stay requests and that every   *)
(* continuation has one.                                                   *)
(***************************************************************************)
EXTENDS ExecutorProofs, FiniteProofs

-----------------------------------------------------------------------------
(***************************************************************************)
(* What a request that may pay was judged on.                              *)
(***************************************************************************)

Early == {"Received", "Evaluating"}
Halted == {"NeedsReview", "Stale", "Cancelled"}

\* The receipts of id are those of its slots, and all of them passed.
Passed(id) ==
    \A slot \in 1..Len(requests[id].receipts) :
      requests[id].receipts[slot] = [stamp |-> EvaluationOf(id, slot), pass |-> TRUE]

\* A request that goes on has only passing receipts, and all of them once it no longer asks.
EvidenceInv ==
    \A id \in DOMAIN requests :
      requests[id].status \notin Halted =>
        /\ Passed(id)
        /\ requests[id].status \notin Early =>
             Len(requests[id].receipts) = Signals[requests[id].snapshot.plan]

\* A call that is out belongs to a request that does not ask anew.
AskedInv == \A c \in engineCalls : requests[c.evaluation.request].status # "Received"

JudgingInv == IInv /\ EvidenceInv /\ OneEngineCall /\ AskedInv
-----------------------------------------------------------------------------
(* What a step does to the evidence of a request.                          *)

\* Request id becomes s: it halts, it goes on with the receipts it has, or it gets the receipt
\* that it waits for.
Moves(id, s) ==
    LET r == requests[id] IN
    /\ s.snapshot = r.snapshot
    /\ \/ s.status \in Halted
       \/ s.receipts = r.receipts /\ s.status \in Early /\ r.status \in Early
       \/ s.receipts = r.receipts /\ s.status \notin Early /\ r.status \notin Early \cup Halted
       \/ /\ r.status \in Early
          /\ s.receipts = Append(r.receipts, [stamp |-> PendingEvaluation(id), pass |-> TRUE])
          /\ s.status = "Received" \/ Len(s.receipts) = Signals[r.snapshot.plan]

\* A request that is not written moves nowhere.
LEMMA StaysPut ==
    ASSUME NEW id, NEW s, s = requests[id]
    PROVE  Moves(id, s)
BY DEF Moves, Early, Halted

\* A request that moves keeps its evidence complete, and a new one has none yet.
LEMMA MovesKeep ==
    ASSUME IInv, EvidenceInv, DOMAIN requests \subseteq DOMAIN requests',
           \A id \in DOMAIN requests : Moves(id, requests'[id]),
           \A id \in DOMAIN requests' \ DOMAIN requests :
             requests'[id].status = "Received" /\ requests'[id].receipts = <<>>
    PROVE  EvidenceInv'
<1> SUFFICES ASSUME NEW id \in DOMAIN requests', requests'[id].status \notin Halted
             PROVE  /\ Passed(id)'
                    /\ requests'[id].status \notin Early =>
                         Len(requests'[id].receipts) = Signals[requests'[id].snapshot.plan]
  BY DEF EvidenceInv
<1> DEFINE r == requests[id]
           s == requests'[id]
<1>1. CASE id \notin DOMAIN requests
  BY <1>1 DEF Passed, Early
<1>2. CASE id \in DOMAIN requests /\ s.receipts = r.receipts /\ s.snapshot = r.snapshot
           /\ r.status \notin Halted /\ (s.status \notin Early => r.status \notin Early)
  <2>1. \A slot : EvaluationOf(id, slot)' = EvaluationOf(id, slot)
    BY <1>2 DEF EvaluationOf
  <2> QED BY <1>2, <2>1 DEF EvidenceInv, Passed
<1>3. CASE /\ id \in DOMAIN requests /\ r.status \in Early /\ s.snapshot = r.snapshot
           /\ s.receipts = Append(r.receipts, [stamp |-> PendingEvaluation(id), pass |-> TRUE])
           /\ s.status = "Received" \/ Len(s.receipts) = Signals[r.snapshot.plan]
  <2>1. r.receipts \in Seq(Receipt)
    BY <1>3, RequestParts DEF IInv, Request
  <2>2. r.status \notin Halted
    BY <1>3 DEF Early, Halted
  <2>3. Passed(id)
    BY <1>3, <2>2 DEF EvidenceInv
  <2>4. /\ Len(s.receipts) = Len(r.receipts) + 1 /\ Len(r.receipts) \in Nat
        /\ s.receipts[Len(r.receipts) + 1] = [stamp |-> PendingEvaluation(id), pass |-> TRUE]
        /\ \A slot \in 1..Len(r.receipts) : s.receipts[slot] = r.receipts[slot]
    BY <1>3, <2>1
  <2>5. \A slot : EvaluationOf(id, slot)' = EvaluationOf(id, slot)
    BY <1>3 DEF EvaluationOf
  <2>6. PendingEvaluation(id) = EvaluationOf(id, Len(r.receipts) + 1)
    BY DEF PendingEvaluation
  <2>7. Passed(id)'
    <3> SUFFICES ASSUME NEW slot \in 1..Len(s.receipts)
                 PROVE  s.receipts[slot] = [stamp |-> EvaluationOf(id, slot), pass |-> TRUE]
      BY <2>5 DEF Passed
    <3>1. slot \in 1..Len(r.receipts) \/ slot = Len(r.receipts) + 1
      BY <2>4
    <3>2. CASE slot \in 1..Len(r.receipts)
      BY <2>3, <2>4, <3>2 DEF Passed
    <3>3. CASE slot = Len(r.receipts) + 1
      BY <2>4, <2>6, <3>3
    <3> QED BY <3>1, <3>2, <3>3
  <2> QED BY <1>3, <2>7 DEF Early
<1>4. CASE id \in DOMAIN requests
  <2>1. Moves(id, s)
    BY <1>4
  <2>2. \A status \in Early : status \notin Halted
    BY DEF Early, Halted
  <2> QED BY <1>2, <1>3, <1>4, <2>1, <2>2 DEF Moves
<1> QED BY <1>1, <1>4

\* Writing one request moves no other.
LEMMA UpdateMoves ==
    ASSUME IInv, NEW id \in DOMAIN requests, NEW s, Moves(id, s), Update(id, s)
    PROVE  /\ DOMAIN requests' = DOMAIN requests /\ requests'[id] = s
           /\ \A x \in DOMAIN requests : Moves(x, requests'[x])
           /\ \A x \in DOMAIN requests : x # id => requests'[x] = requests[x]
<1>1. /\ DOMAIN requests' = DOMAIN requests /\ requests'[id] = s
      /\ \A x \in DOMAIN requests : x # id => requests'[x] = requests[x]
  BY DEF Update
<1> QED BY <1>1, StaysPut

\* A step that makes no engine call, and after which no other requests than before still ask.
QuietStep ==
    /\ engineCalls' \subseteq engineCalls
    /\ \A id \in DOMAIN requests : requests'[id].status \in Early => requests'[id] = requests[id]

\* It leaves every call that is out the only one, and as it was.
LEMMA QuietKeepsCalls ==
    ASSUME IInv, OneEngineCall, AskedInv, QuietStep
    PROVE  OneEngineCall' /\ AskedInv'
<1>1. \A c \in engineCalls' : c \in engineCalls /\ c.evaluation.request \in DOMAIN requests
  BY DEF QuietStep, IInv, CallsInv, CallsHaveRequests
<1>2. AskedInv'
  BY <1>1 DEF AskedInv, QuietStep, Early
<1>3. ASSUME NEW c \in engineCalls', requests'[c.evaluation.request].status = "Evaluating"
      PROVE  /\ requests'[c.evaluation.request].inFlight
             /\ c.evaluation = PendingEvaluation(c.evaluation.request)'
  <2>1. requests'[c.evaluation.request] = requests[c.evaluation.request]
    BY <1>1, <1>3 DEF QuietStep, Early
  <2> QED BY <1>1, <1>3, <2>1 DEF OneEngineCall, PendingEvaluation, EvaluationOf
<1>4. \A c, d \in engineCalls' : c.evaluation.request = d.evaluation.request => c = d
  BY <1>1 DEF OneEngineCall
<1> QED BY <1>2, <1>3, <1>4 DEF OneEngineCall

\* What a stopped request is.
LEMMA StoppedParts ==
    ASSUME NEW r \in Request, NEW status
    PROVE  /\ Stopped(r, status).status = status /\ Stopped(r, status).snapshot = r.snapshot
           /\ Stopped(r, status).receipts = r.receipts
BY DEF Stopped, Request
-----------------------------------------------------------------------------
(* One lemma for each action that writes a request.                        *)

\* What every step has to show: evidence and calls stay as they should be.
Keeps == EvidenceInv' /\ OneEngineCall' /\ AskedInv'

\* A quiet step of one request that was not to ask again.
LEMMA QuietUpdateKeeps ==
    ASSUME JudgingInv, NEW id \in DOMAIN requests, NEW s, Moves(id, s), s.status \notin Early,
           Update(id, s), engineCalls' \subseteq engineCalls
    PROVE  Keeps
<1>1. /\ DOMAIN requests' = DOMAIN requests /\ requests'[id] = s
      /\ \A x \in DOMAIN requests : Moves(x, requests'[x])
      /\ \A x \in DOMAIN requests : x # id => requests'[x] = requests[x]
  BY UpdateMoves DEF JudgingInv
<1>2. QuietStep
  BY <1>1 DEF QuietStep
<1>3. EvidenceInv'
  BY <1>1, MovesKeep DEF JudgingInv
<1> QED BY <1>2, <1>3, QuietKeepsCalls DEF JudgingInv, Keeps

\* A step that writes no request and makes no engine call.
LEMMA SilentKeeps ==
    ASSUME JudgingInv, UNCHANGED requests, engineCalls' \subseteq engineCalls
    PROVE  Keeps
<1>1. EvidenceInv'
  BY StaysPut, MovesKeep DEF JudgingInv
<1>2. QuietStep
  BY DEF QuietStep
<1> QED BY <1>1, <1>2, QuietKeepsCalls DEF JudgingInv, Keeps

\* A new request has no receipts and no calls.
LEMMA SubmitKeepsEvidence ==
    ASSUME JudgingInv, NEW caller \in Delegate, NEW o \in Operation, NEW g \in Grant, Submit(caller, o, g)
    PROVE  Keeps
<1> DEFINE id == [caller |-> caller, nonce |-> NextNonceOf(caller)]
<1>1. PICK r : /\ requests' = Put(requests, id, r) /\ r.status = "Received" /\ r.receipts = <<>>
               /\ UNCHANGED engineCalls
  BY DEF Submit, calls
<1>2. id \notin DOMAIN requests
  <2>1. NextNonceOf(caller) \in Nat
    BY DEF JudgingInv, IInv, BooksInv, BooksTypeOK, IsMap, NextNonceOf
  <2>2. \A x \in DOMAIN requests : x.nonce < NextNonceOf(x.caller)
    BY DEF JudgingInv, IInv, BooksInv, NoncesConsumed
  <2> QED BY <2>1, <2>2
<1>3. /\ DOMAIN requests' = DOMAIN requests \cup {id} /\ requests'[id] = r
      /\ \A x \in DOMAIN requests : requests'[x] = requests[x]
  BY <1>1, <1>2 DEF Put
<1>4. EvidenceInv'
  <2>1. \A x \in DOMAIN requests : Moves(x, requests'[x])
    BY <1>3, StaysPut
  <2> QED BY <1>1, <1>3, <2>1, MovesKeep DEF JudgingInv
<1>5. QuietStep
  BY <1>1, <1>3 DEF QuietStep
<1> QED BY <1>4, <1>5, QuietKeepsCalls DEF JudgingInv, Keeps

\* advance() asks only when nothing is out: the new call is the only one of its request.
LEMMA BeginEvaluationKeepsEvidence ==
    ASSUME JudgingInv, NEW id \in DOMAIN requests, BeginEvaluation(id)
    PROVE  Keeps
<1> DEFINE r == requests[id]
           asking == [r EXCEPT !.status = "Evaluating", !.inFlight = TRUE, !.sends = @ + 1]
           new == [evaluation |-> PendingEvaluation(id), send |-> r.sends + 1]
<1>1. r \in Request /\ r.status \in Early
  BY RequestParts DEF JudgingInv, IInv, BeginEvaluation, Early
<1>2. CASE Update(id, Stopped(r, "Stale")) /\ UNCHANGED engineCalls
  <2>1. Stopped(r, "Stale").status = "Stale" /\ Stopped(r, "Stale").snapshot = r.snapshot
    BY <1>1, StoppedParts
  <2>2. Moves(id, Stopped(r, "Stale")) /\ Stopped(r, "Stale").status \notin Early
    BY <2>1 DEF Moves, Halted, Early
  <2> QED BY <1>2, <2>2, QuietUpdateKeeps
<1>3. CASE MayAsk(id) /\ Update(id, asking) /\ engineCalls' = engineCalls \cup {new}
  <2>1. /\ asking.status = "Evaluating" /\ asking.inFlight /\ asking.receipts = r.receipts
        /\ asking.snapshot = r.snapshot
    BY <1>1 DEF Request
  <2> HIDE DEF asking
  <2>2. Moves(id, asking)
    BY <1>1, <2>1 DEF Moves, Early
  <2>3. /\ DOMAIN requests' = DOMAIN requests /\ requests'[id] = asking
        /\ \A x \in DOMAIN requests : Moves(x, requests'[x])
        /\ \A x \in DOMAIN requests : x # id => requests'[x] = requests[x]
    BY <1>3, <2>2, UpdateMoves DEF JudgingInv
  <2>4. EvidenceInv'
    BY <2>3, MovesKeep DEF JudgingInv
  <2>5. \A c \in engineCalls : c.evaluation.request \in DOMAIN requests
    BY DEF JudgingInv, IInv, CallsInv, CallsHaveRequests
  <2>6. \A c \in engineCalls : c.evaluation.request # id
    <3> SUFFICES ASSUME NEW c \in engineCalls, c.evaluation.request = id PROVE FALSE
      OBVIOUS
    <3>1. r.status = "Evaluating" /\ r.inFlight
      BY <1>1 DEF Early, JudgingInv, AskedInv, OneEngineCall
    <3> QED BY <1>3, <3>1 DEF MayAsk
  <2>7. new.evaluation.request = id /\ new.evaluation = PendingEvaluation(id)
    BY DEF PendingEvaluation, EvaluationOf
  <2> HIDE DEF new
  <2>8. AskedInv'
    BY <1>3, <2>1, <2>3, <2>5, <2>6, <2>7 DEF JudgingInv, AskedInv
  <2>9. OneEngineCall'
    <3>1. \A c, d \in engineCalls' : c.evaluation.request = d.evaluation.request => c = d
      BY <1>3, <2>6, <2>7 DEF JudgingInv, OneEngineCall
    <3>2. PendingEvaluation(id)' = PendingEvaluation(id)
      BY <2>1, <2>3 DEF PendingEvaluation, EvaluationOf
    <3>3. ASSUME NEW c \in engineCalls', requests'[c.evaluation.request].status = "Evaluating"
          PROVE  /\ requests'[c.evaluation.request].inFlight
                 /\ c.evaluation = PendingEvaluation(c.evaluation.request)'
      <4>1. CASE c = new
        BY <2>1, <2>3, <2>7, <3>2, <4>1
      <4>2. CASE c \in engineCalls
        <5>1. requests'[c.evaluation.request] = requests[c.evaluation.request]
          BY <2>3, <2>5, <2>6, <4>2
        <5> QED BY <3>3, <4>2, <5>1 DEF JudgingInv, OneEngineCall, PendingEvaluation, EvaluationOf
      <4> QED BY <1>3, <4>1, <4>2
    <3> QED BY <3>1, <3>3 DEF OneEngineCall
  <2> QED BY <2>4, <2>8, <2>9 DEF Keeps
<1> QED BY <1>2, <1>3 DEF BeginEvaluation

\* The continuation of an engine call ends the only call of its request.
LEMMA ContinueKeepsEvidence ==
    ASSUME JudgingInv, NEW c \in engineCalls, NEW s, Continue(c, s),
           LET id == c.evaluation.request IN
           requests[id].status = "Evaluating" /\ PendingEvaluation(id) = c.evaluation => Moves(id, s)
    PROVE  Keeps
<1> DEFINE id == c.evaluation.request
<1>1. id \in DOMAIN requests /\ engineCalls' = engineCalls \ {c}
  BY DEF JudgingInv, IInv, CallsInv, CallsHaveRequests, Continue
<1>2. CASE UNCHANGED requests
  BY <1>1, <1>2, SilentKeeps
<1>3. CASE requests[id].status = "Evaluating" /\ PendingEvaluation(id) = c.evaluation /\ Update(id, s)
  <2>1. /\ DOMAIN requests' = DOMAIN requests
        /\ \A x \in DOMAIN requests : Moves(x, requests'[x])
        /\ \A x \in DOMAIN requests : x # id => requests'[x] = requests[x]
    BY <1>1, <1>3, UpdateMoves DEF JudgingInv
  <2>2. EvidenceInv'
    BY <2>1, MovesKeep DEF JudgingInv
  <2>3. \A d \in engineCalls' :
          /\ d \in engineCalls /\ d.evaluation.request \in DOMAIN requests
          /\ requests'[d.evaluation.request] = requests[d.evaluation.request]
    BY <1>1, <2>1 DEF JudgingInv, OneEngineCall, IInv, CallsInv, CallsHaveRequests
  <2>4. AskedInv'
    BY <2>3 DEF JudgingInv, AskedInv
  <2>5. OneEngineCall'
    BY <2>3 DEF JudgingInv, OneEngineCall, PendingEvaluation, EvaluationOf
  <2> QED BY <2>2, <2>4, <2>5 DEF Keeps
<1> QED BY <1>2, <1>3 DEF Continue

\* Whatever the engine answers: the receipt that was asked for is kept, another one halts the request.
LEMMA FinishEvaluationKeepsEvidence ==
    ASSUME JudgingInv, NEW c \in engineCalls, NEW receipt \in Receipts, FinishEvaluation(c, receipt)
    PROVE  Keeps
<1> DEFINE id == c.evaluation.request
           r == requests[id]
           becomes == IF Current(id) THEN Judged(r, c.evaluation, receipt) ELSE Stopped(r, "Stale")
<1>1. id \in DOMAIN requests /\ r \in Request
  BY RequestParts DEF JudgingInv, IInv, CallsInv, CallsHaveRequests
<1>2. ASSUME NEW status \in Halted PROVE Moves(id, Stopped(r, status))
  BY <1>1, StoppedParts DEF Moves
<1>3. ASSUME r.status = "Evaluating", PendingEvaluation(id) = c.evaluation, receipt.stamp = c.evaluation
      PROVE  Moves(id, Ruled(r, receipt))
  <2> DEFINE longer == Append(r.receipts, receipt)
             status == IF ~receipt.pass THEN "NeedsReview"
                       ELSE IF Len(longer) = Signals[r.snapshot.plan] THEN "ReadyToDispatch"
                       ELSE "Received"
  <2>1. Ruled(r, receipt) = [Stopped(r, status) EXCEPT !.receipts = longer]
    BY DEF Ruled
  <2>2. Stopped(r, status) = [r EXCEPT !.status = status, !.sends = 0, !.inFlight = FALSE]
    BY DEF Stopped
  <2> HIDE DEF longer, status
  <2>3. /\ Ruled(r, receipt).status = status /\ Ruled(r, receipt).receipts = longer
        /\ Ruled(r, receipt).snapshot = r.snapshot
    BY <1>1, <2>1, <2>2 DEF Request
  <2>4. CASE ~receipt.pass
    BY <2>3, <2>4 DEF status, Moves, Halted
  <2>5. CASE receipt.pass
    <3>1. receipt = [stamp |-> PendingEvaluation(id), pass |-> TRUE]
      BY <1>3, <2>5 DEF Receipts
    <3>2. status = "Received" \/ Len(longer) = Signals[r.snapshot.plan]
      BY <2>5 DEF status
    <3> QED BY <1>3, <2>3, <3>1, <3>2 DEF longer, Moves, Early
  <2> QED BY <2>4, <2>5
<1>4. r.status = "Evaluating" /\ PendingEvaluation(id) = c.evaluation => Moves(id, becomes)
  BY <1>2, <1>3 DEF Judged, Halted
<1>5. Continue(c, becomes)
  BY DEF FinishEvaluation
<1> HIDE DEF becomes
<1> QED BY <1>4, <1>5, ContinueKeepsEvidence

\* Errors and lost answers halt the request or leave it to ask once more.
LEMMA LostEvaluationKeepsEvidence ==
    ASSUME JudgingInv, NEW c \in engineCalls, RefuseEvaluation(c) \/ EngineTransportFailed(c)
    PROVE  Keeps
<1> DEFINE id == c.evaluation.request
           r == requests[id]
<1>1. id \in DOMAIN requests /\ r \in Request
  BY RequestParts DEF JudgingInv, IInv, CallsInv, CallsHaveRequests
<1>2. \A status \in Halted : Moves(id, Stopped(r, status))
  BY <1>1, StoppedParts DEF Moves
<1>3. CASE RefuseEvaluation(c)
  <2> DEFINE status == IF Current(id) THEN "NeedsReview" ELSE "Stale"
  <2>1. Continue(c, Stopped(r, status)) /\ status \in Halted
    BY <1>3 DEF RefuseEvaluation, Halted
  <2> QED BY <1>2, <2>1, ContinueKeepsEvidence
<1>4. CASE EngineTransportFailed(c)
  <2>1. Continue(c, AfterLostCall(r))
    BY <1>4 DEF EngineTransportFailed
  <2>2. ASSUME r.status = "Evaluating" PROVE Moves(id, AfterLostCall(r))
    <3>1. CASE AfterLostCall(r) = Stopped(r, "NeedsReview")
      BY <1>2, <3>1 DEF Halted
    <3>2. CASE AfterLostCall(r) = [r EXCEPT !.inFlight = FALSE]
      <4>1. /\ [r EXCEPT !.inFlight = FALSE].status = r.status
            /\ [r EXCEPT !.inFlight = FALSE].receipts = r.receipts
            /\ [r EXCEPT !.inFlight = FALSE].snapshot = r.snapshot
        BY <1>1 DEF Request
      <4> QED BY <2>2, <3>2, <4>1 DEF Moves, Early
    <3> QED BY <3>1, <3>2 DEF AfterLostCall
  <2> QED BY <2>1, <2>2, ContinueKeepsEvidence
<1> QED BY <1>3, <1>4

\* Reporting, dispatching, retrying and cancelling change no receipt and ask nothing.
LEMMA ClientKeepsEvidence ==
    ASSUME JudgingInv, NEW id \in DOMAIN requests,
           Report(id) \/ Dispatch(id) \/ RetryUnknown(id) \/ Cancel(id)
    PROVE  Keeps
<1> DEFINE r == requests[id]
<1>1. r \in Request
  BY RequestParts DEF JudgingInv, IInv
<1>2. ASSUME NEW s, s.receipts = r.receipts, s.snapshot = r.snapshot, s.status \notin Early,
             s.status \in Halted \/ r.status \notin Early \cup Halted, Update(id, s), UNCHANGED engineCalls
      PROVE  Keeps
  <2>1. Moves(id, s)
    BY <1>2 DEF Moves
  <2> QED BY <1>2, <2>1, QuietUpdateKeeps
<1>3. CASE Report(id)
  <2> DEFINE s == [r EXCEPT !.status = "Reported"]
  <2>1. Update(id, s) /\ UNCHANGED engineCalls /\ r.status = "ReadyToDispatch"
    BY <1>3 DEF Report, calls, Authorized, EvidenceStands
  <2>2. s.receipts = r.receipts /\ s.snapshot = r.snapshot /\ s.status = "Reported"
    BY <1>1 DEF Request
  <2> HIDE DEF s
  <2> QED BY <1>2, <2>1, <2>2 DEF Early, Halted
<1>4. CASE Dispatch(id)
  <2> DEFINE s == [r EXCEPT !.epoch = now \div Terms[r.grant].windowLen, !.frozen = now,
                            !.status = "Submitted", !.attempt = 1]
  <2>1. Update(id, s) /\ UNCHANGED engineCalls /\ r.status = "ReadyToDispatch"
    BY <1>4 DEF Dispatch, Authorized, EvidenceStands
  <2>2. s.receipts = r.receipts /\ s.snapshot = r.snapshot /\ s.status = "Submitted"
    BY <1>1 DEF Request
  <2> HIDE DEF s
  <2> QED BY <1>2, <2>1, <2>2 DEF Early, Halted
<1>5. CASE RetryUnknown(id)
  <2> DEFINE s == [r EXCEPT !.attempt = @ + 1, !.status = "Submitted"]
  <2>1. Update(id, s) /\ UNCHANGED engineCalls /\ r.status = "OutcomeUnknown"
    BY <1>5 DEF RetryUnknown, Retryable
  <2>2. s.receipts = r.receipts /\ s.snapshot = r.snapshot /\ s.status = "Submitted"
    BY <1>1 DEF Request
  <2> HIDE DEF s
  <2> QED BY <1>2, <2>1, <2>2 DEF Early, Halted
<1>6. CASE Cancel(id)
  <2>1. Update(id, Stopped(r, "Cancelled")) /\ UNCHANGED engineCalls
    BY <1>6 DEF Cancel, calls
  <2> QED BY <1>1, <1>2, <2>1, StoppedParts DEF Early, Halted
<1> QED BY <1>3, <1>4, <1>5, <1>6

\* Nor does an answer of the ledger, which meets an open transfer or nothing.
LEMMA FinishLedgerKeepsEvidence ==
    ASSUME JudgingInv, NEW cmd, cmd.request \in DOMAIN requests, NEW outcome,
           FinishLedger(cmd, outcome), UNCHANGED engineCalls
    PROVE  Keeps
<1> DEFINE id == cmd.request
           r == requests[id]
<1>1. r \in Request
  BY RequestParts DEF JudgingInv, IInv
<1>2. CASE UNCHANGED requests
  BY <1>2, SilentKeeps
<1>3. ASSUME NEW s, s.receipts = r.receipts, s.snapshot = r.snapshot,
             s.status \in Unresolved \cup {"Succeeded", "FailedDefinitive"},
             r.status \in Unresolved, Update(id, s)
      PROVE  Keeps
  <2>1. Moves(id, s) /\ s.status \notin Early
    BY <1>3 DEF Moves, Early, Halted, Unresolved
  <2> QED BY <1>3, <2>1, QuietUpdateKeeps
<1>4. ASSUME NEW success \in BOOLEAN, NEW block, SettleRecord(id, success, block)
      PROVE  Keeps
  <2> DEFINE s == [r EXCEPT !.epoch = None, !.block = block,
                            !.status = IF success THEN "Succeeded" ELSE "FailedDefinitive"]
  <2>1. Update(id, s) /\ r.epoch # None
    BY <1>4 DEF SettleRecord, CanSettle
  <2>2. r.status \in Unresolved
    BY <2>1 DEF JudgingInv, IInv, BooksInv, RequestsCoherent
  <2>3. /\ s.receipts = r.receipts /\ s.snapshot = r.snapshot
        /\ s.status \in {"Succeeded", "FailedDefinitive"}
    BY <1>1 DEF Request
  <2> HIDE DEF s
  <2> QED BY <1>3, <2>1, <2>2, <2>3
<1>5. CASE Answers(cmd) /\ Update(id, Doubtful(r))
  <2>1. /\ Doubtful(r).receipts = r.receipts /\ Doubtful(r).snapshot = r.snapshot
        /\ Doubtful(r).status = "OutcomeUnknown" /\ r.status \in Unresolved
    BY <1>1, <1>5 DEF Doubtful, Request, Answers
  <2> QED BY <1>3, <1>5, <2>1 DEF Unresolved
<1> QED BY <1>2, <1>4, <1>5 DEF FinishLedger

\* An upgrade ends all calls, halts what was being evaluated, and leaves all receipts.
LEMMA PostUpgradeKeepsEvidence ==
    ASSUME JudgingInv, PostUpgrade
    PROVE  Keeps
<1>1. engineCalls' = {} /\ requests' = [id \in DOMAIN requests |-> Recovered(requests[id])]
  BY DEF PostUpgrade
<1>2. ASSUME NEW id \in DOMAIN requests PROVE Moves(id, requests'[id])
  <2> DEFINE r == requests[id]
  <2>1. r \in Request /\ requests'[id] = Recovered(r)
    BY <1>1, RequestParts DEF JudgingInv, IInv
  <2>2. CASE r.status = "Evaluating"
    BY <2>1, <2>2, StoppedParts DEF Recovered, Moves, Halted
  <2>3. CASE r.status = "Submitted"
    <3>1. /\ Doubtful(r).receipts = r.receipts /\ Doubtful(r).snapshot = r.snapshot
          /\ Doubtful(r).status = "OutcomeUnknown"
      BY <2>1 DEF Doubtful, Request
    <3> QED BY <2>1, <2>3, <3>1 DEF Recovered, Interrupted, Moves, Early, Halted
  <2>4. CASE r.status \notin {"Evaluating", "Submitted"}
    BY <2>1, <2>4, StaysPut DEF Recovered
  <2> QED BY <2>2, <2>3, <2>4
<1>3. EvidenceInv'
  BY <1>1, <1>2, MovesKeep DEF JudgingInv
<1> QED BY <1>1, <1>3 DEF Keeps, OneEngineCall, AskedInv
-----------------------------------------------------------------------------
\* A canister without requests judges nothing.
LEMMA JudgingInit == Init => JudgingInv
BY InitHolds DEF Init, JudgingInv, EvidenceInv, OneEngineCall, AskedInv, EmptyMap

\* Every step keeps evidence and calls as they should be.
LEMMA JudgingStep == JudgingInv /\ [Next]_vars => JudgingInv'
<1> SUFFICES ASSUME JudgingInv, [Next]_vars PROVE Keeps
  BY StepHolds DEF JudgingInv, Keeps
<1>1. CASE Tick \/ UNCHANGED vars
  BY <1>1, SilentKeeps DEF Tick, vars, books, calls
<1>2. CASE OwnerStep
  <2>1. UNCHANGED <<requests, engineCalls>>
    BY <1>2 DEF OwnerStep, SetMode, SetPaused, InstallPlan, InstallOperation, ReviseOperation,
                InstallGrant, Revoke, RegisterMockLedger, books, calls
  <2> QED BY <2>1, SilentKeeps
<1>3. CASE ClientStep
  <2>1. ASSUME NEW id \in DOMAIN requests, Reconcile(id) PROVE Keeps
    BY <2>1, SilentKeeps DEF Reconcile, books
  <2> QED BY <1>3, <2>1, SubmitKeepsEvidence, BeginEvaluationKeepsEvidence, ClientKeepsEvidence DEF ClientStep
<1>4. CASE EngineStep
  <2>1. ASSUME NEW c \in engineCalls, EngineCallbackTraps(c) PROVE Keeps
    BY <2>1, SilentKeeps DEF EngineCallbackTraps, books
  <2> QED BY <1>4, <2>1, FinishEvaluationKeepsEvidence, LostEvaluationKeepsEvidence DEF EngineStep, EngineReturns
<1>5. CASE LedgerStep
  <2>1. \A cmd \in ledgerCalls \cup lookups : cmd.request \in DOMAIN requests
    BY DEF JudgingInv, IInv, CallsInv, CallsHaveRequests
  <2>2. ASSUME NEW cmd \in ledgerCalls, NEW outcome, LedgerReturns(cmd, outcome) PROVE Keeps
    BY <2>1, <2>2, FinishLedgerKeepsEvidence DEF LedgerReturns
  <2>3. ASSUME NEW cmd \in lookups, NEW found, LookupReturns(cmd, found) PROVE Keeps
    BY <2>1, <2>3, FinishLedgerKeepsEvidence DEF LookupReturns
  <2>4. ASSUME NEW cmd, LedgerCallbackTraps(cmd) \/ LookupFails(cmd) PROVE Keeps
    BY <2>4, SilentKeeps DEF LedgerCallbackTraps, LookupFails, books
  <2> QED BY <1>5, <2>2, <2>3, <2>4 DEF LedgerStep
<1>6. CASE Upgrade \/ ForcedUpgrade
  BY <1>6, PostUpgradeKeepsEvidence DEF Upgrade, ForcedUpgrade
<1> QED BY <1>1, <1>2, <1>3, <1>4, <1>5, <1>6 DEF Next

\* The invariant holds throughout.
LEMMA JudgingInvariant == Spec => []JudgingInv
BY JudgingInit, JudgingStep, PTL DEF Spec
-----------------------------------------------------------------------------
\* Nothing is ready, reported or paid without a passing receipt for every signal of its plan,
\* bound to this request, this slot and one snapshot (workflow.rs:238-262), for plans of any
\* number of signals and whatever receipts arrive.
THEOREM EvidenceHolds == Spec => []EvidenceComplete
<1>1. JudgingInv => EvidenceComplete
  <2> SUFFICES ASSUME JudgingInv, NEW id \in DOMAIN requests,
                      \/ requests[id].status \in {"ReadyToDispatch", "Reported"}
                      \/ requests[id].frozen # None
               PROVE  /\ Len(requests[id].receipts) = Signals[requests[id].snapshot.plan]
                      /\ Passed(id)
    BY DEF EvidenceComplete, Passed
  <2>1. requests[id].status \notin Early \cup Halted
    BY DEF Early, Halted, JudgingInv, IInv, BooksInv, RequestsCoherent, Unresolved
  <2> QED BY <2>1 DEF JudgingInv, EvidenceInv
<1> QED BY <1>1, JudgingInvariant, PTL

\* Every transfer, first or repeated, goes out on receipts of what is registered in that very
\* message, for a request whose deadline has not passed (workflow.rs:179-188, 246-262, 304-318),
\* however many messages, revisions and resends lie between the receipts and the payment.
THEOREM OnlyCurrentHolds == Spec => OnlyCurrentRequestsPay
<1> DEFINE Paying(cmd) ==
      LET r == requests[cmd.request]
          judged == Snapshot(r.operation, r.grant) IN
      /\ ~paused /\ ~grants[r.grant].revoked
      /\ now < r.expires /\ now < Terms[r.grant].expires
      /\ Len(r.receipts) = Signals[judged.plan]
      /\ \A slot \in DOMAIN r.receipts :
           r.receipts[slot].pass /\ r.receipts[slot].stamp.snapshot = judged
      /\ requests'[cmd.request].frozen = cmd.created
<1>1. ASSUME JudgingInv, [Next]_vars, NEW cmd \in ledgerCalls' \ ledgerCalls PROVE Paying(cmd)
  <2> DEFINE id == cmd.request
             r == requests[id]
             judged == Snapshot(r.operation, r.grant)
  <2>1. /\ id \in DOMAIN requests /\ Current(id)
        /\ r.status \in {"ReadyToDispatch", "OutcomeUnknown"}
        /\ requests'[id].frozen = cmd.created
    BY <1>1, NewCall DEF JudgingInv
  <2>2. /\ ~paused /\ ~grants[r.grant].revoked
        /\ now < r.expires /\ now < Terms[r.grant].expires /\ judged = r.snapshot
    BY <2>1 DEF Current, Eligible
  <2>3. Passed(id) /\ Len(r.receipts) = Signals[r.snapshot.plan]
    BY <1>1, <2>1 DEF JudgingInv, EvidenceInv, Early, Halted
  <2>4. DOMAIN r.receipts = 1..Len(r.receipts)
    BY <1>1, <2>1, RequestParts DEF JudgingInv, IInv, Request
  <2>5. ASSUME NEW slot \in DOMAIN r.receipts
        PROVE  r.receipts[slot].pass /\ r.receipts[slot].stamp.snapshot = judged
    <3>1. slot \in 1..Len(requests[id].receipts)
      BY <2>4, <2>5
    <3>2. r.receipts[slot] = [stamp |-> EvaluationOf(id, slot), pass |-> TRUE]
      BY <2>3, <3>1 DEF Passed
    <3> QED BY <2>2, <3>2 DEF EvaluationOf
  <2> QED BY <2>1, <2>2, <2>3, <2>5
<1>2. JudgingInv /\ [Next]_vars => [\A cmd \in ledgerCalls' \ ledgerCalls : Paying(cmd)]_vars
  BY <1>1
<1> QED BY <1>2, JudgingInvariant, PTL DEF Spec, OnlyCurrentRequestsPay

\* Clients that advance a request at the same time, or again after a lost answer, never have
\* two inferences of it under way (workflow.rs:191).
THEOREM OneEngineCallHolds == Spec => []OneEngineCall
<1>1. JudgingInv => OneEngineCall
  BY DEF JudgingInv
<1> QED BY <1>1, JudgingInvariant, PTL

-----------------------------------------------------------------------------
(***************************************************************************)
(* What the grants and their windows count.  A usage that is kept by       *)
(* adding and subtracting is compared with a sum over the requests, so the *)
(* proofs follow which requests a step takes into the sum or out of it.    *)
(***************************************************************************)

\* What a set of requests would charge, and the requests that hold budget of a
\* grant, in total and in a window.
Held(g) == {id \in Holding : requests[id].grant = g}
HeldIn(g, epoch) == {id \in Held(g) : requests[id].epoch = epoch}

\* The usages count exactly what is held, and the window that a reservation was
\* made in is still there.
BudgetInv ==
    /\ IsFiniteSet(DOMAIN requests)
    /\ \A id \in Holding : <<requests[id].grant, requests[id].epoch>> \in DOMAIN windows
    /\ \A g \in DOMAIN grants : grants[g].total.reserved = Reserves(Held(g))
    /\ \A w \in DOMAIN windows : w[1] \in DOMAIN grants /\ windows[w].reserved = Reserves(HeldIn(w[1], w[2]))

\* The usages are those of UsageMatches.
LEMMA BudgetMatches == BudgetInv => UsageMatches
BY DEF BudgetInv, UsageMatches, Held, HeldIn, WindowsOf

\* The held requests of a grant, or of one of its windows, sum up to amounts of money.
LEMMA HeldSums ==
    ASSUME BooksInv, IsFiniteSet(DOMAIN requests), NEW S \in SUBSET DOMAIN requests
    PROVE  /\ IsFiniteSet(S) /\ \A id \in S : Charges[id] \in Nat
           /\ \A id \in S : Charges[id] = Charge(requests[id].operation)
           /\ Reserves(S) \in Nat
<1>1. IsFiniteSet(S)
  BY FS_Subset
<1>2. \A id \in S : Charges[id] = Charge(requests[id].operation)
  BY DEF Charges
<1>3. \A id \in S : Charges[id] \in Nat
  BY <1>2, RequestParts, ChargeType
<1> HIDE DEF Charges
<1> QED BY <1>1, <1>2, <1>3, SumType DEF Reserves

\* settle_record never fails on a request that is unresolved.
LEMMA SettlingIsPossible ==
    ASSUME IInv, BudgetInv, NEW id \in DOMAIN requests, requests[id].status \in Unresolved
    PROVE  CanSettle(id)
<1> DEFINE r == requests[id]
           g == r.grant
           w == <<g, r.epoch>>
           charge == Charge(r.operation)
<1>1. BooksInv /\ IsFiniteSet(DOMAIN requests)
  BY DEF IInv, BudgetInv
<1>2. id \in Holding /\ r.epoch # None /\ g \in DOMAIN grants
  BY <1>1 DEF BooksInv, RequestsCoherent, Holding
<1>3. operations[r.operation].state = "Reserved" /\ operations[r.operation].holder = id
  BY <1>1, <1>2 DEF BooksInv, HoldersMatch
<1>4. w \in DOMAIN windows
  BY <1>2 DEF BudgetInv
<1>5. ASSUME NEW S \in SUBSET DOMAIN requests, id \in S
      PROVE  Reserves(S) >= charge
  <2>1. /\ IsFiniteSet(S) /\ \A x \in S : Charges[x] \in Nat
        /\ Charges[id] = charge
    BY <1>1, <1>5, HeldSums
  <2> HIDE DEF charge, Charges
  <2>2. /\ SumFunctionOnSet(Charges, S) = Charges[id] + SumFunctionOnSet(Charges, S \ {id})
        /\ SumFunctionOnSet(Charges, S \ {id}) \in Nat
    BY <1>5, <2>1, SumRemove
  <2> QED BY <1>5, <2>1, <2>2 DEF Reserves
<1>6. grants[g].total.reserved >= charge
  BY <1>2, <1>5 DEF BudgetInv, Held, Holding
<1>7. windows[w].reserved >= charge
  <2>1. windows[w].reserved = Reserves(HeldIn(w[1], w[2])) /\ w[1] = g /\ w[2] = r.epoch
    BY <1>4 DEF BudgetInv
  <2>2. id \in HeldIn(g, r.epoch) /\ HeldIn(g, r.epoch) \in SUBSET DOMAIN requests
    BY <1>2 DEF HeldIn, Held, Holding
  <2> QED BY <1>5, <2>1, <2>2
<1> QED BY <1>2, <1>3, <1>4, <1>6, <1>7 DEF CanSettle

\* A step that gives and takes no budget: what requests hold, and the usages, are
\* what they were; new requests hold nothing, new grants are unused.
Quiet ==
    /\ DOMAIN requests \subseteq DOMAIN requests' /\ IsFiniteSet(DOMAIN requests')
    /\ \A id \in DOMAIN requests :
         /\ requests'[id].operation = requests[id].operation
         /\ requests'[id].grant = requests[id].grant
         /\ requests'[id].epoch = requests[id].epoch
    /\ \A id \in DOMAIN requests' \ DOMAIN requests :
         requests'[id].epoch = None /\ requests'[id].status = "Received"
    /\ DOMAIN grants \subseteq DOMAIN grants'
    /\ \A g \in DOMAIN grants : grants'[g].total = grants[g].total
    /\ \A g \in DOMAIN grants' \ DOMAIN grants : grants'[g].total = NoUsage
    /\ windows' = windows

\* Sums over the same held requests are the same after the step.
LEMMA SameSum ==
    ASSUME BooksInv, IsFiniteSet(DOMAIN requests), NEW S \in SUBSET DOMAIN requests,
           S \subseteq DOMAIN requests',
           \A id \in S : requests'[id].operation = requests[id].operation
    PROVE  Reserves(S)' = Reserves(S)
<1>1. IsFiniteSet(S) /\ \A id \in S : Charges[id] \in Nat
  BY HeldSums
<1>2. \A id \in S : Charges'[id] = Charges[id]
  BY DEF Charges, Charge
<1> DEFINE f == Charges
           h == Charges'
<1>3. (\A id \in S : f[id] \in Nat) /\ \A id \in S : h[id] = f[id]
  BY <1>1, <1>2
<1> HIDE DEF f, h
<1>4. SumFunctionOnSet(h, S) = SumFunctionOnSet(f, S)
  BY <1>1, <1>3, SumSame
<1>5. Reserves(S)' = SumFunctionOnSet(h, S) /\ Reserves(S) = SumFunctionOnSet(f, S)
  BY DEF Reserves, f, h
<1> QED BY <1>4, <1>5

\* Quiet steps keep the budget right.
LEMMA QuietKeepsBudget ==
    ASSUME IInv, BudgetInv, Quiet
    PROVE  BudgetInv'
<1>1. BooksInv /\ IsFiniteSet(DOMAIN requests)
  BY DEF IInv, BudgetInv
<1>2. Holding' = Holding /\ Holding \subseteq DOMAIN requests
  BY DEF Quiet, Holding
<1>3. \A g : Held(g)' = Held(g) /\ Held(g) \in SUBSET DOMAIN requests
  BY <1>2 DEF Quiet, Held
<1>4. \A g, e : HeldIn(g, e)' = HeldIn(g, e) /\ HeldIn(g, e) \in SUBSET DOMAIN requests
  BY <1>3 DEF Quiet, HeldIn
<1>5. ASSUME NEW S \in SUBSET DOMAIN requests PROVE Reserves(S)' = Reserves(S)
  BY <1>1, SameSum DEF Quiet
<1>6. \A id \in Holding' : <<requests'[id].grant, requests'[id].epoch>> \in DOMAIN windows'
  BY <1>2 DEF Quiet, BudgetInv
<1>7. ASSUME NEW g \in DOMAIN grants' PROVE (grants[g].total.reserved = Reserves(Held(g)))'
  <2>1. CASE g \in DOMAIN grants
    <3>1. grants[g].total.reserved = Reserves(Held(g)) /\ grants'[g].total = grants[g].total
      BY <2>1 DEF Quiet, BudgetInv
    <3> QED BY <1>3, <1>5, <3>1 DEF Reserves
  <2>2. CASE g \notin DOMAIN grants
    <3>1. grants'[g].total.reserved = 0
      BY <1>7, <2>2 DEF Quiet, NoUsage
    <3>2. Held(g) = {}
      BY <1>1, <1>2, <2>2 DEF Held, BooksInv, RequestsCoherent
    <3>3. Reserves({})' = 0
      BY SumEmpty DEF Reserves
    <3> QED BY <1>3, <3>1, <3>2, <3>3
  <2> QED BY <2>1, <2>2
<1>8. ASSUME NEW w \in DOMAIN windows'
      PROVE  (w[1] \in DOMAIN grants /\ windows[w].reserved = Reserves(HeldIn(w[1], w[2])))'
  <2>1. w[1] \in DOMAIN grants /\ windows[w].reserved = Reserves(HeldIn(w[1], w[2]))
    BY DEF Quiet, BudgetInv
  <2>2. Reserves(HeldIn(w[1], w[2]))' = Reserves(HeldIn(w[1], w[2]))
    BY <1>4, <1>5
  <2> QED BY <2>1, <2>2 DEF Quiet
<1> QED BY <1>6, <1>7, <1>8 DEF BudgetInv, Quiet

\* Only request id changes, and only the usages of grant g in total and in window
\* <<g, epoch>>, which may be new.
Touches(id, g, epoch) ==
    /\ DOMAIN requests' = DOMAIN requests /\ id \in DOMAIN requests
    /\ requests[id].grant = g /\ g \in DOMAIN grants
    /\ requests'[id].operation = requests[id].operation /\ requests'[id].grant = g
    /\ \A x \in DOMAIN requests : x # id => requests'[x] = requests[x]
    /\ DOMAIN grants' = DOMAIN grants
    /\ \A x \in DOMAIN grants : x # g => grants'[x] = grants[x]
    /\ DOMAIN windows' = DOMAIN windows \cup {<<g, epoch>>}
    /\ \A x \in DOMAIN windows : x # <<g, epoch>> => windows'[x] = windows[x]

\* Request id gets a reservation of grant g ...
Takes(id, g, epoch, charge) ==
    /\ Touches(id, g, epoch) /\ charge = Charge(requests[id].operation)
    /\ requests[id].epoch = None /\ epoch # None /\ requests'[id].epoch = epoch
    /\ grants'[g].total = [grants[g].total EXCEPT !.reserved = @ + charge]
    /\ windows'[<<g, epoch>>] = [UsageIn(g, epoch) EXCEPT !.reserved = @ + charge]

\* ... or gives up the one it has, for a success or a failure.
Gives(id, g, epoch, charge, success) ==
    /\ Touches(id, g, epoch) /\ charge = Charge(requests[id].operation)
    /\ requests[id].epoch = epoch /\ epoch # None /\ requests'[id].epoch = None
    /\ <<g, epoch>> \in DOMAIN windows
    /\ grants'[g].total = Settled(grants[g].total, charge, success)
    /\ windows'[<<g, epoch>>] = Settled(windows[<<g, epoch>>], charge, success)
    /\ requests'[id].status = IF success THEN "Succeeded" ELSE "FailedDefinitive"

\* dispatch takes.
LEMMA DispatchTakes ==
    ASSUME IInv, NEW id \in DOMAIN requests, Dispatch(id)
    PROVE  \E g \in Grant, epoch \in Time, charge \in Nat : Takes(id, g, epoch, charge)
<1> DEFINE r == requests[id]
           o == r.operation
           g == r.grant
           charge == Charge(o)
           epoch == now \div Terms[g].windowLen
           w == <<g, epoch>>
           sent == [r EXCEPT !.epoch = epoch, !.frozen = now, !.status = "Submitted", !.attempt = 1]
           grant == [grants[g] EXCEPT !.total.reserved = @ + charge]
           usage == [UsageIn(g, epoch) EXCEPT !.reserved = @ + charge]
<1>1. /\ BooksInv /\ now \in Time /\ r \in Request
      /\ o \in Operation /\ g \in DOMAIN grants /\ g \in Grant
  BY RequestParts DEF IInv
<1>2. r.status = "ReadyToDispatch"
  BY DEF Dispatch, Authorized, EvidenceStands
<1>3. /\ grants' = [grants EXCEPT ![g] = grant] /\ windows' = Put(windows, w, usage)
      /\ requests' = [requests EXCEPT ![id] = sent]
  BY DEF Dispatch, Update
<1>4. charge \in Nat /\ epoch \in Time
  BY <1>1, ChargeType, EpochType
<1>5. epoch # None
  BY <1>4, NoneAssumption DEF NoneAssumption, Time
<1>6. r.epoch = None
  BY <1>1, <1>2 DEF BooksInv, RequestsCoherent, Unresolved
<1>7. grants[g] \in GrantRecord
  BY <1>1 DEF BooksInv, BooksTypeOK, IsMap
<1>8. grant.total = [grants[g].total EXCEPT !.reserved = @ + charge]
  BY <1>4, <1>7 DEF GrantRecord, Usage
<1>9. sent.operation = o /\ sent.grant = g /\ sent.epoch = epoch
  BY <1>1 DEF Request
<1> HIDE DEF grant, usage, sent, charge, epoch
<1>10. /\ DOMAIN requests' = DOMAIN requests /\ requests'[id] = sent
       /\ \A x \in DOMAIN requests : x # id => requests'[x] = requests[x]
  BY <1>1, <1>3 DEF BooksInv, BooksTypeOK, IsMap
<1>11. /\ DOMAIN grants' = DOMAIN grants /\ grants'[g] = grant
       /\ \A x \in DOMAIN grants : x # g => grants'[x] = grants[x]
  BY <1>1, <1>3 DEF BooksInv, BooksTypeOK, IsMap
<1>12. /\ DOMAIN windows' = DOMAIN windows \cup {w} /\ windows'[w] = usage
       /\ \A x \in DOMAIN windows : x # w => windows'[x] = windows[x]
  <2> HIDE DEF w
  <2> QED BY <1>3 DEF Put
<1>13. Touches(id, g, epoch)
  BY <1>1, <1>9, <1>10, <1>11, <1>12 DEF Touches
<1>14. Takes(id, g, epoch, charge)
  BY <1>5, <1>6, <1>8, <1>9, <1>10, <1>11, <1>12, <1>13 DEF Takes, usage, charge
<1> QED BY <1>1, <1>4, <1>14

\* Settling gives back.
LEMMA SettleGives ==
    ASSUME BooksInv, NEW id \in DOMAIN requests, NEW success \in BOOLEAN, NEW block,
           SettleRecord(id, success, block)
    PROVE  \E g \in Grant, epoch \in Time, charge \in Nat : Gives(id, g, epoch, charge, success)
<1> DEFINE r == requests[id]
           g == r.grant
           epoch == r.epoch
           charge == Charge(r.operation)
           w == <<g, epoch>>
           status == IF success THEN "Succeeded" ELSE "FailedDefinitive"
           done == [r EXCEPT !.epoch = None, !.block = block, !.status = status]
           grant == [grants[g] EXCEPT !.total = Settled(@, charge, success)]
           usage == Settled(windows[w], charge, success)
<1>1. r \in Request /\ r.operation \in Operation /\ g \in DOMAIN grants /\ g \in Grant
  BY RequestParts
<1>2. epoch # None /\ w \in DOMAIN windows
  BY DEF SettleRecord, CanSettle
<1>3. /\ grants' = [grants EXCEPT ![g] = grant] /\ windows' = [windows EXCEPT ![w] = usage]
      /\ requests' = [requests EXCEPT ![id] = done]
  BY DEF SettleRecord, Update
<1>4. charge \in Nat /\ epoch \in Time
  BY <1>1, <1>2, ChargeType DEF Request
<1>5. grant.total = Settled(grants[g].total, charge, success)
  BY <1>1 DEF BooksInv, BooksTypeOK, IsMap, GrantRecord
<1>6. done.operation = r.operation /\ done.grant = g /\ done.epoch = None /\ done.status = status
  BY <1>1 DEF Request
<1> HIDE DEF grant, usage, done, charge, status
<1>7. /\ DOMAIN requests' = DOMAIN requests /\ requests'[id] = done
      /\ \A x \in DOMAIN requests : x # id => requests'[x] = requests[x]
  BY <1>1, <1>3 DEF BooksInv, BooksTypeOK, IsMap
<1>8. /\ DOMAIN grants' = DOMAIN grants /\ grants'[g] = grant
      /\ \A x \in DOMAIN grants : x # g => grants'[x] = grants[x]
  BY <1>1, <1>3 DEF BooksInv, BooksTypeOK, IsMap
<1>9. /\ DOMAIN windows' = DOMAIN windows \cup {w} /\ windows'[w] = usage
      /\ \A x \in DOMAIN windows : x # w => windows'[x] = windows[x]
  <2>1. windows \in [DOMAIN windows -> Usage]
    BY DEF BooksInv, BooksTypeOK, IsMap
  <2> HIDE DEF w
  <2> QED BY <1>2, <1>3, <2>1
<1>10. Touches(id, g, epoch)
  BY <1>1, <1>6, <1>7, <1>8, <1>9 DEF Touches
<1>11. Gives(id, g, epoch, charge, success)
  BY <1>2, <1>5, <1>6, <1>7, <1>8, <1>9, <1>10 DEF Gives, usage, charge, status
<1> QED BY <1>1, <1>4, <1>11

\* Every request but id keeps its charge, and so does every sum.
LEMMA TouchSums ==
    ASSUME IInv, BudgetInv, NEW id, NEW g, NEW epoch, Touches(id, g, epoch)
    PROVE  /\ \A S \in SUBSET DOMAIN requests : Reserves(S)' = Reserves(S)
           /\ \A S \in SUBSET DOMAIN requests :
                id \in S => Reserves(S) = Reserves(S \ {id}) + Charge(requests[id].operation)
           /\ \A S \in SUBSET DOMAIN requests : Reserves(S) \in Nat
           /\ Charge(requests[id].operation) \in Nat
<1>1. BooksInv /\ IsFiniteSet(DOMAIN requests) /\ id \in DOMAIN requests
  BY DEF IInv, BudgetInv, Touches
<1>2. \A x \in DOMAIN requests : requests'[x].operation = requests[x].operation
  BY DEF Touches
<1>3. \A S \in SUBSET DOMAIN requests : Reserves(S)' = Reserves(S)
  BY <1>1, <1>2, SameSum DEF Touches
<1>4. ASSUME NEW S \in SUBSET DOMAIN requests, id \in S
      PROVE  Reserves(S) = Reserves(S \ {id}) + Charge(requests[id].operation)
  <2>1. /\ IsFiniteSet(S) /\ Charges[id] = Charge(requests[id].operation)
        /\ \A x \in S : Charges[x] \in Nat
    BY <1>1, <1>4, HeldSums
  <2> HIDE DEF Charges
  <2>2. /\ SumFunctionOnSet(Charges, S) = Charges[id] + SumFunctionOnSet(Charges, S \ {id})
        /\ SumFunctionOnSet(Charges, S \ {id}) \in Nat /\ Charges[id] \in Nat
    BY <1>4, <2>1, SumRemove
  <2> QED BY <2>1, <2>2 DEF Reserves
<1>5. \A S \in SUBSET DOMAIN requests : Reserves(S) \in Nat
  BY <1>1, HeldSums
<1>6. Charge(requests[id].operation) \in Nat
  BY <1>1, RequestParts, ChargeType
<1> QED BY <1>3, <1>4, <1>5, <1>6

\* Windows are named by a grant and an epoch.
LEMMA WindowPair ==
    ASSUME BooksInv, NEW w \in DOMAIN windows
    PROVE  w = <<w[1], w[2]>> /\ windows[w] \in Usage
<1>1. w \in Grant \X Time /\ windows[w] \in Usage
  BY DEF BooksInv, BooksTypeOK, IsMap
<1> QED BY <1>1

\* A request that takes budget joins those that hold some, and both usages count it.
LEMMA TakeKeepsBudget ==
    ASSUME IInv, BudgetInv, NEW id, NEW g, NEW epoch, NEW charge, Takes(id, g, epoch, charge)
    PROVE  BudgetInv'
<1> DEFINE w == <<g, epoch>>
<1>1. /\ BooksInv /\ IsFiniteSet(DOMAIN requests) /\ Touches(id, g, epoch)
      /\ charge = Charge(requests[id].operation)
  BY DEF IInv, BudgetInv, Takes
<1>2. /\ \A S \in SUBSET DOMAIN requests : Reserves(S)' = Reserves(S)
      /\ \A S \in SUBSET DOMAIN requests : id \in S => Reserves(S) = Reserves(S \ {id}) + charge
      /\ \A S \in SUBSET DOMAIN requests : Reserves(S) \in Nat
      /\ charge \in Nat
  BY <1>1, TouchSums
<1>3. Holding' = Holding \cup {id} /\ id \notin Holding /\ Holding \subseteq DOMAIN requests
  BY DEF Holding, Takes, Touches
<1>4. /\ Held(g)' = Held(g) \cup {id} /\ id \notin Held(g)
      /\ \A x : x # g => Held(x)' = Held(x)
      /\ \A x : Held(x) \in SUBSET DOMAIN requests
  BY <1>3 DEF Held, Takes, Touches
<1>5. /\ HeldIn(g, epoch)' = HeldIn(g, epoch) \cup {id} /\ id \notin HeldIn(g, epoch)
      /\ \A x, e : HeldIn(x, e) \in SUBSET DOMAIN requests
  BY <1>4 DEF HeldIn, Takes, Touches
<1>6. ASSUME NEW x, NEW e, <<x, e>> # w PROVE HeldIn(x, e)' = HeldIn(x, e)
  <2>1. requests'[id].grant = g /\ requests'[id].epoch = epoch
    BY DEF Takes, Touches
  <2>2. x # g \/ e # epoch
    BY <1>6
  <2> QED BY <1>3, <1>4, <2>1, <2>2 DEF HeldIn, Held, Takes, Touches
<1>7. \A x \in Holding' : <<requests'[x].grant, requests'[x].epoch>> \in DOMAIN windows'
  BY <1>3 DEF BudgetInv, Takes, Touches
<1>8. ASSUME NEW S \in SUBSET DOMAIN requests, id \notin S
      PROVE  Reserves(S \cup {id})' = Reserves(S) + charge
  <2>1. (S \cup {id}) \ {id} = S /\ S \cup {id} \in SUBSET DOMAIN requests
    BY <1>1, <1>8 DEF Touches
  <2>2. Reserves(S \cup {id}) = Reserves(S) + charge
    BY <1>2, <2>1
  <2> QED BY <1>2, <2>1, <2>2
<1>9. ASSUME NEW x \in DOMAIN grants' PROVE (grants[x].total.reserved = Reserves(Held(x)))'
  <2>1. grants[x].total.reserved = Reserves(Held(x)) /\ x \in DOMAIN grants
    BY DEF BudgetInv, Takes, Touches
  <2>2. CASE x = g
    <3>1. grants[g].total \in Usage
      BY <1>1 DEF Touches, BooksInv, BooksTypeOK, IsMap, GrantRecord
    <3>2. grants'[g].total.reserved = grants[g].total.reserved + charge
      BY <1>2, <3>1 DEF Takes, Usage
    <3>3. Reserves(Held(g))' = Reserves(Held(g)) + charge
      BY <1>4, <1>8
    <3> QED BY <2>1, <2>2, <3>2, <3>3
  <2>3. CASE x # g
    <3>1. grants'[x] = grants[x]
      BY <2>1, <2>3 DEF Takes, Touches
    <3>2. Reserves(Held(x))' = Reserves(Held(x))
      BY <1>2, <1>4, <2>3
    <3> QED BY <2>1, <3>1, <3>2
  <2> QED BY <2>2, <2>3
<1>10. windows'[w].reserved = Reserves(HeldIn(g, epoch))'
  <2>1. UsageIn(g, epoch) \in Usage /\ UsageIn(g, epoch).reserved = Reserves(HeldIn(g, epoch))
    <3>1. CASE w \in DOMAIN windows
      <4>1. w[1] = g /\ w[2] = epoch
        OBVIOUS
      <4> QED BY <1>1, <3>1, <4>1, WindowPair DEF BudgetInv, UsageIn
    <3>2. CASE w \notin DOMAIN windows
      <4>1. HeldIn(g, epoch) = {}
        BY <3>2 DEF BudgetInv, HeldIn, Held
      <4>2. Reserves({}) = 0
        BY SumEmpty DEF Reserves
      <4> QED BY <3>2, <4>1, <4>2 DEF UsageIn, NoUsage, Usage
    <3> QED BY <3>1, <3>2
  <2>2. windows'[w].reserved = UsageIn(g, epoch).reserved + charge
    BY <1>2, <2>1 DEF Takes, Usage
  <2>3. Reserves(HeldIn(g, epoch))' = Reserves(HeldIn(g, epoch)) + charge
    BY <1>5, <1>8
  <2> QED BY <2>1, <2>2, <2>3
<1>11. ASSUME NEW x \in DOMAIN windows'
       PROVE  (x[1] \in DOMAIN grants /\ windows[x].reserved = Reserves(HeldIn(x[1], x[2])))'
  <2>1. CASE x = w
    <3>1. x[1] = g /\ x[2] = epoch /\ g \in DOMAIN grants'
      BY <2>1 DEF Takes, Touches
    <3> QED BY <1>10, <2>1, <3>1
  <2>2. CASE x # w
    <3>1. x \in DOMAIN windows /\ windows'[x] = windows[x] /\ DOMAIN grants' = DOMAIN grants
      BY <2>2 DEF Takes, Touches
    <3>2. x[1] \in DOMAIN grants /\ windows[x].reserved = Reserves(HeldIn(x[1], x[2]))
      BY <3>1 DEF BudgetInv
    <3>3. <<x[1], x[2]>> # w
      BY <1>1, <2>2, <3>1, WindowPair
    <3>4. HeldIn(x[1], x[2])' = HeldIn(x[1], x[2])
      BY <1>6, <3>3
    <3>5. Reserves(HeldIn(x[1], x[2]))' = Reserves(HeldIn(x[1], x[2]))
      BY <1>2, <1>5, <3>4
    <3> QED BY <3>1, <3>2, <3>5
  <2> QED BY <2>1, <2>2
<1>12. IsFiniteSet(DOMAIN requests')
  BY <1>1 DEF Touches
<1> QED BY <1>7, <1>9, <1>11, <1>12 DEF BudgetInv

\* A request that gives its budget up leaves those that hold some, and neither
\* usage counts it any more, whatever the outcome.
LEMMA GiveKeepsBudget ==
    ASSUME IInv, BudgetInv, NEW id, NEW g, NEW epoch, NEW charge, NEW success \in BOOLEAN,
           Gives(id, g, epoch, charge, success)
    PROVE  BudgetInv'
<1> DEFINE w == <<g, epoch>>
<1>1. /\ BooksInv /\ IsFiniteSet(DOMAIN requests) /\ Touches(id, g, epoch)
      /\ charge = Charge(requests[id].operation)
  BY DEF IInv, BudgetInv, Gives
<1>2. /\ \A S \in SUBSET DOMAIN requests : Reserves(S)' = Reserves(S)
      /\ \A S \in SUBSET DOMAIN requests : id \in S => Reserves(S) = Reserves(S \ {id}) + charge
      /\ \A S \in SUBSET DOMAIN requests : Reserves(S) \in Nat
      /\ charge \in Nat
  BY <1>1, TouchSums
<1>3. Holding' = Holding \ {id} /\ id \in Holding /\ Holding \subseteq DOMAIN requests
  BY DEF Holding, Gives, Touches
<1>4. /\ Held(g)' = Held(g) \ {id} /\ id \in Held(g)
      /\ \A x : x # g => Held(x)' = Held(x)
      /\ \A x : Held(x) \in SUBSET DOMAIN requests
  BY <1>3 DEF Held, Gives, Touches
<1>5. /\ HeldIn(g, epoch)' = HeldIn(g, epoch) \ {id} /\ id \in HeldIn(g, epoch)
      /\ \A x, e : HeldIn(x, e) \in SUBSET DOMAIN requests
  BY <1>4 DEF HeldIn, Gives, Touches
<1>6. ASSUME NEW x, NEW e, <<x, e>> # w PROVE HeldIn(x, e)' = HeldIn(x, e)
  <2>1. requests[id].grant = g /\ requests[id].epoch = epoch /\ requests'[id].grant = g
    BY DEF Gives, Touches
  <2>2. x # g \/ e # epoch
    BY <1>6
  <2> QED BY <1>3, <1>4, <2>1, <2>2 DEF HeldIn, Held, Gives, Touches
<1>7. \A x \in Holding' : <<requests'[x].grant, requests'[x].epoch>> \in DOMAIN windows'
  BY <1>3 DEF BudgetInv, Gives, Touches
<1>8. ASSUME NEW S \in SUBSET DOMAIN requests, id \in S
      PROVE  Reserves(S \ {id})' = Reserves(S) - charge
  <2>1. S \ {id} \in SUBSET DOMAIN requests
    OBVIOUS
  <2>2. Reserves(S) = Reserves(S \ {id}) + charge /\ Reserves(S \ {id}) \in Nat
    BY <1>2, <1>8, <2>1
  <2> QED BY <1>2, <2>1, <2>2
<1>9. ASSUME NEW u \in Usage PROVE Settled(u, charge, success).reserved = u.reserved - charge
  BY DEF Settled
<1>10. ASSUME NEW x \in DOMAIN grants' PROVE (grants[x].total.reserved = Reserves(Held(x)))'
  <2>1. grants[x].total.reserved = Reserves(Held(x)) /\ x \in DOMAIN grants
    BY DEF BudgetInv, Gives, Touches
  <2>2. CASE x = g
    <3>1. grants[g].total \in Usage
      BY <1>1 DEF Touches, BooksInv, BooksTypeOK, IsMap, GrantRecord
    <3>2. grants'[g].total.reserved = grants[g].total.reserved - charge
      BY <1>9, <3>1 DEF Gives
    <3>3. Reserves(Held(g))' = Reserves(Held(g)) - charge
      BY <1>4, <1>8
    <3> QED BY <2>1, <2>2, <3>2, <3>3
  <2>3. CASE x # g
    <3>1. grants'[x] = grants[x]
      BY <2>1, <2>3 DEF Gives, Touches
    <3>2. Reserves(Held(x))' = Reserves(Held(x))
      BY <1>2, <1>4, <2>3
    <3> QED BY <2>1, <3>1, <3>2
  <2> QED BY <2>2, <2>3
<1>11. windows'[w].reserved = Reserves(HeldIn(g, epoch))'
  <2>1. windows[w] \in Usage /\ windows[w].reserved = Reserves(HeldIn(g, epoch))
    <3>1. w \in DOMAIN windows /\ w[1] = g /\ w[2] = epoch
      BY DEF Gives
    <3> QED BY <1>1, <3>1, WindowPair DEF BudgetInv
  <2>2. windows'[w].reserved = windows[w].reserved - charge
    BY <1>9, <2>1 DEF Gives
  <2>3. Reserves(HeldIn(g, epoch))' = Reserves(HeldIn(g, epoch)) - charge
    BY <1>5, <1>8
  <2> QED BY <2>1, <2>2, <2>3
<1>12. ASSUME NEW x \in DOMAIN windows'
       PROVE  (x[1] \in DOMAIN grants /\ windows[x].reserved = Reserves(HeldIn(x[1], x[2])))'
  <2>1. CASE x = w
    <3>1. x[1] = g /\ x[2] = epoch /\ g \in DOMAIN grants'
      BY <2>1 DEF Gives, Touches
    <3> QED BY <1>11, <2>1, <3>1
  <2>2. CASE x # w
    <3>1. x \in DOMAIN windows /\ windows'[x] = windows[x] /\ DOMAIN grants' = DOMAIN grants
      BY <2>2 DEF Gives, Touches
    <3>2. x[1] \in DOMAIN grants /\ windows[x].reserved = Reserves(HeldIn(x[1], x[2]))
      BY <3>1 DEF BudgetInv
    <3>3. <<x[1], x[2]>> # w
      BY <1>1, <2>2, <3>1, WindowPair
    <3>4. HeldIn(x[1], x[2])' = HeldIn(x[1], x[2])
      BY <1>6, <3>3
    <3>5. Reserves(HeldIn(x[1], x[2]))' = Reserves(HeldIn(x[1], x[2]))
      BY <1>2, <1>5, <3>4
    <3> QED BY <3>1, <3>2, <3>5
  <2> QED BY <2>1, <2>2
<1>13. IsFiniteSet(DOMAIN requests')
  BY <1>1 DEF Touches
<1> QED BY <1>7, <1>10, <1>12, <1>13 DEF BudgetInv

\* A request that is written but keeps its operation, its grant and its hold.
LEMMA AdjustIsQuiet ==
    ASSUME BooksInv, IsFiniteSet(DOMAIN requests), NEW id \in DOMAIN requests, NEW r,
           r.operation = requests[id].operation, r.grant = requests[id].grant,
           r.epoch = requests[id].epoch,
           Update(id, r), UNCHANGED <<grants, windows>>
    PROVE  Quiet
<1>1. /\ DOMAIN requests' = DOMAIN requests /\ requests'[id] = r
      /\ \A x \in DOMAIN requests : x # id => requests'[x] = requests[x]
  BY DEF BooksInv, BooksTypeOK, IsMap, Update
<1> QED BY <1>1 DEF Quiet

\* So is a step that writes neither requests nor usages.
LEMMA StayIsQuiet ==
    ASSUME IsFiniteSet(DOMAIN requests), UNCHANGED <<grants, windows, requests>> PROVE Quiet
BY DEF Quiet

\* Stopped, Doubtful and Ruled keep operation, grant and hold.
KeepsTerms(r, s) == r.operation = s.operation /\ r.grant = s.grant /\ r.epoch = s.epoch

\* What the handlers write into a request keeps its terms.
LEMMA WritesKeepTerms ==
    ASSUME NEW r \in Request
    PROVE  /\ \A status : KeepsTerms(Stopped(r, status), r)
           /\ KeepsTerms(Doubtful(r), r) /\ KeepsTerms(AfterLostCall(r), r)
           /\ KeepsTerms(Recovered(r), r)
           /\ \A e, receipt : KeepsTerms(Judged(r, e, receipt), r)
           /\ \A status : KeepsTerms([r EXCEPT !.status = status], r)
<1>1. \A status : KeepsTerms(Stopped(r, status), r)
  BY DEF Stopped, KeepsTerms, Request
<1>2. KeepsTerms(Doubtful(r), r)
  BY DEF Doubtful, KeepsTerms, Request
<1>3. KeepsTerms(AfterLostCall(r), r)
  BY <1>1 DEF AfterLostCall, KeepsTerms, Request
<1>4. KeepsTerms(Recovered(r), r)
  BY <1>1, <1>2 DEF Recovered, Interrupted, KeepsTerms
<1>5. ASSUME NEW e, NEW receipt PROVE KeepsTerms(Judged(r, e, receipt), r)
  <2>1. ASSUME NEW status, NEW receipts
        PROVE  KeepsTerms([Stopped(r, status) EXCEPT !.receipts = receipts], r)
    BY DEF Stopped, KeepsTerms, Request
  <2>2. KeepsTerms(Ruled(r, receipt), r)
    BY <2>1 DEF Ruled
  <2> QED BY <1>1, <2>2 DEF Judged
<1>6. \A status : KeepsTerms([r EXCEPT !.status = status], r)
  BY DEF KeepsTerms, Request
<1> QED BY <1>1, <1>2, <1>3, <1>4, <1>5, <1>6

\* Every message is quiet, takes one reservation or gives one up.
BudgetStep ==
    \/ Quiet
    \/ \E id \in RequestId, g \in Grant, epoch \in Time, charge \in Nat : Takes(id, g, epoch, charge)
    \/ \E id \in RequestId, g \in Grant, epoch \in Time, charge \in Nat, success \in BOOLEAN :
         Gives(id, g, epoch, charge, success)

\* The continuation of an engine call writes nothing that the budget depends on.
LEMMA ContinueIsQuiet ==
    ASSUME IInv, IsFiniteSet(DOMAIN requests), NEW c \in engineCalls, NEW r, Continue(c, r),
           KeepsTerms(r, requests[c.evaluation.request])
    PROVE  Quiet
<1> DEFINE id == c.evaluation.request
<1>1. id \in DOMAIN requests /\ BooksInv /\ UNCHANGED <<grants, windows>>
  BY DEF IInv, CallsInv, CallsHaveRequests, Continue
<1>2. CASE Update(id, r)
  BY <1>1, <1>2, AdjustIsQuiet DEF KeepsTerms
<1>3. CASE UNCHANGED requests
  BY <1>1, <1>3, StayIsQuiet
<1> QED BY <1>2, <1>3 DEF Continue

\* Steps of the engine are quiet.
LEMMA EngineIsQuiet ==
    ASSUME IInv, IsFiniteSet(DOMAIN requests), EngineStep
    PROVE  Quiet
<1>1. ASSUME NEW c \in engineCalls
      PROVE  requests[c.evaluation.request] \in Request
  BY RequestParts DEF IInv, CallsInv, CallsHaveRequests
<1>2. ASSUME NEW c \in engineCalls, NEW receipt, FinishEvaluation(c, receipt) PROVE Quiet
  <2> DEFINE id == c.evaluation.request
             r == IF Current(id) THEN Judged(requests[id], c.evaluation, receipt)
                  ELSE Stopped(requests[id], "Stale")
  <2>1. KeepsTerms(r, requests[id])
    BY <1>1, WritesKeepTerms
  <2>2. Continue(c, r)
    BY <1>2 DEF FinishEvaluation
  <2> HIDE DEF r
  <2> QED BY <2>1, <2>2, ContinueIsQuiet
<1>3. ASSUME NEW c \in engineCalls, RefuseEvaluation(c) PROVE Quiet
  <2> DEFINE id == c.evaluation.request
             r == Stopped(requests[id], IF Current(id) THEN "NeedsReview" ELSE "Stale")
  <2>1. KeepsTerms(r, requests[id])
    BY <1>1, WritesKeepTerms
  <2>2. Continue(c, r)
    BY <1>3 DEF RefuseEvaluation
  <2> HIDE DEF r
  <2> QED BY <2>1, <2>2, ContinueIsQuiet
<1>4. ASSUME NEW c \in engineCalls, EngineTransportFailed(c) PROVE Quiet
  BY <1>1, <1>4, WritesKeepTerms, ContinueIsQuiet DEF EngineTransportFailed
<1>5. ASSUME NEW c \in engineCalls, EngineCallbackTraps(c) PROVE Quiet
  BY <1>5, StayIsQuiet DEF EngineCallbackTraps, books
<1> QED BY <1>2, <1>3, <1>4, <1>5 DEF EngineStep, EngineReturns

\* The owner registers grants that are unused and revokes without touching usage.
LEMMA OwnerIsQuiet ==
    ASSUME IInv, IsFiniteSet(DOMAIN requests), OwnerStep
    PROVE  Quiet
<1>1. ASSUME NEW m, SetMode(m) PROVE Quiet
  BY <1>1, StayIsQuiet DEF SetMode, books
<1>2. ASSUME NEW b, SetPaused(b) PROVE Quiet
  BY <1>2, StayIsQuiet DEF SetPaused, books
<1>3. ASSUME NEW p, InstallPlan(p) PROVE Quiet
  BY <1>3, StayIsQuiet DEF InstallPlan, books
<1>4. ASSUME NEW o, InstallOperation(o) \/ ReviseOperation(o) PROVE Quiet
  BY <1>4, StayIsQuiet DEF InstallOperation, ReviseOperation
<1>5. ASSUME NEW l, RegisterMockLedger(l) PROVE Quiet
  BY <1>5, StayIsQuiet DEF RegisterMockLedger, books
<1>6. ASSUME NEW g \in Grant, InstallGrant(g) PROVE Quiet
  BY <1>6 DEF InstallGrant, Quiet, Put
<1>7. ASSUME NEW g \in Grant, Revoke(g) PROVE Quiet
  <2>1. grants \in [DOMAIN grants -> GrantRecord]
    BY DEF IInv, BooksInv, BooksTypeOK, IsMap
  <2>2. \A x \in DOMAIN grants : grants'[x].total = grants[x].total
    BY <1>7, <2>1 DEF Revoke, GrantRecord
  <2>3. DOMAIN grants' = DOMAIN grants /\ UNCHANGED <<windows, requests>>
    BY <1>7 DEF Revoke
  <2> QED BY <2>2, <2>3 DEF Quiet
<1> QED BY <1>1, <1>2, <1>3, <1>4, <1>5, <1>6, <1>7 DEF OwnerStep

\* A client's message takes budget only in dispatch.
LEMMA ClientBudget ==
    ASSUME IInv, IsFiniteSet(DOMAIN requests), ClientStep
    PROVE  BudgetStep
<1>1. BooksInv
  BY DEF IInv
<1>2. ASSUME NEW caller \in Delegate, NEW o \in Operation, NEW g \in Grant, Submit(caller, o, g)
      PROVE  Quiet
  <2> DEFINE id == [caller |-> caller, nonce |-> NextNonceOf(caller)]
  <2>1. PICK r : requests' = Put(requests, id, r) /\ r.epoch = None /\ r.status = "Received"
    BY <1>2 DEF Submit
  <2>2. id \notin DOMAIN requests
    <3>1. NextNonceOf(caller) \in Nat
      BY <1>1 DEF BooksInv, BooksTypeOK, IsMap, NextNonceOf
    <3> QED BY <1>1, <3>1 DEF BooksInv, NoncesConsumed
  <2>3. UNCHANGED <<grants, windows>>
    BY <1>2 DEF Submit
  <2> HIDE DEF id
  <2>4. /\ DOMAIN requests' = DOMAIN requests \cup {id} /\ requests'[id] = r
        /\ \A x \in DOMAIN requests : requests'[x] = requests[x]
    BY <2>1, <2>2 DEF Put
  <2>5. IsFiniteSet(DOMAIN requests')
    BY <2>4, FS_AddElement
  <2> QED BY <2>1, <2>3, <2>4, <2>5 DEF Quiet
<1>3. ASSUME NEW id \in DOMAIN requests PROVE requests[id] \in Request /\ id \in RequestId
  BY <1>1, RequestParts
<1>4. ASSUME NEW id \in DOMAIN requests, BeginEvaluation(id) PROVE Quiet
  <2> DEFINE r == requests[id]
  <2>1. KeepsTerms([r EXCEPT !.status = "Evaluating", !.inFlight = TRUE, !.sends = @ + 1], r)
    BY <1>3 DEF KeepsTerms, Request
  <2>2. KeepsTerms(Stopped(r, "Stale"), r)
    BY <1>3, WritesKeepTerms
  <2> QED BY <1>1, <1>4, <2>1, <2>2, AdjustIsQuiet DEF BeginEvaluation, KeepsTerms
<1>5. ASSUME NEW id \in DOMAIN requests, Report(id) PROVE Quiet
  <2>1. KeepsTerms([requests[id] EXCEPT !.status = "Reported"], requests[id])
    BY <1>3 DEF KeepsTerms, Request
  <2> QED BY <1>1, <1>5, <2>1, AdjustIsQuiet DEF Report, KeepsTerms
<1>6. ASSUME NEW id \in DOMAIN requests, RetryUnknown(id) PROVE Quiet
  <2> DEFINE r == requests[id]
  <2>1. KeepsTerms([r EXCEPT !.attempt = @ + 1, !.status = "Submitted"], r)
    BY <1>3 DEF KeepsTerms, Request
  <2> QED BY <1>1, <1>6, <2>1, AdjustIsQuiet DEF RetryUnknown, KeepsTerms
<1>7. ASSUME NEW id \in DOMAIN requests, Reconcile(id) PROVE Quiet
  BY <1>7, StayIsQuiet DEF Reconcile, books
<1>8. ASSUME NEW id \in DOMAIN requests, Cancel(id) PROVE Quiet
  <2>1. KeepsTerms(Stopped(requests[id], "Cancelled"), requests[id])
    BY <1>3, WritesKeepTerms
  <2> QED BY <1>1, <1>8, <2>1, AdjustIsQuiet DEF Cancel, KeepsTerms
<1>9. ASSUME NEW id \in DOMAIN requests, Dispatch(id) PROVE BudgetStep
  BY <1>3, <1>9, DispatchTakes DEF BudgetStep
<1> QED BY <1>2, <1>4, <1>5, <1>6, <1>7, <1>8, <1>9 DEF ClientStep, BudgetStep

\* An answer of the ledger gives budget up only if it settles.
LEMMA FinishBudget ==
    ASSUME BooksInv, IsFiniteSet(DOMAIN requests), NEW cmd, cmd.request \in DOMAIN requests,
           NEW outcome, FinishLedger(cmd, outcome)
    PROVE  BudgetStep
<1> DEFINE id == cmd.request
<1>1. requests[id] \in Request /\ id \in RequestId
  BY RequestParts
<1>2. ASSUME NEW success \in BOOLEAN, NEW block, SettleRecord(id, success, block) PROVE BudgetStep
  BY <1>1, <1>2, SettleGives DEF BudgetStep
<1>3. CASE Update(id, Doubtful(requests[id])) /\ UNCHANGED <<operations, grants, windows>>
  BY <1>1, <1>3, WritesKeepTerms, AdjustIsQuiet DEF KeepsTerms, BudgetStep
<1>4. CASE UNCHANGED <<operations, grants, windows, requests>>
  BY <1>4, StayIsQuiet DEF BudgetStep
<1> QED BY <1>2, <1>3, <1>4 DEF FinishLedger

\* Each message, of anybody.
LEMMA BudgetSteps ==
    ASSUME IInv, IsFiniteSet(DOMAIN requests), [Next]_vars
    PROVE  BudgetStep
<1>1. CASE Tick \/ UNCHANGED vars
  BY <1>1, StayIsQuiet DEF Tick, vars, books, BudgetStep
<1>2. CASE OwnerStep
  BY <1>2, OwnerIsQuiet DEF BudgetStep
<1>3. CASE ClientStep
  BY <1>3, ClientBudget
<1>4. CASE EngineStep
  BY <1>4, EngineIsQuiet DEF BudgetStep
<1>5. CASE LedgerStep
  <2>1. ASSUME NEW cmd \in ledgerCalls \cup lookups PROVE cmd.request \in DOMAIN requests /\ BooksInv
    BY DEF IInv, CallsInv, CallsHaveRequests
  <2>2. ASSUME NEW cmd \in ledgerCalls, NEW outcome, LedgerReturns(cmd, outcome) PROVE BudgetStep
    BY <2>1, <2>2, FinishBudget DEF LedgerReturns
  <2>3. ASSUME NEW cmd \in lookups, NEW found, LookupReturns(cmd, found) PROVE BudgetStep
    BY <2>1, <2>3, FinishBudget DEF LookupReturns
  <2>4. ASSUME NEW cmd, LedgerCallbackTraps(cmd) \/ LookupFails(cmd) PROVE BudgetStep
    BY <2>4, StayIsQuiet DEF LedgerCallbackTraps, LookupFails, books, BudgetStep
  <2> QED BY <1>5, <2>2, <2>3, <2>4 DEF LedgerStep
<1>6. CASE Upgrade \/ ForcedUpgrade
  <2>1. \A id \in DOMAIN requests : KeepsTerms(Recovered(requests[id]), requests[id])
    BY RequestParts, WritesKeepTerms DEF IInv
  <2>2. requests' = [id \in DOMAIN requests |-> Recovered(requests[id])] /\ UNCHANGED <<grants, windows>>
    BY <1>6 DEF Upgrade, ForcedUpgrade, PostUpgrade
  <2>3. Quiet
    BY <2>1, <2>2 DEF Quiet, KeepsTerms
  <2> QED BY <2>3 DEF BudgetStep
<1> QED BY <1>1, <1>2, <1>3, <1>4, <1>5, <1>6 DEF Next

\* A canister starts with nothing held.
LEMMA InitBudget == Init => BudgetInv
<1> SUFFICES ASSUME Init PROVE BudgetInv
  OBVIOUS
<1>1. DOMAIN requests = {} /\ DOMAIN grants = {} /\ DOMAIN windows = {}
  BY DEF Init, EmptyMap
<1>2. IsFiniteSet(DOMAIN requests)
  BY <1>1, FS_EmptySet
<1> QED BY <1>1, <1>2 DEF BudgetInv, Holding

\* No message makes a usage differ from what is held.
LEMMA StepBudget == IInv /\ BudgetInv /\ [Next]_vars => BudgetInv'
<1> SUFFICES ASSUME IInv, BudgetInv, [Next]_vars PROVE BudgetInv'
  OBVIOUS
<1>1. BudgetStep
  BY BudgetSteps DEF BudgetInv
<1> QED BY <1>1, QuietKeepsBudget, TakeKeepsBudget, GiveKeepsBudget DEF BudgetStep

\* So the books always balance.
LEMMA BudgetInvariance == Spec => []BudgetInv
BY InitBudget, StepBudget, Invariance, PTL DEF Spec

\* check_invariants never traps.
THEOREM CheckHolds == Spec => []CheckInvariants
<1>1. IInv /\ BudgetInv => CheckInvariants
  BY BudgetMatches DEF IInv, BooksInv, CheckInvariants
<1> QED BY <1>1, Invariance, BudgetInvariance, PTL

\* Settling never fails.
THEOREM SettlementHolds == Spec => []SettlementPossible
<1>1. IInv /\ BudgetInv => SettlementPossible
  BY SettlingIsPossible DEF SettlementPossible
<1> QED BY <1>1, Invariance, BudgetInvariance, PTL
-----------------------------------------------------------------------------
(* What was spent.                                                         *)

\* The requests of a grant that were settled as a success.
PaidUnder(g) == {id \in DOMAIN requests : requests[id].status = "Succeeded" /\ requests[id].grant = g}

\* A grant has spent exactly what its successes charged.
SpentInv == \A g \in DOMAIN grants : grants[g].total.spent = Reserves(PaidUnder(g))

\* Quiet steps settle nothing.
LEMMA QuietKeepsSpent ==
    ASSUME IInv, IInv', BudgetInv, SpentInv, RequestsStep, Quiet
    PROVE  SpentInv'
<1>1. BooksInv /\ BooksInv' /\ IsFiniteSet(DOMAIN requests)
  BY DEF IInv, BudgetInv
<1>2. \A id \in DOMAIN requests : requests'[id].status = "Succeeded" <=> requests[id].status = "Succeeded"
  <2> SUFFICES ASSUME NEW id \in DOMAIN requests
               PROVE  requests'[id].status = "Succeeded" <=> requests[id].status = "Succeeded"
    OBVIOUS
  <2>1. /\ requests[id].epoch # None <=> requests[id].status \in Unresolved
        /\ requests'[id].epoch # None <=> requests'[id].status \in Unresolved
        /\ requests'[id].epoch = requests[id].epoch
    BY <1>1 DEF BooksInv, RequestsCoherent, Quiet
  <2>2. RequestStep(id)
    BY DEF RequestsStep
  <2>3. requests[id].status \in Unresolved => requests'[id].status \in Unresolved
    BY <2>1
  <2> QED BY <2>1, <2>2, <2>3 DEF RequestStep, SameHold, Unresolved
<1>3. \A g : PaidUnder(g)' = PaidUnder(g) /\ PaidUnder(g) \in SUBSET DOMAIN requests
  BY <1>2 DEF Quiet, PaidUnder
<1>4. \A S \in SUBSET DOMAIN requests : Reserves(S)' = Reserves(S)
  BY <1>1, SameSum DEF Quiet
<1>5. ASSUME NEW g \in DOMAIN grants' PROVE (grants[g].total.spent = Reserves(PaidUnder(g)))'
  <2>1. CASE g \in DOMAIN grants
    <3>1. grants[g].total.spent = Reserves(PaidUnder(g)) /\ grants'[g].total = grants[g].total
      BY <2>1 DEF Quiet, SpentInv
    <3>2. Reserves(PaidUnder(g))' = Reserves(PaidUnder(g))
      BY <1>3, <1>4
    <3> QED BY <3>1, <3>2
  <2>2. CASE g \notin DOMAIN grants
    <3>1. grants'[g].total.spent = 0
      BY <1>5, <2>2 DEF Quiet, NoUsage
    <3>2. PaidUnder(g) = {}
      BY <1>1, <2>2 DEF PaidUnder, BooksInv, RequestsCoherent
    <3>3. Reserves({})' = 0
      BY SumEmpty DEF Reserves
    <3> QED BY <1>3, <3>1, <3>2, <3>3
  <2> QED BY <2>1, <2>2
<1> QED BY <1>5 DEF SpentInv

\* Taking budget spends nothing.
LEMMA TakeKeepsSpent ==
    ASSUME IInv, IInv', BudgetInv, SpentInv, RequestsStep, NEW id, NEW g, NEW epoch, NEW charge,
           Takes(id, g, epoch, charge)
    PROVE  SpentInv'
<1>1. BooksInv /\ BooksInv' /\ Touches(id, g, epoch) /\ id \in DOMAIN requests
  BY DEF IInv, Takes, Touches
<1>2. requests[id].status # "Succeeded" /\ requests'[id].status # "Succeeded"
  <2>1. /\ requests[id].epoch = None /\ requests'[id].epoch # None /\ id \in DOMAIN requests'
    BY DEF Takes, Touches
  <2>2. RequestStep(id)
    BY <1>1 DEF RequestsStep
  <2>3. /\ requests'[id].status \in Unresolved /\ requests[id].status \notin Unresolved
        /\ requests[id].frozen = None => requests[id].status # "Succeeded"
    BY <1>1, <2>1 DEF BooksInv, RequestsCoherent
  <2>4. requests[id].frozen = None
    BY <2>1, <2>2, <2>3 DEF RequestStep, SameHold
  <2> QED BY <2>3, <2>4 DEF Unresolved
<1>3. \A x : PaidUnder(x)' = PaidUnder(x) /\ PaidUnder(x) \in SUBSET DOMAIN requests
  BY <1>2 DEF PaidUnder, Takes, Touches
<1>4. \A S \in SUBSET DOMAIN requests : Reserves(S)' = Reserves(S)
  BY <1>1, TouchSums
<1>5. ASSUME NEW x \in DOMAIN grants' PROVE (grants[x].total.spent = Reserves(PaidUnder(x)))'
  <2>1. x \in DOMAIN grants /\ grants[x].total.spent = Reserves(PaidUnder(x))
    BY DEF SpentInv, Takes, Touches
  <2>2. grants'[x].total.spent = grants[x].total.spent
    <3>1. CASE x = g
      <4>1. grants[g].total \in Usage
        BY <1>1 DEF Touches, BooksInv, BooksTypeOK, IsMap, GrantRecord
      <4> QED BY <3>1, <4>1 DEF Takes, Usage
    <3>2. CASE x # g
      BY <2>1, <3>2 DEF Takes, Touches
    <3> QED BY <3>1, <3>2
  <2>3. Reserves(PaidUnder(x))' = Reserves(PaidUnder(x))
    BY <1>3, <1>4
  <2> QED BY <2>1, <2>2, <2>3
<1> QED BY <1>5 DEF SpentInv

\* Giving budget up spends the charge if the transfer succeeded, and nothing else.
LEMMA GiveKeepsSpent ==
    ASSUME IInv, IInv', BudgetInv, SpentInv, NEW id, NEW g, NEW epoch, NEW charge,
           NEW success \in BOOLEAN, Gives(id, g, epoch, charge, success)
    PROVE  SpentInv'
<1>1. /\ BooksInv /\ Touches(id, g, epoch) /\ id \in DOMAIN requests
      /\ charge = Charge(requests[id].operation)
  BY DEF IInv, Gives, Touches
<1>2. /\ requests[id].status # "Succeeded" /\ requests[id].grant = g
      /\ requests'[id].status = "Succeeded" <=> success
  <2>1. requests[id].status \in Unresolved
    BY <1>1 DEF BooksInv, RequestsCoherent, Gives
  <2> QED BY <2>1 DEF Unresolved, Gives, Touches
<1>3. /\ \A S \in SUBSET DOMAIN requests : Reserves(S)' = Reserves(S)
      /\ \A S \in SUBSET DOMAIN requests : id \in S => Reserves(S) = Reserves(S \ {id}) + charge
  BY <1>1, TouchSums
<1>4. /\ \A x : PaidUnder(x) \in SUBSET DOMAIN requests /\ id \notin PaidUnder(x)
      /\ \A x : x # g \/ ~success => PaidUnder(x)' = PaidUnder(x)
      /\ success => PaidUnder(g)' = PaidUnder(g) \cup {id}
  BY <1>1, <1>2 DEF PaidUnder, Gives, Touches
<1>5. ASSUME NEW x \in DOMAIN grants' PROVE (grants[x].total.spent = Reserves(PaidUnder(x)))'
  <2>1. x \in DOMAIN grants /\ grants[x].total.spent = Reserves(PaidUnder(x))
    BY DEF SpentInv, Gives, Touches
  <2>2. CASE x # g
    <3>1. grants'[x] = grants[x]
      BY <2>1, <2>2 DEF Gives, Touches
    <3>2. Reserves(PaidUnder(x))' = Reserves(PaidUnder(x))
      BY <1>3, <1>4, <2>2
    <3> QED BY <2>1, <3>1, <3>2
  <2>3. CASE x = g /\ ~success
    <3>1. grants'[x].total.spent = grants[x].total.spent
      BY <2>3 DEF Gives, Settled
    <3>2. Reserves(PaidUnder(x))' = Reserves(PaidUnder(x))
      BY <1>3, <1>4, <2>3
    <3> QED BY <2>1, <3>1, <3>2
  <2>4. CASE x = g /\ success
    <3> DEFINE S == PaidUnder(g)
    <3>1. grants'[g].total.spent = grants[g].total.spent + charge
      BY <2>4 DEF Gives, Settled
    <3>2. /\ S \cup {id} \in SUBSET DOMAIN requests /\ (S \cup {id}) \ {id} = S
      BY <1>1, <1>4
    <3>3. Reserves(S \cup {id}) = Reserves(S) + charge
      <4> HIDE DEF S
      <4> QED BY <1>3, <3>2
    <3>4. Reserves(PaidUnder(g))' = Reserves(S \cup {id})
      <4>1. PaidUnder(g)' = S \cup {id}
        BY <1>4, <2>4
      <4> HIDE DEF S
      <4> QED BY <1>3, <3>2, <4>1
    <3> QED BY <2>1, <2>4, <3>1, <3>3, <3>4
  <2> QED BY <2>2, <2>3, <2>4
<1> QED BY <1>5 DEF SpentInv

\* No message makes what was spent differ from what succeeded.
LEMMA StepSpent == IInv /\ BudgetInv /\ SpentInv /\ [Next]_vars => SpentInv'
<1> SUFFICES ASSUME IInv, BudgetInv, SpentInv, [Next]_vars PROVE SpentInv'
  OBVIOUS
<1>1. BudgetStep
  BY BudgetSteps DEF BudgetInv
<1>2. IInv' /\ RequestsStep
  BY StepHolds
<1> QED BY <1>1, <1>2, QuietKeepsSpent, TakeKeepsSpent, GiveKeepsSpent DEF BudgetStep

\* A grant has spent exactly what the requests charged that were paid: nothing is
\* spent twice, and nothing that failed is spent.
THEOREM SpentHolds == Spec => []SpentInv
<1>1. Init => SpentInv
  BY DEF Init, SpentInv, EmptyMap
<1> QED BY <1>1, StepSpent, Invariance, BudgetInvariance, PTL DEF Spec

=============================================================================
