--------------------------- MODULE PaymentProofs ----------------------------
(***************************************************************************)
(* Theorems about Payment: whatever the network delays, drops or loses, an *)
(* operation is paid at most once, and what the executor says of a payment *)
(* is what the ledger did.  They rest on the invariant of ExecutorProofs,  *)
(* to which PayInv adds what the books of the ledger and the messages on   *)
(* their way have to do with the requests.                                 *)
(***************************************************************************)
EXTENDS Payment, ExecutorSafetyProofs

\* The transfer of request id, and the key under which the ledger books it.
Own(id) == TransferOf([request |-> id, attempt |-> 1, created |-> requests[id].frozen])
Entry(id) == <<Self, Own(id)>>
Paid(id) == Entry(id) \in DOMAIN records

Known(cmd) == cmd.request \in DOMAIN requests /\ requests[cmd.request].frozen = cmd.created
Sent(cmd) == Known(cmd) /\ cmd.attempt \in 1..requests[cmd.request].attempt

\* A transfer is marked once it is in doubt, and only one in doubt is sent again.
Counted(r) ==
    /\ r.frozen = None => r.attempt = 0
    /\ r.status = "OutcomeUnknown" => r.everUnknown
    /\ r.frozen # None /\ ~r.everUnknown => r.attempt = 1

CountInv == \A id \in DOMAIN requests : Counted(requests[id])

\* Everything on its way is about a transfer that was dispatched, with its arguments.
CommandsInv ==
    /\ \A cmd \in transit \cup ledgerCalls : Sent(cmd)
    /\ \A cmd \in lookups : Known(cmd)
    /\ \A a \in inspected : Known(a.cmd)

\* The ledger has booked nothing but dispatched transfers.
RecordsInv ==
    \A k \in DOMAIN records :
      LET id == k[2].memo IN
      id \in DOMAIN requests /\ requests[id].frozen # None /\ k = Entry(id)

\* A success is booked in the block that it names; a failure is not, and never will be.
VerdictsInv ==
    \A id \in DOMAIN requests :
      /\ requests[id].status = "Succeeded" =>
           Paid(id) /\ requests[id].block = records[Entry(id)]
      /\ requests[id].status = "FailedDefinitive" =>
           ~Paid(id) /\ \A cmd \in transit : cmd.request # id

\* A reply is the only one of a call that was executed and still waits; a success in it is
\* true, and an error, if the transfer was never in doubt, is final.
RepliesInv ==
    /\ \A a \in replies :
         LET id == a.cmd.request IN
         /\ a.cmd \in ledgerCalls /\ a.cmd \notin transit
         /\ a.reply.kind \in {"Ok", "Duplicate"} =>
              Paid(id) /\ a.reply.index = records[Entry(id)]
         /\ a.reply.kind = "Error" /\ ~requests[id].everUnknown =>
              ~Paid(id) /\ \A cmd \in transit : cmd.request # id
    /\ \A a, b \in replies : a.cmd = b.cmd => a = b

\* What a lookup found is there.
InspectedInv ==
    \A a \in inspected :
      a.found # None => Paid(a.cmd.request) /\ a.found = records[Entry(a.cmd.request)]

WireTypes ==
    /\ transit \subseteq Command
    /\ replies \subseteq [cmd : Command, reply : L!Reply]
    /\ inspected \subseteq [cmd : Command, found : Nat \cup {None}]

WireInv == CountInv /\ CommandsInv /\ RecordsInv /\ VerdictsInv /\ RepliesInv /\ InspectedInv

PayInv == IInv /\ L!LedgerTypeOK /\ WireTypes /\ WireInv
-----------------------------------------------------------------------------
(* How the executor moves on.                                              *)

\* What no step does to a request: its transfer stays the same, attempts and doubts remain.
Follows(r, s) ==
    /\ s.operation = r.operation /\ s.attempt >= r.attempt
    /\ r.everUnknown => s.everUnknown
    /\ r.frozen # None => s.frozen = r.frozen
    /\ Counted(r) => Counted(s)

\* No verdict is reached or lost.
SameVerdict(r, s) ==
    /\ s.block = r.block
    /\ s.status = "Succeeded" <=> r.status = "Succeeded"
    /\ s.status = "FailedDefinitive" <=> r.status = "FailedDefinitive"

Onward ==
    /\ DOMAIN requests \subseteq DOMAIN requests'
    /\ \A id \in DOMAIN requests : Follows(requests[id], requests'[id])
    /\ \A id \in DOMAIN requests' \ DOMAIN requests :
         requests'[id].frozen = None /\ requests'[id].attempt = 0 /\ requests'[id].status = "Received"

\* A verdict that is reached is true of the ledger.
Deserved(id) ==
    LET r == requests[id]
        s == requests'[id] IN
    \/ SameVerdict(r, s)
    \/ s.status = "Succeeded" /\ r.frozen # None /\ Paid(id) /\ s.block = records[Entry(id)]
    \/ s.status = "FailedDefinitive" /\ r.frozen # None /\ ~Paid(id) /\ \A cmd \in transit : cmd.request # id

\* A command that goes out is a first one, or the next one of a transfer in doubt.
Issued(cmd) ==
    LET id == cmd.request IN
    /\ id \in DOMAIN requests
    /\ requests'[id].frozen = cmd.created /\ requests'[id].attempt = cmd.attempt
    /\ cmd.created # None /\ cmd.attempt > requests[id].attempt
    /\ requests[id].frozen # None => requests[id].everUnknown
    /\ requests'[id].status = "Submitted"

\* A request that has a transfer keeps its entry.
LEMMA EntryStays ==
    ASSUME Onward, NEW id \in DOMAIN requests, requests[id].frozen # None
    PROVE  /\ Entry(id)' = Entry(id)
           /\ requests'[id].frozen = requests[id].frozen
<1>1. requests'[id].frozen = requests[id].frozen /\ requests'[id].operation = requests[id].operation
  BY DEF Onward, Follows
<1> QED BY <1>1 DEF Entry, Own, TransferOf

\* While the ledger books nothing, such steps keep what is known of the wires.
LEMMA WiresRemain ==
    ASSUME PayInv, IInv', Onward, \A id \in DOMAIN requests : Deserved(id), UNCHANGED records,
           transit' \subseteq transit \cup (ledgerCalls' \ ledgerCalls),
           \A cmd \in ledgerCalls' \ ledgerCalls : Issued(cmd),
           \A cmd \in lookups' \ lookups : Known(cmd)',
           replies' \subseteq replies, \A a \in replies' : a.cmd \in ledgerCalls',
           inspected' \subseteq inspected
    PROVE  WireInv'
<1>1. /\ \A id \in DOMAIN requests : requests[id] \in Request
      /\ \A id \in DOMAIN requests' : requests'[id] \in Request
  BY DEF PayInv, IInv, BooksInv, BooksTypeOK, IsMap
<1>2. ASSUME NEW id \in DOMAIN requests, requests[id].frozen # None
      PROVE  /\ Entry(id)' = Entry(id) /\ requests'[id].frozen = requests[id].frozen
             /\ id \in DOMAIN requests' /\ (Paid(id)' <=> Paid(id))
  BY <1>2, EntryStays DEF Onward, Paid
<1>3. CountInv'
  BY DEF PayInv, WireInv, CountInv, Onward, Counted, Follows
<1>4. ASSUME NEW cmd, Known(cmd), cmd.created # None PROVE Known(cmd)'
  BY <1>2, <1>4 DEF Known
<1>5. \A cmd \in Command : cmd.created # None
  BY NoneAssumption, BoundAssumption DEF Command, Time, NoneAssumption
<1>6. \A cmd \in transit \cup ledgerCalls \cup lookups : cmd.created # None
  BY <1>5 DEF PayInv, WireTypes, IInv, CallsInv, CallsTypeOK
<1>7. CommandsInv'
  <2>1. ASSUME NEW cmd \in transit \cup ledgerCalls PROVE Sent(cmd)'
    <3>1. Sent(cmd)
      BY DEF PayInv, WireInv, CommandsInv
    <3>2. Known(cmd)'
      BY <1>4, <1>6, <3>1 DEF Sent
    <3>3. requests'[cmd.request].attempt >= requests[cmd.request].attempt
      BY <3>1 DEF Sent, Known, Onward, Follows
    <3>4. requests[cmd.request].attempt \in Nat /\ requests'[cmd.request].attempt \in Nat
      BY <1>1, <3>1, <3>2 DEF Sent, Known, Request, MaxAttempts
    <3> QED BY <3>1, <3>2, <3>3, <3>4 DEF Sent
  <2>2. ASSUME NEW cmd \in ledgerCalls' \ ledgerCalls PROVE Sent(cmd)'
    <3>1. Issued(cmd) /\ cmd.request \in DOMAIN requests'
      BY <2>2 DEF Issued, Onward
    <3>2. requests[cmd.request].attempt \in Nat /\ requests'[cmd.request].attempt \in Nat
      BY <1>1, <3>1 DEF Issued, Request, MaxAttempts
    <3> QED BY <3>1, <3>2 DEF Issued, Sent, Known
  <2>3. \A cmd \in lookups' : Known(cmd)'
    BY <1>4, <1>6 DEF PayInv, WireInv, CommandsInv
  <2>4. \A a \in inspected' : Known(a.cmd)'
    <3> SUFFICES ASSUME NEW a \in inspected PROVE Known(a.cmd)'
      OBVIOUS
    <3>1. a.cmd \in Command
      BY DEF PayInv, WireTypes
    <3> QED BY <1>4, <1>5, <3>1 DEF PayInv, WireInv, CommandsInv
  <2> QED BY <2>1, <2>2, <2>3, <2>4 DEF CommandsInv
<1>8. RecordsInv'
  BY <1>2 DEF PayInv, WireInv, RecordsInv
<1>9. VerdictsInv'
  <2> SUFFICES ASSUME NEW id \in DOMAIN requests', requests'[id].status \in {"Succeeded", "FailedDefinitive"}
               PROVE  /\ requests'[id].status = "Succeeded" =>
                           Paid(id)' /\ requests'[id].block = records[Entry(id)']
                      /\ requests'[id].status = "FailedDefinitive" =>
                           ~Paid(id)' /\ \A cmd \in transit' : cmd.request # id
    BY DEF VerdictsInv
  <2>1. id \in DOMAIN requests /\ Deserved(id)
    BY DEF Onward
  <2>2. requests[id].frozen # None
    BY <2>1 DEF Deserved, SameVerdict, PayInv, IInv, BooksInv, RequestsCoherent
  <2>3. \A cmd \in transit' \ transit : cmd.request # id
    BY DEF Issued
  <2> QED BY <1>2, <2>1, <2>2, <2>3 DEF Deserved, SameVerdict, PayInv, WireInv, VerdictsInv
<1>10. RepliesInv'
  <2>1. ASSUME NEW a \in replies'
        PROVE  LET id == a.cmd.request IN
               /\ a.cmd \in ledgerCalls' /\ a.cmd \notin transit'
               /\ a.reply.kind \in {"Ok", "Duplicate"} =>
                    Paid(id)' /\ a.reply.index = records[Entry(id)']
               /\ a.reply.kind = "Error" /\ ~requests'[id].everUnknown =>
                    ~Paid(id)' /\ \A cmd \in transit' : cmd.request # id
    <3> DEFINE id == a.cmd.request
    <3>1. /\ a.cmd \in ledgerCalls /\ a.cmd \notin transit
          /\ a.reply.kind \in {"Ok", "Duplicate"} => Paid(id) /\ a.reply.index = records[Entry(id)]
          /\ a.reply.kind = "Error" /\ ~requests[id].everUnknown =>
               ~Paid(id) /\ \A cmd \in transit : cmd.request # id
      BY DEF PayInv, WireInv, RepliesInv
    <3>2. Sent(a.cmd) /\ a.cmd.created # None
      BY <1>6, <3>1 DEF PayInv, WireInv, CommandsInv
    <3>3. id \in DOMAIN requests /\ requests[id].frozen # None
      BY <3>2 DEF Sent, Known
    <3>4. a.cmd \notin transit'
      BY <3>1
    <3>5. \A cmd \in transit' \ transit : cmd.request = id => requests[id].everUnknown
      BY <3>3 DEF Issued
    <3>6. requests[id].everUnknown => requests'[id].everUnknown
      BY <3>3 DEF Onward, Follows
    <3> QED BY <1>2, <3>1, <3>3, <3>4, <3>5, <3>6
  <2>2. \A a, b \in replies' : a.cmd = b.cmd => a = b
    BY DEF PayInv, WireInv, RepliesInv
  <2> QED BY <2>1, <2>2 DEF RepliesInv
<1>11. InspectedInv'
  <2> SUFFICES ASSUME NEW a \in inspected, a.found # None
               PROVE  Paid(a.cmd.request)' /\ a.found = records[Entry(a.cmd.request)']
    BY DEF InspectedInv
  <2>1. a.cmd \in Command /\ Known(a.cmd)
    BY DEF PayInv, WireTypes, WireInv, CommandsInv
  <2>2. a.cmd.request \in DOMAIN requests /\ requests[a.cmd.request].frozen # None
    BY <1>5, <2>1 DEF Known
  <2> QED BY <1>2, <2>2 DEF PayInv, WireInv, InspectedInv
<1> QED BY <1>3, <1>7, <1>8, <1>9, <1>10, <1>11 DEF WireInv
-----------------------------------------------------------------------------
(* The steps of the executor that hear nothing from the ledger.            *)

Verdict == {"Succeeded", "FailedDefinitive"}

\* What such a step does: no verdict, and only commands and lookups that are in order.
Proceeds ==
    /\ Onward
    /\ \A id \in DOMAIN requests : SameVerdict(requests[id], requests'[id])
    /\ ledgerCalls \subseteq ledgerCalls' /\ \A cmd \in ledgerCalls' \ ledgerCalls : Issued(cmd)
    /\ \A cmd \in lookups' \ lookups : Known(cmd)'

\* A request follows itself.
LEMMA FollowsItself ==
    ASSUME IInv, NEW id \in DOMAIN requests
    PROVE  Follows(requests[id], requests[id]) /\ SameVerdict(requests[id], requests[id])
<1>1. requests[id] \in Request
  BY RequestParts DEF IInv
<1>2. requests[id].attempt \in Int
  BY <1>1 DEF Request, MaxAttempts
<1> QED BY <1>2 DEF Follows, SameVerdict

\* A step that writes no request and sends nothing.
LEMMA QuietProceeds ==
    ASSUME IInv, UNCHANGED <<requests, ledgerCalls, lookups>>
    PROVE  Proceeds
BY FollowsItself DEF Proceeds, Onward

\* A step that writes one request.
LEMMA WriteMoves ==
    ASSUME IInv, NEW id \in DOMAIN requests, NEW s, Update(id, s), Follows(requests[id], s)
    PROVE  /\ Onward /\ DOMAIN requests' = DOMAIN requests /\ requests'[id] = s
           /\ \A x \in DOMAIN requests : x # id => SameVerdict(requests[x], requests'[x])
<1>1. /\ DOMAIN requests' = DOMAIN requests /\ requests'[id] = s
      /\ \A x \in DOMAIN requests : x # id => requests'[x] = requests[x]
  BY DEF Update
<1> QED BY <1>1, FollowsItself DEF Onward

\* Nothing of the transfer is written, and no verdict.
LEMMA SameTransfer ==
    ASSUME NEW r \in Request, NEW s, s.operation = r.operation, s.attempt = r.attempt,
           s.everUnknown = r.everUnknown, s.frozen = r.frozen, s.block = r.block,
           r.status \notin Verdict, s.status \notin Verdict \cup {"OutcomeUnknown"}
    PROVE  Follows(r, s) /\ SameVerdict(r, s)
<1>1. r.attempt \in Int
  BY DEF Request, MaxAttempts
<1> QED BY <1>1 DEF Follows, SameVerdict, Counted, Verdict

\* A request that stops is one case of it.
LEMMA StoppedTransfer ==
    ASSUME NEW r \in Request, r.status \notin Verdict,
           NEW status, status \notin Verdict \cup {"OutcomeUnknown"}
    PROVE  Follows(r, Stopped(r, status)) /\ SameVerdict(r, Stopped(r, status))
<1> DEFINE s == Stopped(r, status)
<1>1. /\ s.operation = r.operation /\ s.attempt = r.attempt /\ s.everUnknown = r.everUnknown
      /\ s.frozen = r.frozen /\ s.block = r.block /\ s.status = status
  BY DEF Stopped, Request
<1> HIDE DEF s
<1> QED BY <1>1, SameTransfer DEF s

\* A step that writes one request without a verdict and sends nothing.
LEMMA WriteProceeds ==
    ASSUME IInv, NEW id \in DOMAIN requests, NEW s, Update(id, s),
           Follows(requests[id], s), SameVerdict(requests[id], s), UNCHANGED <<ledgerCalls, lookups>>
    PROVE  Proceeds
BY WriteMoves DEF Proceeds

\* advance() up to its call.
LEMMA BeginEvaluationProceeds ==
    ASSUME IInv, NEW id \in DOMAIN requests, BeginEvaluation(id)
    PROVE  Proceeds
<1> DEFINE r == requests[id]
           asking == [r EXCEPT !.status = "Evaluating", !.inFlight = TRUE, !.sends = @ + 1]
<1>1. r \in Request /\ r.status \notin Verdict
  BY RequestParts DEF IInv, BeginEvaluation, Verdict
<1>2. /\ asking.operation = r.operation /\ asking.attempt = r.attempt
      /\ asking.everUnknown = r.everUnknown /\ asking.frozen = r.frozen /\ asking.block = r.block
      /\ asking.status = "Evaluating"
  BY <1>1 DEF Request
<1>3. Update(id, Stopped(r, "Stale")) \/ Update(id, asking)
  BY DEF BeginEvaluation
<1>4. UNCHANGED <<ledgerCalls, lookups>>
  BY DEF BeginEvaluation
<1> HIDE DEF asking
<1>5. Follows(r, asking) /\ SameVerdict(r, asking)
  BY <1>1, <1>2, SameTransfer DEF Verdict
<1>6. Follows(r, Stopped(r, "Stale")) /\ SameVerdict(r, Stopped(r, "Stale"))
  BY <1>1, StoppedTransfer DEF Verdict
<1> QED BY <1>3, <1>4, <1>5, <1>6, WriteProceeds

\* The continuations of advance().
LEMMA EngineProceeds ==
    ASSUME IInv, EngineStep
    PROVE  Proceeds
<1>1. PICK c \in engineCalls : EngineReturns(c) \/ EngineCallbackTraps(c)
  BY DEF EngineStep
<1> DEFINE id == c.evaluation.request
           r == requests[id]
<1>2. id \in DOMAIN requests /\ r \in Request
  BY RequestParts DEF IInv, CallsInv, CallsHaveRequests
<1>3. ASSUME NEW s, Continue(c, s),
             r.status = "Evaluating" => Follows(r, s) /\ SameVerdict(r, s)
      PROVE  Proceeds
  BY <1>2, <1>3, WriteProceeds, QuietProceeds DEF Continue
<1>4. ASSUME NEW status \in {"NeedsReview", "Stale", "ReadyToDispatch", "Received"}, r.status = "Evaluating"
      PROVE  Follows(r, Stopped(r, status)) /\ SameVerdict(r, Stopped(r, status))
  BY <1>2, <1>4, StoppedTransfer DEF Verdict
<1>5. CASE EngineCallbackTraps(c)
  BY <1>5, QuietProceeds DEF EngineCallbackTraps, books
<1>6. CASE RefuseEvaluation(c)
  BY <1>3, <1>4, <1>6 DEF RefuseEvaluation
<1>7. CASE EngineTransportFailed(c)
  <2> DEFINE idle == [r EXCEPT !.inFlight = FALSE]
  <2>1. /\ idle.operation = r.operation /\ idle.attempt = r.attempt
        /\ idle.everUnknown = r.everUnknown /\ idle.frozen = r.frozen /\ idle.block = r.block
        /\ idle.status = r.status
    BY <1>2 DEF Request
  <2>2. AfterLostCall(r) = Stopped(r, "NeedsReview") \/ AfterLostCall(r) = idle
    BY DEF AfterLostCall
  <2> HIDE DEF idle
  <2>3. r.status = "Evaluating" => Follows(r, idle) /\ SameVerdict(r, idle)
    BY <1>2, <2>1, SameTransfer DEF Verdict
  <2> QED BY <1>3, <1>4, <1>7, <2>2, <2>3 DEF EngineTransportFailed
<1>8. ASSUME NEW receipt \in Receipts, FinishEvaluation(c, receipt)
      PROVE  Proceeds
  <2>1. ASSUME r.status = "Evaluating"
        PROVE  Follows(r, Ruled(r, receipt)) /\ SameVerdict(r, Ruled(r, receipt))
    <3> DEFINE longer == Append(r.receipts, receipt)
               status == IF ~receipt.pass THEN "NeedsReview"
                         ELSE IF Len(longer) = Signals[r.snapshot.plan] THEN "ReadyToDispatch"
                         ELSE "Received"
               s == Ruled(r, receipt)
    <3>1. s = [Stopped(r, status) EXCEPT !.receipts = longer]
      BY DEF Ruled
    <3>2. Stopped(r, status) = [r EXCEPT !.status = status, !.sends = 0, !.inFlight = FALSE]
      BY DEF Stopped
    <3>3. status \in {"NeedsReview", "ReadyToDispatch", "Received"}
      OBVIOUS
    <3> HIDE DEF longer, status, s
    <3>4. /\ s.operation = r.operation /\ s.attempt = r.attempt /\ s.everUnknown = r.everUnknown
          /\ s.frozen = r.frozen /\ s.block = r.block /\ s.status = status
      BY <1>2, <3>1, <3>2 DEF Request
    <3> QED BY <1>2, <2>1, <3>3, <3>4, SameTransfer DEF Verdict, s
  <2> QED BY <1>3, <1>4, <1>8, <2>1 DEF FinishEvaluation, Judged
<1> QED BY <1>1, <1>5, <1>6, <1>7, <1>8 DEF EngineReturns

\* Dispatch sends the first command of a transfer.
LEMMA DispatchProceeds ==
    ASSUME PayInv, NEW id \in DOMAIN requests, Dispatch(id)
    PROVE  Proceeds
<1> DEFINE r == requests[id]
           s == [r EXCEPT !.epoch = now \div Terms[r.grant].windowLen, !.frozen = now,
                          !.status = "Submitted", !.attempt = 1]
           new == [request |-> id, attempt |-> 1, created |-> now]
<1>1. r \in Request /\ r.status = "ReadyToDispatch"
  BY RequestParts DEF PayInv, IInv, Dispatch, Authorized, EvidenceStands
<1>2. r.frozen = None
  BY <1>1 DEF PayInv, IInv, BooksInv, RequestsCoherent, Unresolved
<1>3. Update(id, s) /\ ledgerCalls' = ledgerCalls \cup {new} /\ UNCHANGED lookups
  BY DEF Dispatch
<1>4. /\ s.operation = r.operation /\ s.attempt = 1 /\ s.everUnknown = r.everUnknown
      /\ s.frozen = now /\ s.block = r.block /\ s.status = "Submitted"
  BY <1>1 DEF Request
<1>5. now # None
  BY NoneAssumption, BoundAssumption DEF PayInv, IInv, Time, BoundAssumption, NoneAssumption
<1>6. r.attempt = 0
  BY <1>2 DEF PayInv, WireInv, CountInv, Counted
<1> HIDE DEF s
<1>7. Follows(r, s) /\ SameVerdict(r, s)
  BY <1>1, <1>2, <1>4, <1>5, <1>6 DEF Follows, SameVerdict, Counted
<1>8. Onward /\ requests'[id] = s /\ \A x \in DOMAIN requests : x # id => SameVerdict(requests[x], requests'[x])
  BY <1>3, <1>7, WriteMoves DEF PayInv
<1>9. Issued(new)
  BY <1>2, <1>4, <1>5, <1>6, <1>8 DEF Issued
<1> QED BY <1>3, <1>7, <1>8, <1>9 DEF Proceeds

\* A retry sends the next one of a transfer in doubt.
LEMMA RetryProceeds ==
    ASSUME PayInv, NEW id \in DOMAIN requests, RetryUnknown(id)
    PROVE  Proceeds
<1> DEFINE r == requests[id]
           s == [r EXCEPT !.attempt = @ + 1, !.status = "Submitted"]
           new == [request |-> id, attempt |-> r.attempt + 1, created |-> r.frozen]
<1>1. r \in Request /\ r.status = "OutcomeUnknown" /\ r.attempt \in Nat
  BY RequestParts DEF PayInv, IInv, RetryUnknown, Retryable, Request, MaxAttempts
<1>2. r.frozen # None /\ r.everUnknown
  BY <1>1 DEF PayInv, IInv, BooksInv, RequestsCoherent, Unresolved, WireInv, CountInv, Counted
<1>3. Update(id, s) /\ ledgerCalls' = ledgerCalls \cup {new} /\ UNCHANGED lookups
  BY DEF RetryUnknown
<1>4. /\ s.operation = r.operation /\ s.attempt = r.attempt + 1 /\ s.everUnknown = r.everUnknown
      /\ s.frozen = r.frozen /\ s.block = r.block /\ s.status = "Submitted"
  BY <1>1 DEF Request
<1> HIDE DEF s
<1>5. Follows(r, s) /\ SameVerdict(r, s)
  BY <1>1, <1>2, <1>4 DEF Follows, SameVerdict, Counted
<1>6. Onward /\ requests'[id] = s /\ \A x \in DOMAIN requests : x # id => SameVerdict(requests[x], requests'[x])
  BY <1>3, <1>5, WriteMoves DEF PayInv
<1>7. Issued(new)
  BY <1>1, <1>2, <1>4, <1>6 DEF Issued
<1> QED BY <1>3, <1>5, <1>6, <1>7 DEF Proceeds

\* A new request has no transfer.
LEMMA SubmitProceeds ==
    ASSUME IInv, NEW caller \in Delegate, NEW o \in Operation, NEW g \in Grant, Submit(caller, o, g)
    PROVE  Proceeds
<1> DEFINE id == [caller |-> caller, nonce |-> NextNonceOf(caller)]
<1>1. PICK r : /\ requests' = Put(requests, id, r) /\ r.status = "Received" /\ r.frozen = None
               /\ r.attempt = 0 /\ UNCHANGED <<ledgerCalls, lookups>>
  BY DEF Submit, calls
<1>2. id \notin DOMAIN requests
  <2>1. NextNonceOf(caller) \in Nat
    BY DEF IInv, BooksInv, BooksTypeOK, IsMap, NextNonceOf
  <2>2. \A x \in DOMAIN requests : x.nonce < NextNonceOf(x.caller)
    BY DEF IInv, BooksInv, NoncesConsumed
  <2> QED BY <2>1, <2>2
<1>3. /\ DOMAIN requests' = DOMAIN requests \cup {id} /\ requests'[id] = r
      /\ \A x \in DOMAIN requests : requests'[x] = requests[x]
  BY <1>1, <1>2 DEF Put
<1> QED BY <1>1, <1>3, FollowsItself DEF Proceeds, Onward

\* Reporting, cancelling and looking up write no transfer.
LEMMA OtherClientProceeds ==
    ASSUME IInv, NEW id \in DOMAIN requests, Report(id) \/ Reconcile(id) \/ Cancel(id)
    PROVE  Proceeds
<1> DEFINE r == requests[id]
<1>1. r \in Request
  BY RequestParts DEF IInv
<1>2. CASE Report(id)
  <2> DEFINE s == [r EXCEPT !.status = "Reported"]
  <2>1. Update(id, s) /\ UNCHANGED <<ledgerCalls, lookups>> /\ r.status = "ReadyToDispatch"
    BY <1>2 DEF Report, calls, Authorized, EvidenceStands
  <2>2. /\ s.operation = r.operation /\ s.attempt = r.attempt /\ s.everUnknown = r.everUnknown
        /\ s.frozen = r.frozen /\ s.block = r.block /\ s.status = "Reported"
    BY <1>1 DEF Request
  <2> HIDE DEF s
  <2>3. Follows(r, s) /\ SameVerdict(r, s)
    BY <1>1, <2>1, <2>2, SameTransfer DEF Verdict
  <2> QED BY <2>1, <2>3, WriteProceeds
<1>3. CASE Cancel(id)
  <2>1. /\ Update(id, Stopped(r, "Cancelled")) /\ UNCHANGED <<ledgerCalls, lookups>>
        /\ r.status \notin Verdict
    BY <1>3 DEF Cancel, calls, IInv, BooksInv, RequestsCoherent, Verdict
  <2>2. Follows(r, Stopped(r, "Cancelled")) /\ SameVerdict(r, Stopped(r, "Cancelled"))
    BY <1>1, <2>1, StoppedTransfer DEF Verdict
  <2> QED BY <2>1, <2>2, WriteProceeds
<1>4. CASE Reconcile(id)
  BY <1>4, FollowsItself DEF Reconcile, books, Proceeds, Onward, Known
<1> QED BY <1>2, <1>3, <1>4

\* All of them together.
LEMMA ExecutorProceeds ==
    ASSUME PayInv, Tick \/ OwnerStep \/ ClientStep \/ EngineStep
    PROVE  Proceeds
<1>1. CASE Tick
  BY <1>1, QuietProceeds DEF PayInv, Tick, books, calls
<1>2. CASE OwnerStep
  <2>1. UNCHANGED <<requests, ledgerCalls, lookups>>
    BY <1>2 DEF OwnerStep, SetMode, SetPaused, InstallPlan, InstallOperation, ReviseOperation,
                InstallGrant, Revoke, RegisterMockLedger, books, calls
  <2> QED BY <2>1, QuietProceeds DEF PayInv
<1>3. CASE ClientStep
  BY <1>3, SubmitProceeds, BeginEvaluationProceeds, DispatchProceeds, RetryProceeds, OtherClientProceeds
     DEF ClientStep, PayInv
<1>4. CASE EngineStep
  BY <1>4, EngineProceeds DEF PayInv
<1> QED BY <1>1, <1>2, <1>3, <1>4
-----------------------------------------------------------------------------
(* The steps of the executor that hear from the ledger, or forget it.      *)

\* What they do: they reach verdicts that are deserved, and send nothing.
Concludes ==
    /\ Onward /\ \A id \in DOMAIN requests : Deserved(id)
    /\ ledgerCalls' \subseteq ledgerCalls /\ lookups' \subseteq lookups

\* A doubtful transfer is the same transfer.
LEMMA DoubtfulTransfer ==
    ASSUME NEW r \in Request, r.frozen # None \/ r.attempt = 0, r.status \notin Verdict
    PROVE  Follows(r, Doubtful(r)) /\ SameVerdict(r, Doubtful(r))
<1>1. r.attempt \in Int
  BY DEF Request, MaxAttempts
<1>2. /\ Doubtful(r).operation = r.operation /\ Doubtful(r).attempt = r.attempt /\ Doubtful(r).everUnknown
      /\ Doubtful(r).frozen = r.frozen /\ Doubtful(r).block = r.block /\ Doubtful(r).status = "OutcomeUnknown"
  BY DEF Doubtful, Request
<1> QED BY <1>1, <1>2 DEF Follows, SameVerdict, Counted, Verdict

\* An outcome that is true of the ledger: what it calls a success is booked, what proves a
\* failure is not and never will be.
TrueOf(cmd, outcome) ==
    LET id == cmd.request IN
    /\ outcome.kind = "Success" =>
         Paid(id) /\ outcome.block = records[Entry(id)]
    /\ outcome.kind = "DefinitiveError" /\ ~requests[id].everUnknown =>
         ~Paid(id) /\ \A c \in transit : c.request # id

\* A true outcome leads to a deserved verdict.
LEMMA FinishLedgerConcludes ==
    ASSUME PayInv, NEW cmd, cmd.request \in DOMAIN requests, NEW outcome, TrueOf(cmd, outcome),
           FinishLedger(cmd, outcome), ledgerCalls' \subseteq ledgerCalls, lookups' \subseteq lookups
    PROVE  Concludes
<1> DEFINE id == cmd.request
           r == requests[id]
<1>1. r \in Request /\ r.attempt \in Int
  BY RequestParts DEF PayInv, IInv, Request, MaxAttempts
<1>2. CASE UNCHANGED requests
  BY <1>2, FollowsItself DEF PayInv, Concludes, Onward, Deserved
<1>3. ASSUME NEW s, Update(id, s), Follows(r, s),
             \/ SameVerdict(r, s)
             \/ s.status = "Succeeded" /\ r.frozen # None /\ Paid(id) /\ s.block = records[Entry(id)]
             \/ /\ s.status = "FailedDefinitive" /\ r.frozen # None
                /\ ~Paid(id) /\ \A c \in transit : c.request # id
      PROVE  Concludes
  <2>1. /\ Onward /\ requests'[id] = s
        /\ \A x \in DOMAIN requests : x # id => SameVerdict(requests[x], requests'[x])
    BY <1>3, WriteMoves DEF PayInv
  <2> QED BY <1>3, <2>1 DEF Concludes, Deserved
<1>4. CASE Answers(cmd) /\ Update(id, Doubtful(r))
  <2>1. r.status \notin Verdict /\ r.frozen # None
    BY <1>4 DEF Answers, Verdict, Unresolved, PayInv, IInv, BooksInv, RequestsCoherent
  <2> QED BY <1>1, <1>3, <1>4, <2>1, DoubtfulTransfer
<1>5. ASSUME NEW success \in BOOLEAN, NEW block, SettleRecord(id, success, block),
             success => outcome.kind = "Success" /\ block = outcome.block,
             ~success => outcome.kind = "DefinitiveError" /\ ~r.everUnknown
      PROVE  Concludes
  <2> DEFINE s == [r EXCEPT !.epoch = None, !.block = block,
                            !.status = IF success THEN "Succeeded" ELSE "FailedDefinitive"]
  <2>1. Update(id, s) /\ r.epoch # None
    BY <1>5 DEF SettleRecord, CanSettle
  <2>2. r.frozen # None
    BY <2>1 DEF PayInv, IInv, BooksInv, RequestsCoherent
  <2>3. /\ s.operation = r.operation /\ s.attempt = r.attempt /\ s.everUnknown = r.everUnknown
        /\ s.frozen = r.frozen /\ s.block = block
        /\ s.status = IF success THEN "Succeeded" ELSE "FailedDefinitive"
    BY <1>1 DEF Request
  <2> HIDE DEF s
  <2>4. Follows(r, s)
    BY <1>1, <2>2, <2>3 DEF Follows, Counted
  <2> QED BY <1>3, <1>5, <2>1, <2>2, <2>3, <2>4 DEF TrueOf
<1>6. CASE Answers(cmd) /\ outcome.kind = "Success" /\ SettleRecord(id, TRUE, outcome.block)
  BY <1>5, <1>6
<1>7. CASE Answers(cmd) /\ Definite(cmd, outcome) /\ SettleRecord(id, FALSE, None)
  BY <1>5, <1>7 DEF Definite, DefinitiveError
<1> QED BY <1>2, <1>4, <1>6, <1>7 DEF FinishLedger

\* An upgrade puts what it interrupts in doubt.
LEMMA UpgradeConcludes ==
    ASSUME PayInv, PostUpgrade
    PROVE  Concludes
<1>1. /\ requests' = [id \in DOMAIN requests |-> Recovered(requests[id])]
      /\ ledgerCalls' = {} /\ lookups' = {}
  BY DEF PostUpgrade
<1>2. ASSUME NEW id \in DOMAIN requests
      PROVE  Follows(requests[id], requests'[id]) /\ SameVerdict(requests[id], requests'[id])
  <2> DEFINE r == requests[id]
  <2>1. r \in Request /\ requests'[id] = Recovered(r)
    BY <1>1, RequestParts DEF PayInv, IInv
  <2>2. CASE r.status = "Evaluating"
    BY <2>1, <2>2, StoppedTransfer DEF Recovered, Verdict
  <2>3. CASE r.status = "Submitted"
    <3>1. r.frozen # None
      BY <2>3 DEF PayInv, IInv, BooksInv, RequestsCoherent, Unresolved
    <3> QED BY <2>1, <2>3, <3>1, DoubtfulTransfer DEF Recovered, Interrupted, Verdict
  <2>4. CASE r.status \notin {"Evaluating", "Submitted"}
    BY <2>1, <2>4, FollowsItself DEF Recovered, PayInv
  <2> QED BY <2>2, <2>3, <2>4
<1> QED BY <1>1, <1>2 DEF Concludes, Onward, Deserved
-----------------------------------------------------------------------------
(* The messages between executor and ledger.                               *)

\* Commands that have their arguments mean the entry of their request.
LEMMA EntryOf ==
    ASSUME NEW cmd, Known(cmd)
    PROVE  TransferOf(cmd) = Own(cmd.request) /\ (Booked(cmd) <=> Paid(cmd.request))
BY DEF Known, Own, TransferOf, Paid, Entry, Booked, L!Recorded

\* What is sent or asked for is known.
LEMMA CommandsKnown ==
    ASSUME PayInv
    PROVE  /\ \A cmd \in transit \cup ledgerCalls \cup lookups :
                Known(cmd) /\ cmd.request \in DOMAIN requests /\ requests[cmd.request].frozen # None
           /\ \A a \in inspected :
                Known(a.cmd) /\ a.cmd.request \in DOMAIN requests /\ requests[a.cmd.request].frozen # None
<1>1. \A cmd \in Command : cmd.created # None
  BY NoneAssumption, BoundAssumption DEF Command, Time, NoneAssumption
<1>2. transit \cup ledgerCalls \cup lookups \subseteq Command /\ \A a \in inspected : a.cmd \in Command
  BY DEF PayInv, WireTypes, IInv, CallsInv, CallsTypeOK
<1> QED BY <1>1, <1>2 DEF PayInv, WireInv, CommandsInv, Sent, Known

\* The transfer of a request is a transfer of the ledger.
LEMMA TransferType ==
    ASSUME PayInv, NEW cmd \in transit
    PROVE  TransferOf(cmd) \in L!Transfer
<1>1. cmd \in Command /\ cmd.request \in DOMAIN requests
  BY CommandsKnown DEF PayInv, WireTypes
<1>2. requests[cmd.request].operation \in Operation
  BY <1>1, RequestParts DEF PayInv, IInv
<1>3. Proposal[requests[cmd.request].operation] \in [amount : Nat \ {0}, fee : Nat, ledger : Ledger]
  BY <1>2, DataAssumption DEF DataAssumption
<1>4. cmd.created \in Nat /\ cmd.request \in RequestId
  BY <1>1, BoundAssumption DEF Command, Time, BoundAssumption
<1> QED BY <1>3, <1>4 DEF TransferOf, L!Transfer

\* What the ledger does with a transfer.
LEMMA DeliverEffect ==
    ASSUME PayInv, NEW cmd, Deliver(cmd)
    PROVE  LET id == cmd.request IN
           /\ L!LedgerTypeOK'
           /\ \E reply \in L!Reply :
                /\ replies' = IF cmd \in ledgerCalls THEN replies \cup {[cmd |-> cmd, reply |-> reply]}
                              ELSE replies
                /\ \/ Paid(id) /\ reply = L!Duplicate(records[Entry(id)]) /\ UNCHANGED records
                   \/ ~Paid(id) /\ reply = L!Error /\ UNCHANGED records
                   \/ /\ ~Paid(id) /\ reply \in {L!Rejected, L!Ok(next)}
                      /\ DOMAIN records' = DOMAIN records \cup {Entry(id)}
                      /\ records'[Entry(id)] = next
                      /\ \A k \in DOMAIN records : records'[k] = records[k]
<1> DEFINE id == cmd.request
           tr == TransferOf(cmd)
<1>1. cmd \in transit /\ Known(cmd) /\ tr \in L!Transfer
  BY CommandsKnown, TransferType DEF Deliver
<1>2. tr = Own(id) /\ (L!Recorded(Self, tr) <=> Paid(id)) /\ <<Self, tr>> = Entry(id)
  BY <1>1, EntryOf DEF Booked, Entry
<1>3. PICK reply \in {L!Error, L!Rejected, L!Ok(next)}
                     \cup (IF Booked(cmd) THEN {L!Duplicate(L!Found(Self, TransferOf(cmd)))} ELSE {}) :
        /\ L!icrc1_transfer(Self, tr, now, reply)
        /\ replies' = IF cmd \in ledgerCalls THEN replies \cup {[cmd |-> cmd, reply |-> reply]} ELSE replies
  BY DEF Deliver
<1> HIDE DEF tr
<1>4. /\ next \in Nat /\ fault \in L!Fault
      /\ L!IsMap(records, {Self} \X L!Transfer, Nat) /\ L!IsMap(balances, {Self}, Nat)
  BY DEF PayInv, L!LedgerTypeOK
<1>5. reply \in L!Reply
  <2>1. Paid(id) => records[Entry(id)] \in Nat
    BY <1>4 DEF L!IsMap, Paid
  <2>2. L!Error \in L!Reply /\ L!Rejected \in L!Reply /\ L!Ok(next) \in L!Reply
    BY <1>4 DEF L!Error, L!Rejected, L!Ok, L!Reply
  <2>3. Booked(cmd) => Paid(id) /\ L!Found(Self, TransferOf(cmd)) = records[Entry(id)]
    BY <1>1, <1>2, EntryOf DEF L!Found, tr
  <2>4. Booked(cmd) => L!Duplicate(L!Found(Self, TransferOf(cmd))) \in L!Reply
    BY <2>1, <2>3 DEF L!Duplicate, L!Reply
  <2> QED BY <1>3, <2>2, <2>4
<1>6. CASE Paid(id) /\ reply = L!Duplicate(records[<<Self, tr>>]) /\ UNCHANGED <<fault, next, records, balances>>
  BY <1>2, <1>3, <1>5, <1>6 DEF PayInv, L!LedgerTypeOK
<1>7. CASE ~Paid(id) /\ reply = L!Error /\ UNCHANGED <<fault, next, records, balances>>
  BY <1>2, <1>3, <1>5, <1>7 DEF PayInv, L!LedgerTypeOK
<1>8. CASE /\ ~Paid(id) /\ ~L!Refused(Self, tr, now) /\ reply \in {L!Rejected, L!Ok(next)}
           /\ L!Commit(Self, tr)
  <2>1. /\ next' = next + 1 /\ UNCHANGED fault
        /\ records' = L!Put(records, Entry(id), next)
        /\ balances' = L!Put(balances, Self, L!Balance(Self) - (tr.amount + tr.fee))
    BY <1>2, <1>8 DEF L!Commit
  <2>2. /\ DOMAIN records' = DOMAIN records \cup {Entry(id)} /\ records'[Entry(id)] = next
        /\ \A k \in DOMAIN records : records'[k] = records[k]
    BY <1>8, <2>1 DEF L!Put, Paid
  <2>3. L!IsMap(records', {Self} \X L!Transfer, Nat)
    BY <1>1, <1>2, <1>4, <2>1 DEF L!IsMap, L!Put
  <2>4. L!Balance(Self) - (tr.amount + tr.fee) \in Nat
    <3>1. L!Balance(Self) \in Nat
      BY <1>4, LedgerNumbers DEF L!Balance, L!IsMap
    <3>2. tr.amount \in Nat /\ tr.fee \in Nat
      BY <1>1 DEF L!Transfer
    <3>3. ~(tr.amount + tr.fee > L!Balance(Self))
      BY <1>8 DEF L!Refused
    <3> QED BY <3>1, <3>2, <3>3
  <2>5. L!IsMap(balances', {Self}, Nat)
    BY <1>4, <2>1, <2>4 DEF L!IsMap, L!Put
  <2>6. L!LedgerTypeOK'
    BY <1>4, <2>1, <2>3, <2>5 DEF L!LedgerTypeOK
  <2> QED BY <1>3, <1>5, <1>8, <2>2, <2>6
<1>9. reply = (IF fault = "CommitThenCallbackTrap" THEN L!Rejected ELSE L!Ok(next))
        => reply \in {L!Rejected, L!Ok(next)}
  OBVIOUS
<1> QED BY <1>2, <1>3, <1>6, <1>7, <1>8, <1>9 DEF L!icrc1_transfer, L!ledgerVars
-----------------------------------------------------------------------------
(* Every step keeps the invariant.                                         *)

\* A verdict of send() is an outcome that finish_ledger knows.
LEMMA OutcomeType ==
    ASSUME NEW reply \in L!Reply
    PROVE  /\ OutcomeOf(reply) \in LedgerOutcome
           /\ OutcomeOf(reply).kind = "Success" =>
                reply.kind \in {"Ok", "Duplicate"} /\ OutcomeOf(reply).block = reply.index
           /\ OutcomeOf(reply).kind = "DefinitiveError" => reply.kind = "Error"
<1>1. CASE reply.kind \in {"Ok", "Duplicate"}
  <2>1. reply.index \in Nat
    BY <1>1 DEF L!Reply
  <2>2. reply.kind # "Error"
    BY <1>1
  <2>3. OutcomeOf(reply) = Success(reply.index)
    BY <1>1, <2>2, Zenon DEF OutcomeOf
  <2> QED BY <1>1, <2>1, <2>3, IndicesAreNumbers DEF Success, LedgerOutcome, Index
<1>2. CASE reply.kind = "Error"
  <2>1. reply.kind \notin {"Ok", "Duplicate"}
    BY <1>2
  <2>2. OutcomeOf(reply) = DefinitiveError
    BY <1>2, <2>1, Zenon DEF OutcomeOf
  <2> QED BY <1>2, <2>2 DEF DefinitiveError, LedgerOutcome
<1>3. CASE reply.kind = "Rejected"
  <2>1. reply.kind \notin {"Ok", "Duplicate"} /\ reply.kind # "Error"
    BY <1>3
  <2>2. OutcomeOf(reply) = Unknown
    BY <2>1, Zenon DEF OutcomeOf
  <2> QED BY <2>2 DEF Unknown, LedgerOutcome
<1> QED BY <1>1, <1>2, <1>3 DEF L!Reply

\* A rejection is a reply.
LEMMA RejectedType == L!Rejected \in L!Reply
BY DEF L!Rejected, L!Reply

\* The executor in Payment takes the steps of Executor.
LEMMA ExecutorInPayment ==
    ASSUME PayInv, [PaymentNext]_paymentVars
    PROVE  [Next]_vars /\ IInv'
<1>1. UNCHANGED paymentVars => UNCHANGED vars
  BY DEF paymentVars
<1>2. ExecutorStep \/ UpgradeStep => Next
  BY DEF ExecutorStep, UpgradeStep, Next
<1>3. SwitchFault \/ (\E cmd \in transit : Deliver(cmd) \/ Drop(cmd)) => UNCHANGED vars
  BY DEF SwitchFault, Deliver, Drop
<1>4. ASSUME NEW a \in replies, ReplyArrives(a) PROVE LedgerStep
  <2>1. a.cmd \in ledgerCalls /\ a.reply \in L!Reply
    BY <1>4 DEF ReplyArrives, LedgerReturns, PayInv, WireTypes
  <2> QED BY <1>4, <2>1, OutcomeType DEF ReplyArrives, LedgerStep
<1>5. ASSUME NEW cmd \in ledgerCalls, TimeOut(cmd) \/ SendTraps(cmd) PROVE LedgerStep
  BY <1>5, OutcomeType, RejectedType DEF TimeOut, SendTraps, LedgerStep
<1>6. ASSUME NEW cmd \in lookups, Inspect(cmd) \/ InspectionFails(cmd) PROVE LedgerStep \/ UNCHANGED vars
  BY <1>6 DEF Inspect, InspectionFails, LedgerStep
<1>7. ASSUME NEW a \in inspected, InspectionArrives(a) PROVE LedgerStep
  <2>1. a.cmd \in lookups /\ a.found \in Block \cup {None}
    BY <1>7, IndicesAreNumbers DEF InspectionArrives, LookupReturns, PayInv, WireTypes
  <2> QED BY <1>7, <2>1 DEF InspectionArrives, LedgerStep
<1>8. [Next]_vars
  BY <1>1, <1>2, <1>3, <1>4, <1>5, <1>6, <1>7 DEF PaymentNext, Next
<1> QED BY <1>8, StepHolds DEF PayInv

\* While the ledger books nothing, the whole invariant stays.
LEMMA InvariantStays ==
    ASSUME PayInv, IInv', Onward, \A id \in DOMAIN requests : Deserved(id),
           L!LedgerTypeOK', UNCHANGED records,
           transit' \subseteq transit \cup (ledgerCalls' \ ledgerCalls),
           \A cmd \in ledgerCalls' \ ledgerCalls : Issued(cmd),
           \A cmd \in lookups' \ lookups : Known(cmd)',
           replies' \subseteq replies, \A a \in replies' : a.cmd \in ledgerCalls',
           inspected' \subseteq inspected
    PROVE  PayInv'
<1>1. WireTypes'
  BY DEF PayInv, WireTypes, IInv, CallsInv, CallsTypeOK
<1>2. WireInv'
  BY WiresRemain
<1> QED BY <1>1, <1>2 DEF PayInv

\* ... when the executor concludes something that is true.
LEMMA ConcludesKeeps ==
    ASSUME PayInv, IInv', Concludes, UNCHANGED <<ledger, transit>>,
           replies' \subseteq replies, \A a \in replies' : a.cmd \in ledgerCalls',
           inspected' \subseteq inspected
    PROVE  PayInv'
<1>1. L!LedgerTypeOK' /\ UNCHANGED records
  BY DEF ledger, PayInv, L!LedgerTypeOK
<1> QED BY <1>1, InvariantStays DEF Concludes

\* ... when it proceeds by itself.
LEMMA ExecutorKeeps ==
    ASSUME PayInv, IInv', ExecutorStep
    PROVE  PayInv'
<1>1. Proceeds
  BY ExecutorProceeds DEF ExecutorStep
<1>2. L!LedgerTypeOK' /\ UNCHANGED records
  BY DEF ExecutorStep, ledger, PayInv, L!LedgerTypeOK
<1>3. \A a \in replies' : a.cmd \in ledgerCalls'
  BY <1>1 DEF ExecutorStep, Proceeds, PayInv, WireInv, RepliesInv
<1> QED BY <1>1, <1>2, <1>3, InvariantStays DEF ExecutorStep, Proceeds, Deserved

\* ... and when it does nothing.
LEMMA NothingKeeps ==
    ASSUME PayInv, IInv', UNCHANGED vars, L!LedgerTypeOK', UNCHANGED <<records, replies, inspected>>,
           transit' \subseteq transit
    PROVE  PayInv'
<1>1. Onward /\ \A id \in DOMAIN requests : Deserved(id)
  BY FollowsItself DEF vars, books, PayInv, Onward, Deserved
<1>2. \A a \in replies' : a.cmd \in ledgerCalls'
  BY DEF vars, calls, PayInv, WireInv, RepliesInv
<1> QED BY <1>1, <1>2, InvariantStays DEF vars, calls

\* What a reply, a rejection or the answer to a lookup leads the executor to believe is true.
LEMMA OutcomesTrue ==
    ASSUME PayInv
    PROVE  /\ \A a \in replies : TrueOf(a.cmd, OutcomeOf(a.reply))
           /\ \A cmd : TrueOf(cmd, OutcomeOf(L!Rejected))
           /\ \A a \in inspected : TrueOf(a.cmd, IF a.found # None THEN Success(a.found) ELSE Unknown)
<1>1. ASSUME NEW a \in replies PROVE TrueOf(a.cmd, OutcomeOf(a.reply))
  <2>1. a.reply \in L!Reply
    BY DEF PayInv, WireTypes
  <2> QED BY <2>1, OutcomeType DEF PayInv, WireInv, RepliesInv, TrueOf
<1>2. \A cmd : TrueOf(cmd, OutcomeOf(L!Rejected))
  BY OutcomeType, RejectedType DEF TrueOf, L!Rejected
<1>3. \A a \in inspected : TrueOf(a.cmd, IF a.found # None THEN Success(a.found) ELSE Unknown)
  BY DEF PayInv, WireInv, InspectedInv, TrueOf, Success, Unknown
<1> QED BY <1>1, <1>2, <1>3

\* A reply arrives: what it says is true.
LEMMA ReplyKeeps ==
    ASSUME PayInv, IInv', NEW a \in replies, ReplyArrives(a)
    PROVE  PayInv'
<1>1. TrueOf(a.cmd, OutcomeOf(a.reply))
  BY OutcomesTrue
<1>2. /\ FinishLedger(a.cmd, OutcomeOf(a.reply)) /\ a.cmd \in ledgerCalls
      /\ ledgerCalls' = ledgerCalls \ {a.cmd} /\ UNCHANGED lookups
  BY DEF ReplyArrives, LedgerReturns
<1>3. a.cmd.request \in DOMAIN requests
  BY <1>2, CommandsKnown
<1>4. Concludes
  BY <1>1, <1>2, <1>3, FinishLedgerConcludes
<1>5. \A b \in replies' : b.cmd \in ledgerCalls'
  BY <1>2 DEF ReplyArrives, PayInv, WireInv, RepliesInv
<1> QED BY <1>4, <1>5, ConcludesKeeps DEF ReplyArrives

\* The executor gives up waiting: nothing is concluded from that.
LEMMA TimeOutKeeps ==
    ASSUME PayInv, IInv', NEW cmd \in ledgerCalls, TimeOut(cmd)
    PROVE  PayInv'
<1>1. TrueOf(cmd, OutcomeOf(L!Rejected))
  BY OutcomesTrue
<1>2. /\ FinishLedger(cmd, OutcomeOf(L!Rejected))
      /\ ledgerCalls' = ledgerCalls \ {cmd} /\ UNCHANGED lookups
  BY DEF TimeOut, LedgerReturns
<1>3. cmd.request \in DOMAIN requests
  BY CommandsKnown
<1>4. Concludes
  BY <1>1, <1>2, <1>3, FinishLedgerConcludes
<1>5. \A b \in replies' : b.cmd \in ledgerCalls'
  BY <1>2 DEF TimeOut, PayInv, WireInv, RepliesInv
<1> QED BY <1>4, <1>5, ConcludesKeeps DEF TimeOut

\* The continuation of a transfer or of a lookup is lost.
LEMMA LossKeeps ==
    ASSUME PayInv, IInv', NEW cmd, SendTraps(cmd) \/ InspectionFails(cmd)
    PROVE  PayInv'
<1>1. UNCHANGED requests /\ ledgerCalls' \subseteq ledgerCalls /\ lookups' \subseteq lookups
  BY DEF SendTraps, LedgerCallbackTraps, InspectionFails, LookupFails, books
<1>2. Concludes
  BY <1>1, FollowsItself DEF PayInv, Concludes, Onward, Deserved
<1>3. \A a \in replies' : a.cmd \in ledgerCalls'
  BY DEF SendTraps, LedgerCallbackTraps, InspectionFails, LookupFails, PayInv, WireInv, RepliesInv
<1> QED BY <1>2, <1>3, ConcludesKeeps DEF SendTraps, LedgerCallbackTraps, InspectionFails

\* An upgrade forgets the replies.
LEMMA UpgradeKeeps ==
    ASSUME PayInv, IInv', UpgradeStep
    PROVE  PayInv'
<1>1. Concludes
  BY UpgradeConcludes DEF UpgradeStep, Upgrade, ForcedUpgrade
<1> QED BY <1>1, ConcludesKeeps DEF UpgradeStep

\* The answer to a lookup arrives: what it found is there, what it did not find proves nothing.
LEMMA InspectionKeeps ==
    ASSUME PayInv, IInv', NEW a \in inspected, InspectionArrives(a)
    PROVE  PayInv'
<1> DEFINE outcome == IF a.found # None THEN Success(a.found) ELSE Unknown
<1>1. TrueOf(a.cmd, outcome)
  BY OutcomesTrue
<1>2. FinishLedger(a.cmd, outcome) /\ lookups' \subseteq lookups /\ UNCHANGED ledgerCalls
  BY DEF InspectionArrives, LookupReturns
<1>3. a.cmd.request \in DOMAIN requests
  BY CommandsKnown
<1> HIDE DEF outcome
<1>4. Concludes
  BY <1>1, <1>2, <1>3, FinishLedgerConcludes
<1>5. \A b \in replies' : b.cmd \in ledgerCalls'
  BY <1>2 DEF InspectionArrives, PayInv, WireInv, RepliesInv
<1> QED BY <1>4, <1>5, ConcludesKeeps DEF InspectionArrives

\* A lookup reads what the ledger has booked.
LEMMA InspectKeeps ==
    ASSUME PayInv, IInv', NEW cmd \in lookups, Inspect(cmd)
    PROVE  PayInv'
<1> DEFINE found == IF Booked(cmd) THEN L!Found(Self, TransferOf(cmd)) ELSE None
           new == [cmd |-> cmd, found |-> found]
<1>1. /\ inspected' = inspected \cup {new}
      /\ UNCHANGED <<requests, ledgerCalls, lookups, fault, next, records, balances, transit, replies>>
  BY DEF Inspect, vars, books, calls, ledger
<1>2. Known(cmd) /\ cmd \in Command
  BY CommandsKnown DEF PayInv, IInv, CallsInv, CallsTypeOK
<1>3. found # None => Paid(cmd.request) /\ found = records[Entry(cmd.request)]
  BY <1>2, EntryOf DEF L!Found, Entry, Paid
<1>4. found \in Nat \cup {None}
  BY <1>3 DEF PayInv, L!LedgerTypeOK, L!IsMap, Paid
<1> HIDE DEF found
<1>5. WireTypes' /\ L!LedgerTypeOK'
  BY <1>1, <1>2, <1>4 DEF PayInv, WireTypes, L!LedgerTypeOK
<1>6. \A id : Entry(id)' = Entry(id) /\ (Paid(id)' <=> Paid(id))
  BY <1>1 DEF Entry, Own, TransferOf, Paid
<1>7. CountInv' /\ RecordsInv' /\ VerdictsInv' /\ RepliesInv'
  BY <1>1, <1>6 DEF PayInv, WireInv, CountInv, RecordsInv, VerdictsInv, RepliesInv
<1>8. CommandsInv'
  BY <1>1, <1>2 DEF PayInv, WireInv, CommandsInv, Known, Sent
<1>9. InspectedInv'
  BY <1>1, <1>3, <1>6 DEF PayInv, WireInv, InspectedInv
<1> QED BY <1>5, <1>7, <1>8, <1>9 DEF PayInv, WireInv

\* What the ledger books is the transfer of the request that it names.
LEMMA DeliverTypes ==
    ASSUME PayInv, IInv', NEW cmd, Deliver(cmd)
    PROVE  /\ L!LedgerTypeOK' /\ WireTypes'
           /\ UNCHANGED <<requests, ledgerCalls, lookups, inspected>>
           /\ cmd \in transit /\ transit' = transit \ {cmd}
           /\ cmd.request \in DOMAIN requests /\ Known(cmd) /\ Sent(cmd)
           /\ \A id : Entry(id)' = Entry(id)
<1>1. /\ UNCHANGED <<requests, ledgerCalls, lookups, inspected>>
      /\ cmd \in transit /\ transit' = transit \ {cmd}
  BY DEF Deliver, vars, books, calls
<1>2. cmd \in Command /\ cmd.request \in DOMAIN requests /\ Known(cmd) /\ Sent(cmd)
  BY <1>1, CommandsKnown DEF PayInv, WireTypes, WireInv, CommandsInv
<1>3. L!LedgerTypeOK' /\ WireTypes'
  <2>1. PICK reply \in L!Reply :
          replies' = IF cmd \in ledgerCalls THEN replies \cup {[cmd |-> cmd, reply |-> reply]} ELSE replies
    BY DeliverEffect
  <2>2. [cmd |-> cmd, reply |-> reply] \in [cmd : Command, reply : L!Reply]
    BY <1>2
  <2>3. WireTypes'
    BY <1>1, <2>1, <2>2 DEF PayInv, WireTypes
  <2>4. L!LedgerTypeOK'
    BY DeliverEffect
  <2> QED BY <2>3, <2>4
<1>4. \A id : Entry(id)' = Entry(id)
  BY <1>1 DEF Entry, Own, TransferOf
<1> QED BY <1>1, <1>2, <1>3, <1>4

\* A transfer that was never in doubt was sent once.
LEMMA SentOnce ==
    ASSUME PayInv, NEW cmd \in transit, NEW other \in transit, other.request = cmd.request,
           ~requests[cmd.request].everUnknown
    PROVE  other = cmd
<1> DEFINE r == requests[cmd.request]
<1>1. Sent(cmd) /\ Sent(other) /\ cmd \in Command /\ other \in Command
  BY DEF PayInv, WireTypes, WireInv, CommandsInv
<1>2. r.attempt = 1
  BY <1>1, CommandsKnown DEF PayInv, WireInv, CountInv, Counted
<1>3. cmd.attempt = 1 /\ other.attempt = 1 /\ cmd.created = other.created
  BY <1>1, <1>2 DEF Sent, Known
<1> QED BY <1>1, <1>3 DEF Command

\* Two requests have two entries.
LEMMA EntriesDiffer ==
    ASSUME NEW i, NEW j, Entry(i) = Entry(j)
    PROVE  i = j
<1>1. Own(i) = Own(j)
  BY DEF Entry
<1>2. Own(i).memo = i /\ Own(j).memo = j
  BY DEF Own, TransferOf
<1> QED BY <1>1, <1>2

\* The ledger executes a transfer.
LEMMA DeliverKeeps ==
    ASSUME PayInv, IInv', NEW cmd, Deliver(cmd)
    PROVE  PayInv'
<1> DEFINE id == cmd.request
<1>1. /\ L!LedgerTypeOK' /\ WireTypes'
      /\ UNCHANGED <<requests, ledgerCalls, lookups, inspected>>
      /\ cmd \in transit /\ transit' = transit \ {cmd}
      /\ id \in DOMAIN requests /\ Known(cmd) /\ Sent(cmd)
      /\ \A x : Entry(x)' = Entry(x)
  BY DeliverTypes
<1>2. PICK reply \in L!Reply :
        /\ replies' = IF cmd \in ledgerCalls THEN replies \cup {[cmd |-> cmd, reply |-> reply]} ELSE replies
        /\ \/ Paid(id) /\ reply = L!Duplicate(records[Entry(id)]) /\ UNCHANGED records
           \/ ~Paid(id) /\ reply = L!Error /\ UNCHANGED records
           \/ /\ ~Paid(id) /\ reply \in {L!Rejected, L!Ok(next)}
              /\ DOMAIN records' = DOMAIN records \cup {Entry(id)}
              /\ records'[Entry(id)] = next
              /\ \A k \in DOMAIN records : records'[k] = records[k]
  BY DeliverEffect
<1> DEFINE new == [cmd |-> cmd, reply |-> reply]
<1>3. requests[id].frozen # None
  BY <1>1, CommandsKnown
<1>4. /\ DOMAIN records \subseteq DOMAIN records' /\ DOMAIN records' \subseteq DOMAIN records \cup {Entry(id)}
      /\ \A k \in DOMAIN records : records'[k] = records[k]
  BY <1>2
<1>5. \A x : (Paid(x) => Paid(x)') /\ (Paid(x)' => Paid(x) \/ x = id)
  <2> SUFFICES ASSUME NEW x PROVE (Paid(x) => Paid(x)') /\ (Paid(x)' => Paid(x) \/ x = id)
    OBVIOUS
  <2>1. Entry(x) = Entry(id) => x = id
    BY EntriesDiffer
  <2> QED BY <1>1, <1>4, <2>1 DEF Paid
<1>6. \A x : Paid(x) => records'[Entry(x)'] = records[Entry(x)]
  BY <1>1, <1>4 DEF Paid
<1>7. CountInv' /\ CommandsInv'
  BY <1>1 DEF PayInv, WireInv, CountInv, CommandsInv, Known, Sent
<1>8. RecordsInv'
  <2> SUFFICES ASSUME NEW k \in DOMAIN records'
               PROVE  LET x == k[2].memo IN
                      x \in DOMAIN requests /\ requests[x].frozen # None /\ k = Entry(x)
    BY <1>1 DEF RecordsInv
  <2>1. CASE k \in DOMAIN records
    BY <2>1 DEF PayInv, WireInv, RecordsInv
  <2>2. CASE k = Entry(id)
    <3>1. k[2].memo = id
      BY <2>2 DEF Entry, Own, TransferOf
    <3> QED BY <1>1, <1>3, <2>2, <3>1
  <2> QED BY <1>4, <2>1, <2>2
<1>9. VerdictsInv'
  <2>1. requests[id].status # "FailedDefinitive"
    BY <1>1 DEF PayInv, WireInv, VerdictsInv
  <2> SUFFICES ASSUME NEW x \in DOMAIN requests
               PROVE  /\ requests[x].status = "Succeeded" =>
                           Paid(x)' /\ requests[x].block = records'[Entry(x)']
                      /\ requests[x].status = "FailedDefinitive" =>
                           ~Paid(x)' /\ \A c \in transit' : c.request # x
    BY <1>1 DEF VerdictsInv
  <2> QED BY <1>1, <1>5, <1>6, <2>1 DEF PayInv, WireInv, VerdictsInv
<1>10. RepliesInv'
  <2>1. ASSUME NEW a \in replies
        PROVE  a.cmd # cmd /\ (a.cmd.request = id /\ a.reply.kind = "Error" => requests[id].everUnknown)
    BY <1>1 DEF PayInv, WireInv, RepliesInv
  <2>2. ASSUME NEW a \in replies
        PROVE  LET x == a.cmd.request IN
               /\ a.cmd \in ledgerCalls /\ a.cmd \notin transit'
               /\ a.reply.kind \in {"Ok", "Duplicate"} =>
                    Paid(x)' /\ a.reply.index = records'[Entry(x)']
               /\ a.reply.kind = "Error" /\ ~requests[x].everUnknown =>
                    ~Paid(x)' /\ \A c \in transit' : c.request # x
    BY <1>1, <1>5, <1>6, <2>1 DEF PayInv, WireInv, RepliesInv
  <2>3. ASSUME cmd \in ledgerCalls
        PROVE  /\ cmd \in ledgerCalls /\ cmd \notin transit'
               /\ reply.kind \in {"Ok", "Duplicate"} =>
                    Paid(id)' /\ reply.index = records'[Entry(id)']
               /\ reply.kind = "Error" /\ ~requests[id].everUnknown =>
                    ~Paid(id)' /\ \A c \in transit' : c.request # id
    <3>1. CASE Paid(id) /\ reply = L!Duplicate(records[Entry(id)]) /\ UNCHANGED records
      BY <1>1, <1>5, <1>6, <2>3, <3>1 DEF L!Duplicate
    <3>2. CASE ~Paid(id) /\ reply = L!Error /\ UNCHANGED records
      <4>1. ~requests[id].everUnknown => \A c \in transit' : c.request # id
        BY <1>1, SentOnce
      <4>2. ~Paid(id)'
        BY <1>1, <3>2 DEF Paid
      <4> QED BY <1>1, <2>3, <3>2, <4>1, <4>2 DEF L!Error
    <3>3. CASE /\ ~Paid(id) /\ reply \in {L!Rejected, L!Ok(next)}
               /\ DOMAIN records' = DOMAIN records \cup {Entry(id)}
               /\ records'[Entry(id)] = next
      <4>1. Paid(id)' /\ records'[Entry(id)'] = next
        BY <1>1, <3>3 DEF Paid
      <4> QED BY <1>1, <2>3, <3>3, <4>1 DEF L!Rejected, L!Ok
    <3> QED BY <1>2, <3>1, <3>2, <3>3
  <2>4. \A a \in replies' : a \in replies \/ (cmd \in ledgerCalls /\ a = new)
    BY <1>2
  <2>5. ASSUME NEW a \in replies'
        PROVE  LET x == a.cmd.request IN
               /\ a.cmd \in ledgerCalls' /\ a.cmd \notin transit'
               /\ a.reply.kind \in {"Ok", "Duplicate"} =>
                    Paid(x)' /\ a.reply.index = records'[Entry(x)']
               /\ a.reply.kind = "Error" /\ ~requests'[x].everUnknown =>
                    ~Paid(x)' /\ \A c \in transit' : c.request # x
    BY <1>1, <2>2, <2>3, <2>4
  <2>6. \A a, b \in replies' : a.cmd = b.cmd => a = b
    BY <2>1, <2>4 DEF PayInv, WireInv, RepliesInv
  <2> QED BY <2>5, <2>6 DEF RepliesInv
<1>11. InspectedInv'
  BY <1>1, <1>5, <1>6 DEF PayInv, WireInv, InspectedInv
<1> QED BY <1>1, <1>7, <1>8, <1>9, <1>10, <1>11 DEF PayInv, WireInv-----------------------------------------------------------------------------
(* The theorems.                                                           *)

\* The invariant holds at first.
LEMMA PaymentInitHolds == PaymentInit => PayInv
<1> SUFFICES ASSUME PaymentInit PROVE PayInv
  OBVIOUS
<1>1. IInv
  BY InitHolds DEF PaymentInit
<1>2. L!LedgerTypeOK
  BY DEF PaymentInit, L!LedgerInit, L!LedgerTypeOK, L!IsMap, L!EmptyMap, L!Fault
<1>3. requests = EmptyMap /\ DOMAIN EmptyMap = {} /\ DOMAIN records = {}
  BY DEF PaymentInit, Init, EmptyMap, L!LedgerInit, L!EmptyMap
<1>4. transit = {} /\ replies = {} /\ inspected = {} /\ ledgerCalls = {} /\ lookups = {}
  BY DEF PaymentInit, Init
<1>5. WireTypes
  BY <1>4 DEF WireTypes
<1>6. CountInv /\ VerdictsInv
  BY <1>3 DEF CountInv, VerdictsInv
<1>7. CommandsInv /\ RecordsInv /\ RepliesInv /\ InspectedInv
  BY <1>3, <1>4 DEF CommandsInv, RecordsInv, RepliesInv, InspectedInv
<1> QED BY <1>1, <1>2, <1>5, <1>6, <1>7 DEF PayInv, WireInv

\* Every step keeps it.
LEMMA PaymentStepHolds == PayInv /\ [PaymentNext]_paymentVars => PayInv'
<1> SUFFICES ASSUME PayInv, [PaymentNext]_paymentVars PROVE PayInv'
  OBVIOUS
<1>1. IInv'
  BY ExecutorInPayment
<1>2. CASE UNCHANGED paymentVars
  <2>1. UNCHANGED vars /\ UNCHANGED <<fault, next, records, balances, transit, replies, inspected>>
    BY <1>2 DEF paymentVars, ledger, wires
  <2>2. L!LedgerTypeOK'
    BY <2>1 DEF PayInv, L!LedgerTypeOK
  <2> QED BY <1>1, <2>1, <2>2, NothingKeeps
<1>3. CASE ExecutorStep
  BY <1>1, <1>3, ExecutorKeeps
<1>4. CASE SwitchFault
  <2>1. UNCHANGED vars /\ UNCHANGED <<records, transit, replies, inspected>>
    BY <1>4 DEF SwitchFault, L!SetFault, wires
  <2>2. L!LedgerTypeOK'
    BY <1>4 DEF SwitchFault, L!SetFault, PayInv, L!LedgerTypeOK
  <2> QED BY <1>1, <2>1, <2>2, NothingKeeps
<1>5. CASE UpgradeStep
  BY <1>1, <1>5, UpgradeKeeps
<1>6. ASSUME NEW cmd \in transit, Drop(cmd) PROVE PayInv'
  <2>1. UNCHANGED vars /\ UNCHANGED <<fault, next, records, balances, replies, inspected>> /\ transit' \subseteq transit
    BY <1>6 DEF Drop, ledger
  <2>2. L!LedgerTypeOK'
    BY <2>1 DEF PayInv, L!LedgerTypeOK
  <2> QED BY <1>1, <2>1, <2>2, NothingKeeps
<1> QED BY <1>1, <1>2, <1>3, <1>4, <1>5, <1>6, DeliverKeeps, ReplyKeeps, TimeOutKeeps, LossKeeps,
           InspectKeeps, InspectionKeeps DEF PaymentNext

\* The invariant holds always.
LEMMA PaymentInvariance == PaymentSpec => []PayInv
BY PaymentInitHolds, PaymentStepHolds, PTL DEF PaymentSpec

\* Executor, ledger and messages keep the shapes they are declared with.
THEOREM PaymentTypeCorrect == PaymentSpec => []PaymentTypeOK
<1>1. PayInv => PaymentTypeOK
  BY DEF PayInv, WireTypes, PaymentTypeOK, IInv, BooksInv, CallsInv, TypeOK
<1> QED BY <1>1, PaymentInvariance, PTL

\* What the ledger has booked for a request is held by the request, or consumed by it.
LEMMA PaidIsHeld ==
    ASSUME PayInv, NEW k \in DOMAIN records
    PROVE  LET id == k[2].memo
               o == operations[requests[id].operation] IN
           /\ id \in DOMAIN requests /\ k = Entry(id)
           /\ requests[id].operation \in DOMAIN operations /\ o.holder = id
           /\ \/ o.state = "Reserved" /\ requests[id].epoch # None
              \/ o.state = "Consumed" /\ requests[id].status = "Succeeded"
<1> DEFINE id == k[2].memo
           r == requests[id]
<1>1. id \in DOMAIN requests /\ r.frozen # None /\ k = Entry(id)
  BY DEF PayInv, WireInv, RecordsInv
<1>2. r.status # "FailedDefinitive"
  BY <1>1 DEF PayInv, WireInv, VerdictsInv, Paid
<1>3. /\ r.operation \in DOMAIN operations
      /\ r.status \in Unresolved \cup {"Succeeded"} /\ (r.epoch # None <=> r.status \in Unresolved)
  BY <1>1, <1>2 DEF PayInv, IInv, BooksInv, RequestsCoherent
<1>4. /\ r.epoch # None => operations[r.operation].state = "Reserved" /\ operations[r.operation].holder = id
      /\ r.status = "Succeeded" => operations[r.operation].state = "Consumed" /\ operations[r.operation].holder = id
  BY <1>1 DEF PayInv, IInv, BooksInv, HoldersMatch
<1> QED BY <1>1, <1>3, <1>4

\* A booked transfer keeps its operation and budget held until it is settled as a success.
THEOREM BookedHeldHolds == PaymentSpec => []BookedStaysHeld
<1>1. PayInv => BookedStaysHeld
  BY PaidIsHeld DEF BookedStaysHeld
<1> QED BY <1>1, PaymentInvariance, PTL

\* Every verdict the executor reaches is true of the ledger, and stays true.
THEOREM VerdictsTrue == PaymentSpec => []VerdictsAreTrue
<1>1. ASSUME PayInv PROVE VerdictsAreTrue
  <2> SUFFICES ASSUME NEW id \in DOMAIN requests
               PROVE  LET cmd == [request |-> id, attempt |-> 1, created |-> requests[id].frozen] IN
                      /\ requests[id].status = "Succeeded" =>
                           Booked(cmd) /\ requests[id].block = L!Found(Self, TransferOf(cmd))
                      /\ requests[id].status = "FailedDefinitive" =>
                           ~Booked(cmd) /\ \A c \in transit : c.request # id
    BY DEF VerdictsAreTrue
  <2> DEFINE cmd == [request |-> id, attempt |-> 1, created |-> requests[id].frozen]
  <2>1. TransferOf(cmd) = Own(id)
    BY DEF Own
  <2>2. Booked(cmd) <=> Paid(id)
    BY <2>1 DEF Booked, L!Recorded, Paid, Entry
  <2>3. L!Found(Self, TransferOf(cmd)) = records[Entry(id)]
    BY <2>1 DEF L!Found, Entry
  <2> HIDE DEF cmd
  <2>4. /\ requests[id].status = "Succeeded" => Paid(id) /\ requests[id].block = records[Entry(id)]
        /\ requests[id].status = "FailedDefinitive" => ~Paid(id) /\ \A c \in transit : c.request # id
    BY <1>1 DEF PayInv, WireInv, VerdictsInv
  <2> QED BY <2>2, <2>3, <2>4 DEF cmd
<1> QED BY <1>1, PaymentInvariance, PTL-----------------------------------------------------------------------------
(* The refinement.                                                         *)

\* What is booked for an operation is at most the one transfer of its holder.
LEMMA BookedOnce ==
    ASSUME PayInv, NEW o \in Operation
    PROVE  /\ \A k \in BookedFor(o) : k = Entry(operations[o].holder)
           /\ BookedFor(o) = {} => Cardinality(BookedFor(o)) = 0
           /\ BookedFor(o) # {} => Cardinality(BookedFor(o)) = 1
           /\ \A id \in DOMAIN requests :
                Paid(id) /\ requests[id].operation = o => Entry(id) \in BookedFor(o)
<1>1. \A k \in BookedFor(o) : k = Entry(operations[o].holder)
  BY PaidIsHeld DEF BookedFor
<1>2. BookedFor(o) # {} => BookedFor(o) = {Entry(operations[o].holder)}
  BY <1>1
<1>3. \A id : Entry(id)[2].memo = id
  BY DEF Entry, Own, TransferOf
<1> QED BY <1>1, <1>2, <1>3, FS_EmptySet, FS_Singleton DEF BookedFor, Paid

\* An operation that was paid was paid once, in this state and in the next.
PaysOnce == \A o \in Operation : BookedFor(o) # {} => Cardinality(BookedFor(o)) = 1

\* It holds with the invariant.
LEMMA BookedOnceNow == PayInv => PaysOnce
BY BookedOnce DEF PaysOnce

\* ... and so with the invariant of the next state.
LEMMA BookedOnceNext == PayInv' => PaysOnce'
BY BookedOnceNow, PTL

\* What a step does to the hold and to the payments of the operations.
HoldsStay == \A o \in Operation : HoldOf(o)' = HoldOf(o)
BooksStill == \A o \in Operation : BookedFor(o)' = BookedFor(o)
Turns(o, before, after) ==
    /\ o \in Operation /\ HoldOf(o) = before /\ HoldOf(o)' = after
    /\ \A x \in Operation : x # o => HoldOf(x)' = HoldOf(x)

\* What the abstract specification allows.
AbstractStep ==
    \/ HoldsStay /\ BooksStill
    \/ \E o \in Operation : Turns(o, "free", "held") /\ BooksStill
    \/ \E o \in Operation : Turns(o, "held", "settled") /\ BooksStill /\ BookedFor(o) # {}
    \/ \E o \in Operation : Turns(o, "held", "free") /\ BooksStill /\ BookedFor(o) = {}
    \/ \E o \in Operation :
         /\ HoldsStay /\ HoldOf(o) = "held" /\ BookedFor(o) = {} /\ BookedFor(o)' # {}
         /\ \A x \in Operation : x # o => BookedFor(x)' = BookedFor(x)

\* Nothing is booked, and no request changes its operation.
LEMMA NothingBooked ==
    ASSUME PayInv, Onward, UNCHANGED records
    PROVE  BooksStill
<1>1. \A k \in DOMAIN records : requests'[k[2].memo].operation = requests[k[2].memo].operation
  BY DEF PayInv, WireInv, RecordsInv, Onward, Follows
<1> QED BY <1>1 DEF BooksStill, BookedFor

\* The states of the operations determine what is held.
LEMMA HoldsSame ==
    ASSUME UNCHANGED operations
    PROVE  HoldsStay
BY DEF HoldsStay, HoldOf

\* An operation that is in one state or another.
LEMMA HoldIs ==
    ASSUME NEW o \in DOMAIN operations
    PROVE  /\ operations[o].state = "Available" => HoldOf(o) = "free"
           /\ operations[o].state = "Reserved" => HoldOf(o) = "held"
           /\ operations[o].state = "Consumed" => HoldOf(o) = "settled"
BY Zenon DEF HoldOf

\* A step that writes the state of one operation.
LEMMA OperationTurns ==
    ASSUME NEW o \in Operation, o \in DOMAIN operations, DOMAIN operations' = DOMAIN operations,
           \A x \in DOMAIN operations : x # o => operations'[x] = operations[x]
    PROVE  \A x \in Operation : x # o => HoldOf(x)' = HoldOf(x)
BY DEF HoldOf

\* Dispatch holds an operation.
LEMMA DispatchAbstract ==
    ASSUME PayInv, NEW id \in DOMAIN requests, Dispatch(id), UNCHANGED records
    PROVE  AbstractStep
<1>1. PICK o \in Operation : o = requests[id].operation
  BY RequestParts DEF PayInv, IInv
<1>2. BooksStill
  BY DispatchProceeds, NothingBooked DEF Proceeds
<1>3. o \in DOMAIN operations /\ o \in Operation /\ operations[o] \in OperationRecord
  BY <1>1, RequestParts DEF PayInv, IInv, BooksInv, BooksTypeOK, IsMap
<1>4. /\ operations[o].state = "Available"
      /\ operations' = [operations EXCEPT ![o].state = "Reserved", ![o].holder = id]
  BY <1>1 DEF Dispatch, Authorized
<1>5. operations'[o].state = "Reserved" /\ DOMAIN operations' = DOMAIN operations
  BY <1>3, <1>4 DEF OperationRecord
<1>6. HoldOf(o) = "free" /\ HoldOf(o)' = "held"
  <2>1. operations'[o].state # "Available" /\ o \in DOMAIN operations'
    BY <1>3, <1>5
  <2>2. HoldOf(o)' = "held"
    BY <1>5, <2>1, Zenon DEF HoldOf
  <2> QED BY <1>3, <1>4, <2>2, HoldIs
<1>7. \A x \in Operation : x # o => HoldOf(x)' = HoldOf(x)
  BY <1>3, <1>4, OperationTurns
<1>8. Turns(o, "free", "held")
  BY <1>3, <1>6, <1>7 DEF Turns
<1> QED BY <1>2, <1>3, <1>8 DEF AbstractStep

\* A true outcome settles what is booked, and releases what is not.
LEMMA FinishLedgerAbstract ==
    ASSUME PayInv, NEW cmd, cmd.request \in DOMAIN requests, NEW outcome, TrueOf(cmd, outcome),
           FinishLedger(cmd, outcome), ledgerCalls' \subseteq ledgerCalls, lookups' \subseteq lookups,
           UNCHANGED records
    PROVE  AbstractStep
<1> DEFINE id == cmd.request
<1>1. PICK o \in Operation : o = requests[id].operation
  BY RequestParts DEF PayInv, IInv
<1>2. BooksStill
  BY FinishLedgerConcludes, NothingBooked DEF Concludes
<1>3. o \in DOMAIN operations /\ o \in Operation /\ operations[o] \in OperationRecord
  BY <1>1, RequestParts DEF PayInv, IInv, BooksInv, BooksTypeOK, IsMap
<1>4. ASSUME NEW success \in BOOLEAN, NEW block, SettleRecord(id, success, block),
             success => Paid(id), ~success => ~Paid(id)
      PROVE  AbstractStep
  <2>1. operations[o].state = "Reserved" /\ operations[o].holder = id
    BY <1>1, <1>4 DEF SettleRecord, CanSettle
  <2>2. operations' = [operations EXCEPT ![o].state = IF success THEN "Consumed" ELSE "Available",
                                         ![o].holder = IF success THEN id ELSE None]
    BY <1>1, <1>4 DEF SettleRecord
  <2>3. /\ operations'[o].state = IF success THEN "Consumed" ELSE "Available"
        /\ DOMAIN operations' = DOMAIN operations
    BY <1>3, <2>2 DEF OperationRecord
  <2>4. HoldOf(o) = "held"
    BY <1>3, <2>1, HoldIs
  <2>5. success => HoldOf(o)' = "settled"
    <3> SUFFICES ASSUME success PROVE HoldOf(o)' = "settled"
      OBVIOUS
    <3>1. o \in DOMAIN operations' /\ operations'[o].state = "Consumed"
      BY <1>3, <2>3
    <3>2. operations'[o].state # "Available" /\ operations'[o].state # "Reserved"
      BY <3>1
    <3> QED BY <3>1, <3>2, Zenon DEF HoldOf
  <2>6. ~success => HoldOf(o)' = "free"
    <3> SUFFICES ASSUME ~success PROVE HoldOf(o)' = "free"
      OBVIOUS
    <3>1. o \in DOMAIN operations' /\ operations'[o].state = "Available"
      BY <1>3, <2>3
    <3>2. operations'[o].state # "Reserved"
      BY <3>1
    <3> QED BY <3>1, <3>2, Zenon DEF HoldOf
  <2>7. \A x \in Operation : x # o => HoldOf(x)' = HoldOf(x)
    BY <1>3, <2>2, OperationTurns
  <2>8. success => BookedFor(o) # {}
    BY <1>1, <1>3, <1>4, BookedOnce
  <2>9. ~success => BookedFor(o) = {}
    <3> SUFFICES ASSUME ~success, NEW k \in BookedFor(o) PROVE FALSE
      OBVIOUS
    <3>1. k = Entry(id) /\ k \in DOMAIN records
      BY <1>3, <2>1, BookedOnce DEF BookedFor
    <3> QED BY <1>4, <3>1 DEF Paid
  <2>10. CASE success
    <3>1. Turns(o, "held", "settled")
      BY <1>3, <2>4, <2>5, <2>7, <2>10 DEF Turns
    <3> QED BY <1>2, <1>3, <2>8, <2>10, <3>1 DEF AbstractStep
  <2>11. CASE ~success
    <3>1. Turns(o, "held", "free")
      BY <1>3, <2>4, <2>6, <2>7, <2>11 DEF Turns
    <3> QED BY <1>2, <1>3, <2>9, <2>11, <3>1 DEF AbstractStep
  <2> QED BY <2>10, <2>11
<1>5. CASE outcome.kind = "Success" /\ SettleRecord(id, TRUE, outcome.block)
  BY <1>4, <1>5 DEF TrueOf
<1>6. CASE Definite(cmd, outcome) /\ SettleRecord(id, FALSE, None)
  BY <1>4, <1>6 DEF TrueOf, Definite, DefinitiveError
<1>7. CASE UNCHANGED operations
  BY <1>2, <1>7, HoldsSame DEF AbstractStep
<1> QED BY <1>5, <1>6, <1>7 DEF FinishLedger
\* The ledger pays an operation that is held and was not paid.
LEMMA DeliverAbstract ==
    ASSUME PayInv, NEW cmd, Deliver(cmd)
    PROVE  AbstractStep
<1> DEFINE id == cmd.request
<1>1. /\ cmd \in transit /\ UNCHANGED <<operations, requests>>
      /\ id \in DOMAIN requests /\ requests[id].frozen # None
  BY CommandsKnown DEF Deliver, vars, books
<1>2. HoldsStay
  BY <1>1, HoldsSame
<1>3. CASE UNCHANGED records
  BY <1>1, <1>2, <1>3 DEF BooksStill, BookedFor, AbstractStep
<1>4. CASE ~Paid(id) /\ DOMAIN records' = DOMAIN records \cup {Entry(id)}
  <2>1. PICK o \in Operation : o = requests[id].operation
    BY <1>1, RequestParts DEF PayInv, IInv
  <2>2. requests[id].status \in Unresolved
    BY <1>1, <1>4 DEF PayInv, IInv, BooksInv, RequestsCoherent, WireInv, VerdictsInv
  <2>3. o \in DOMAIN operations /\ operations[o].state = "Reserved" /\ operations[o].holder = id
    BY <1>1, <2>1, <2>2 DEF PayInv, IInv, BooksInv, RequestsCoherent, HoldersMatch
  <2>4. HoldOf(o) = "held"
    BY <2>3, HoldIs
  <2>5. BookedFor(o) = {}
    <3> SUFFICES ASSUME NEW k \in BookedFor(o) PROVE FALSE
      OBVIOUS
    <3>1. k = Entry(id) /\ k \in DOMAIN records
      BY <2>3, BookedOnce DEF BookedFor
    <3> QED BY <1>4, <3>1 DEF Paid
  <2>6. Entry(id)[2].memo = id
    BY DEF Entry, Own, TransferOf
  <2>7. Entry(id) \in BookedFor(o)'
    BY <1>1, <1>4, <2>1, <2>6 DEF BookedFor
  <2>8. \A x \in Operation : x # o => BookedFor(x)' = BookedFor(x)
    BY <1>1, <1>4, <2>1, <2>6 DEF BookedFor
  <2> QED BY <1>2, <2>4, <2>5, <2>7, <2>8 DEF AbstractStep
<1> QED BY <1>3, <1>4, DeliverEffect

\* The steps that neither hold nor settle nor book.
LEMMA QuietAbstract ==
    ASSUME PayInv, Onward, UNCHANGED records,
           \/ UNCHANGED operations
           \/ \E o \in Operation : InstallOperation(o) \/ ReviseOperation(o)
    PROVE  AbstractStep
<1>1. BooksStill
  BY NothingBooked
<1>2. CASE UNCHANGED operations
  BY <1>1, <1>2, HoldsSame DEF AbstractStep
<1>3. ASSUME NEW o \in Operation, InstallOperation(o) PROVE HoldsStay
  <2>1. o \notin DOMAIN operations /\ DOMAIN operations' = DOMAIN operations \cup {o}
    BY <1>3 DEF InstallOperation, Put
  <2>2. operations'[o].state = "Available" /\ \A x \in DOMAIN operations : operations'[x] = operations[x]
    BY <1>3 DEF InstallOperation, Put
  <2>3. HoldOf(o) = "free" /\ HoldOf(o)' = "free"
    BY <2>1, <2>2, Zenon DEF HoldOf
  <2>4. \A x \in Operation : x # o => HoldOf(x)' = HoldOf(x)
    BY <2>1, <2>2 DEF HoldOf
  <2> QED BY <2>3, <2>4 DEF HoldsStay
<1>4. ASSUME NEW o \in Operation, ReviseOperation(o) PROVE HoldsStay
  <2>1. /\ o \in DOMAIN operations /\ operations[o].state = "Available" /\ operations[o] \in OperationRecord
        /\ operations' = [operations EXCEPT ![o].revision = @ + 1]
    BY <1>4 DEF ReviseOperation, PayInv, IInv, BooksInv, BooksTypeOK, IsMap
  <2>2. DOMAIN operations' = DOMAIN operations /\ operations'[o].state = "Available"
    BY <2>1 DEF OperationRecord
  <2>3. HoldOf(o) = "free" /\ HoldOf(o)' = "free"
    BY <2>1, <2>2, Zenon DEF HoldOf
  <2>4. \A x \in Operation : x # o => HoldOf(x)' = HoldOf(x)
    BY <2>1, OperationTurns
  <2> QED BY <2>3, <2>4 DEF HoldsStay
<1> QED BY <1>1, <1>2, <1>3, <1>4 DEF AbstractStep

\* Every step is one that the abstract specification allows.
LEMMA StepIsAbstract ==
    ASSUME PayInv, [PaymentNext]_paymentVars
    PROVE  AbstractStep
<1>1. UNCHANGED paymentVars \/ SwitchFault \/ (\E cmd \in transit : Drop(cmd))
        \/ (\E cmd \in ledgerCalls : SendTraps(cmd)) \/ (\E cmd \in lookups : Inspect(cmd) \/ InspectionFails(cmd))
        => AbstractStep
  <2> SUFFICES ASSUME UNCHANGED <<requests, operations>>,
                      UNCHANGED records \/ SwitchFault
               PROVE  AbstractStep
    BY DEF paymentVars, vars, books, ledger, SwitchFault, Drop, SendTraps, LedgerCallbackTraps, Inspect,
           InspectionFails, LookupFails
  <2>1. Onward
    BY FollowsItself DEF PayInv, Onward
  <2> QED BY <2>1, QuietAbstract DEF SwitchFault, L!SetFault
<1>2. ASSUME ExecutorStep PROVE AbstractStep
  <2>1. UNCHANGED records
    BY <1>2 DEF ExecutorStep, ledger
  <2>2. Onward
    BY <1>2, ExecutorProceeds DEF ExecutorStep, Proceeds
  <2>3. CASE Tick
    BY <2>1, <2>2, <2>3, QuietAbstract DEF Tick, books
  <2>4. CASE OwnerStep
    <3>1. \/ UNCHANGED operations
          \/ \E o \in Operation : InstallOperation(o) \/ ReviseOperation(o)
      BY <2>4 DEF OwnerStep, SetMode, SetPaused, InstallPlan, InstallGrant, Revoke, RegisterMockLedger, books
    <3> QED BY <2>1, <2>2, <3>1, QuietAbstract
  <2>5. CASE EngineStep
    <3>1. UNCHANGED operations
      BY <2>5 DEF EngineStep, EngineReturns, FinishEvaluation, RefuseEvaluation, EngineTransportFailed,
                  EngineCallbackTraps, Continue, books
    <3> QED BY <2>1, <2>2, <3>1, QuietAbstract
  <2>6. CASE ClientStep
    <3>1. \/ UNCHANGED operations
          \/ \E id \in DOMAIN requests : Dispatch(id)
      BY <2>6 DEF ClientStep, Submit, BeginEvaluation, Report, RetryUnknown, Reconcile, Cancel, books
    <3> QED BY <2>1, <2>2, <3>1, QuietAbstract, DispatchAbstract
  <2> QED BY <1>2, <2>3, <2>4, <2>5, <2>6 DEF ExecutorStep
<1>3. ASSUME UpgradeStep PROVE AbstractStep
  <2>1. Onward /\ UNCHANGED operations /\ UNCHANGED records
    BY <1>3, UpgradeConcludes DEF UpgradeStep, Upgrade, ForcedUpgrade, PostUpgrade, Concludes, ledger
  <2> QED BY <2>1, QuietAbstract
<1>4. ASSUME NEW a \in replies, ReplyArrives(a) PROVE AbstractStep
  <2>1. /\ FinishLedger(a.cmd, OutcomeOf(a.reply)) /\ a.cmd \in ledgerCalls /\ UNCHANGED records
        /\ ledgerCalls' \subseteq ledgerCalls /\ lookups' \subseteq lookups
    BY <1>4 DEF ReplyArrives, LedgerReturns, ledger
  <2>2. a.cmd.request \in DOMAIN requests /\ TrueOf(a.cmd, OutcomeOf(a.reply))
    BY <2>1, CommandsKnown, OutcomesTrue
  <2> QED BY <2>1, <2>2, FinishLedgerAbstract
<1>5. ASSUME NEW cmd \in ledgerCalls, TimeOut(cmd) PROVE AbstractStep
  <2>1. /\ FinishLedger(cmd, OutcomeOf(L!Rejected)) /\ UNCHANGED records
        /\ ledgerCalls' \subseteq ledgerCalls /\ lookups' \subseteq lookups
    BY <1>5 DEF TimeOut, LedgerReturns, ledger
  <2>2. cmd.request \in DOMAIN requests /\ TrueOf(cmd, OutcomeOf(L!Rejected))
    BY CommandsKnown, OutcomesTrue
  <2> QED BY <2>1, <2>2, FinishLedgerAbstract
<1>6. ASSUME NEW a \in inspected, InspectionArrives(a) PROVE AbstractStep
  <2> DEFINE outcome == IF a.found # None THEN Success(a.found) ELSE Unknown
  <2>1. /\ FinishLedger(a.cmd, outcome) /\ UNCHANGED records
        /\ ledgerCalls' \subseteq ledgerCalls /\ lookups' \subseteq lookups
    BY <1>6 DEF InspectionArrives, LookupReturns, ledger
  <2>2. a.cmd.request \in DOMAIN requests /\ TrueOf(a.cmd, outcome)
    BY CommandsKnown, OutcomesTrue
  <2> HIDE DEF outcome
  <2> QED BY <2>1, <2>2, FinishLedgerAbstract
<1> QED BY <1>1, <1>2, <1>3, <1>4, <1>5, <1>6, DeliverAbstract DEF PaymentNext

\* Such a step is a step of ExactlyOncePayment, or changes nothing there.
LEMMA AbstractImplies ==
    ASSUME PayInv, PayInv', AbstractStep
    PROVE  \/ ExactlyOnce!Next
           \/ UNCHANGED <<[o \in Operation |-> HoldOf(o)],
                          [o \in Operation |-> Cardinality(BookedFor(o))]>>
<1> DEFINE hold == [o \in Operation |-> HoldOf(o)]
           paid == [o \in Operation |-> Cardinality(BookedFor(o))]
<1>1. BooksStill => paid' = paid
  BY DEF BooksStill
<1>2. HoldsStay => hold' = hold
  BY DEF HoldsStay
<1>3. ASSUME NEW o \in Operation, NEW before, NEW after, Turns(o, before, after)
      PROVE  hold[o] = before /\ hold' = [hold EXCEPT ![o] = after]
  BY <1>3 DEF Turns
<1>4. ASSUME NEW o \in Operation
      PROVE  /\ hold[o] = HoldOf(o)
             /\ BookedFor(o) = {} => paid[o] = 0
             /\ BookedFor(o) # {} => paid[o] = 1
  BY BookedOnce
<1>5. ASSUME NEW o \in Operation, BookedFor(o) = {}, BookedFor(o)' # {},
             \A x \in Operation : x # o => BookedFor(x)' = BookedFor(x)
      PROVE  paid' = [paid EXCEPT ![o] = 1]
  <2>1. Cardinality(BookedFor(o))' = 1
    BY <1>5, BookedOnceNext DEF PaysOnce
  <2> QED BY <1>5, <2>1
<1> HIDE DEF hold, paid
<1>6. CASE HoldsStay /\ BooksStill
  BY <1>1, <1>2, <1>6 DEF hold, paid
<1>7. ASSUME NEW o \in Operation, Turns(o, "free", "held"), BooksStill PROVE ExactlyOnce!Hold(o)
  BY <1>1, <1>3, <1>7 DEF ExactlyOnce!Hold, hold, paid
<1>8. ASSUME NEW o \in Operation, Turns(o, "held", "settled"), BooksStill, BookedFor(o) # {}
      PROVE  ExactlyOnce!Settle(o)
  BY <1>1, <1>3, <1>4, <1>8 DEF ExactlyOnce!Settle, hold, paid
<1>9. ASSUME NEW o \in Operation, Turns(o, "held", "free"), BooksStill, BookedFor(o) = {}
      PROVE  ExactlyOnce!Release(o)
  BY <1>1, <1>3, <1>4, <1>9 DEF ExactlyOnce!Release, hold, paid
<1>10. ASSUME NEW o \in Operation, HoldsStay, HoldOf(o) = "held", BookedFor(o) = {}, BookedFor(o)' # {},
              \A x \in Operation : x # o => BookedFor(x)' = BookedFor(x)
       PROVE  ExactlyOnce!Pay(o)
  BY <1>2, <1>4, <1>5, <1>10 DEF ExactlyOnce!Pay, hold, paid
<1> QED BY <1>6, <1>7, <1>8, <1>9, <1>10 DEF AbstractStep, ExactlyOnce!Next
\* At first nothing is held and nothing paid.
LEMMA InitIsAbstract == PaymentInit => ExactlyOnce!Init
<1> SUFFICES ASSUME PaymentInit PROVE ExactlyOnce!Init
  OBVIOUS
<1>1. DOMAIN operations = {} /\ DOMAIN records = {}
  BY DEF PaymentInit, Init, EmptyMap, L!LedgerInit, L!EmptyMap
<1>2. \A o : HoldOf(o) = "free" /\ Cardinality(BookedFor(o)) = 0
  <2>1. \A o : BookedFor(o) = {}
    BY <1>1 DEF BookedFor
  <2> QED BY <1>1, <2>1, FS_EmptySet DEF HoldOf
<1> QED BY <1>2 DEF ExactlyOnce!Init

\* Executor and ledger together hold, pay, settle and release each operation as
\* ExactlyOncePayment says, whatever is delayed, dropped, repeated or lost.
THEOREM PaysExactlyOnce == PaymentSpec => ExactlyOnceSpec
<1>1. PayInv /\ PayInv' /\ [PaymentNext]_paymentVars
        => [ExactlyOnce!Next]_<<[o \in Operation |-> HoldOf(o)],
                               [o \in Operation |-> Cardinality(BookedFor(o))]>>
  BY StepIsAbstract, AbstractImplies
<1> QED BY <1>1, InitIsAbstract, PaymentInvariance, PTL DEF PaymentSpec, ExactlyOnceSpec, ExactlyOnce!Spec

-----------------------------------------------------------------------------
(***************************************************************************)
(* What the ledger debits is what the grants spend: every booked transfer  *)
(* is of a request of its own, whose budget the executor holds or has      *)
(* spent.                                                                  *)
(***************************************************************************)

\* The transfers the ledger booked under a grant.
BookedUnder(g) == {k \in DOMAIN records : requests[k[2].memo].grant = g}

\* Every booked transfer is of a request of its own, which still holds its charge or spent it.
LEMMA BookedIsCharged ==
    ASSUME PayInv, NEW g, NEW k \in BookedUnder(g)
    PROVE  /\ k[2].memo \in Held(g) \cup PaidUnder(g)
           /\ k = Entry(k[2].memo)
           /\ L!Debits[k] = Charges[k[2].memo]
<1> DEFINE id == k[2].memo
<1>1. /\ k \in DOMAIN records /\ id \in DOMAIN requests /\ requests[id].frozen # None
      /\ k = Entry(id) /\ requests[id].grant = g
  BY DEF BookedUnder, PayInv, WireInv, RecordsInv
<1>2. requests[id].status \in Unresolved \cup {"Succeeded"}
  BY <1>1 DEF PayInv, IInv, BooksInv, RequestsCoherent, WireInv, VerdictsInv, Paid
<1>3. id \in Held(g) \cup PaidUnder(g)
  BY <1>1, <1>2 DEF PayInv, IInv, BooksInv, RequestsCoherent, Held, Holding, PaidUnder
<1>4. k[2] = Own(id)
  BY <1>1 DEF Entry
<1>5. k[2].amount + k[2].fee = Charge(requests[id].operation)
  BY <1>4 DEF Own, TransferOf, Charge
<1>6. L!Debits[k] = Charges[id]
  BY <1>1, <1>5 DEF L!Debits, Charges
<1> QED BY <1>1, <1>3, <1>6

\* So what was debited is at most what is held and spent.
LEMMA DebitsCharged ==
    ASSUME PayInv, BudgetInv, SpentInv
    PROVE  /\ DebitsAreBudgeted
           /\ \A g \in DOMAIN grants : SumFunctionOnSet(L!Debits, BookedUnder(g)) \in Nat
<1> SUFFICES ASSUME NEW g \in DOMAIN grants
             PROVE  /\ SumFunctionOnSet(L!Debits, BookedUnder(g))
                         <= grants[g].total.spent + grants[g].total.reserved
                    /\ SumFunctionOnSet(L!Debits, BookedUnder(g)) \in Nat
  BY DEF DebitsAreBudgeted, BookedUnder
<1> DEFINE S == BookedUnder(g)
           T == Held(g) \cup PaidUnder(g)
           memo == [k \in S |-> k[2].memo]
<1>1. BooksInv /\ IsFiniteSet(DOMAIN requests)
  BY DEF PayInv, IInv, BudgetInv
<1>2. /\ Held(g) \in SUBSET DOMAIN requests /\ PaidUnder(g) \in SUBSET DOMAIN requests
      /\ T \in SUBSET DOMAIN requests
  BY DEF Held, Holding, PaidUnder
<1>3. Held(g) \cap PaidUnder(g) = {}
  BY <1>1 DEF Held, Holding, PaidUnder, BooksInv, HoldersMatch
<1>4. /\ IsFiniteSet(T) /\ IsFiniteSet(Held(g)) /\ IsFiniteSet(PaidUnder(g))
      /\ \A id \in T : Charges[id] \in Nat
  <2> HIDE DEF T
  <2> QED BY <1>1, <1>2, HeldSums
<1>5. memo \in Injection(S, T)
  <2>1. \A k \in S : memo[k] \in T /\ k = Entry(memo[k])
    BY BookedIsCharged
  <2> HIDE DEF memo, S, T
  <2>2. \A k, m \in S : memo[k] = memo[m] => k = m
    BY <2>1
  <2>3. memo \in [S -> T]
    BY <2>1 DEF memo
  <2> QED BY <2>2, <2>3 DEF Injection, IsInjective
<1>6. \A k \in S : L!Debits[k] = Charges[memo[k]]
  BY BookedIsCharged
<1> DEFINE f == L!Debits
           c == Charges
<1>7. SumFunctionOnSet(f, S) <= SumFunctionOnSet(c, T) /\ SumFunctionOnSet(f, S) \in Nat
  <2>1. (\A id \in T : c[id] \in Nat) /\ \A k \in S : f[k] = c[memo[k]]
    BY <1>4, <1>6
  <2> HIDE DEF f, c, S, T, memo
  <2>2. \A k \in S : memo[k] \in T
    BY <1>5 DEF Injection
  <2>3. IsFiniteSet(S) /\ SumFunctionOnSet(f, S) <= SumFunctionOnSet(c, T)
    BY <1>4, <1>5, <2>1, SumInjects
  <2>4. \A k \in S : f[k] \in Nat
    BY <2>1, <2>2
  <2> QED BY <2>3, <2>4, SumType
<1>8. SumFunctionOnSet(c, T) = Reserves(Held(g)) + Reserves(PaidUnder(g))
  <2>1. \A id \in T : c[id] \in Nat
    BY <1>4
  <2> HIDE DEF c
  <2>2. SumFunctionOnSet(c, T) = SumFunctionOnSet(c, Held(g)) + SumFunctionOnSet(c, PaidUnder(g))
    BY <1>3, <1>4, <2>1, SumUnion
  <2> QED BY <2>2 DEF Reserves, c
<1>9. /\ grants[g].total.spent = Reserves(PaidUnder(g))
      /\ grants[g].total.reserved = Reserves(Held(g))
      /\ Reserves(Held(g)) \in Nat /\ Reserves(PaidUnder(g)) \in Nat
  BY <1>1, <1>2, HeldSums DEF BudgetInv, SpentInv
<1> HIDE DEF S, T
<1> QED BY <1>7, <1>8, <1>9 DEF S

\* The executor's budget stays right next to a ledger.
LEMMA PaymentBudget == PaymentSpec => [](BudgetInv /\ SpentInv)
<1>1. PaymentInit => BudgetInv /\ SpentInv
  BY InitBudget DEF PaymentInit, Init, SpentInv, EmptyMap
<1>2. PayInv /\ BudgetInv /\ SpentInv /\ [PaymentNext]_paymentVars => BudgetInv' /\ SpentInv'
  BY ExecutorInPayment, StepBudget, StepSpent DEF PayInv
<1> QED BY <1>1, <1>2, PaymentInvariance, PTL DEF PaymentSpec

\* What the ledger debited under a grant is covered by what the grant has spent or reserved.
THEOREM DebitsBudgeted == PaymentSpec => []DebitsAreBudgeted
<1>1. PayInv /\ BudgetInv /\ SpentInv => DebitsAreBudgeted
  BY DebitsCharged
<1> QED BY <1>1, PaymentInvariance, PaymentBudget, PTL

\* The ledger never debits more under a grant than its total cap: the cap bounds the money
\* itself, not only the executor's account of it.
THEOREM DebitsWithinCap ==
    PaymentSpec =>
      [](\A g \in DOMAIN grants :
           SumFunctionOnSet(L!Debits, {k \in DOMAIN records : requests[k[2].memo].grant = g})
             <= Terms[g].totalCap)
<1> DEFINE Within == \A g \in DOMAIN grants :
             SumFunctionOnSet(L!Debits, {k \in DOMAIN records : requests[k[2].memo].grant = g})
               <= Terms[g].totalCap
<1>1. PayInv /\ BudgetInv /\ SpentInv => Within
  <2> SUFFICES ASSUME PayInv, BudgetInv, SpentInv, NEW g \in DOMAIN grants
               PROVE  SumFunctionOnSet(L!Debits, BookedUnder(g)) <= Terms[g].totalCap
    BY DEF BookedUnder
  <2>1. SumFunctionOnSet(L!Debits, BookedUnder(g)) <= grants[g].total.spent + grants[g].total.reserved
    BY DebitsCharged DEF DebitsAreBudgeted, BookedUnder
  <2>2. grants[g].total.spent + grants[g].total.reserved <= Terms[g].totalCap
    BY DEF PayInv, IInv, BooksInv, CapsRespected
  <2>3. SumFunctionOnSet(L!Debits, BookedUnder(g)) \in Nat
    BY DebitsCharged
  <2>4. grants[g].total \in Usage /\ g \in Grant
    BY DEF PayInv, IInv, BooksInv, BooksTypeOK, IsMap, GrantRecord
  <2>5. Terms[g].totalCap \in Nat
    BY <2>4, DataAssumption DEF DataAssumption, GrantTerms
  <2> QED BY <2>1, <2>2, <2>3, <2>4, <2>5 DEF Usage
<1> QED BY <1>1, PaymentInvariance, PaymentBudget, PTL

=============================================================================
