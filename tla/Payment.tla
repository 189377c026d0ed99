------------------------------ MODULE Payment -------------------------------
(***************************************************************************)
(* The executor and a mock ledger, joined by the calls of send() and       *)
(* reconcile_mock().                                                       *)
(*                                                                         *)
(* Both calls are bounded-wait calls of the Internet Computer: the request *)
(* is executed at most once, possibly after the caller gave up waiting,    *)
(* possibly never; the caller gets the reply, or a rejection at any time.  *)
(***************************************************************************)
EXTENDS Executor

CONSTANTS
    Self,                           \* the principal of the executor
    InitialBalance, RequiredFee,    \* see MockLedger
    Skew, MaxRecords, MaxAccounts

ASSUME OneLedger == \E x \in Ledger : Ledger = {x}
ASSUME IndicesAreNumbers == Block = Nat
ASSUME LedgerNumbers == {InitialBalance, RequiredFee, Skew, MaxRecords, MaxAccounts} \subseteq Nat

VARIABLES
    fault, next, records, balances, \* the ledger
    transit,    \* commands whose icrc1_transfer the ledger has not executed
    replies,    \* replies of icrc1_transfer on their way back
    inspected   \* replies of ic_laya_lookup on their way back

L == INSTANCE MockLedger WITH Caller <- {Self}, Memo <- RequestId

ledger == <<fault, next, records, balances>>
wires == <<transit, replies, inspected>>
paymentVars == <<vars, ledger, wires>>

PaymentInit == Init /\ L!LedgerInit /\ transit = {} /\ replies = {} /\ inspected = {}

\* The arguments of a command, as to_icrc writes and from_icrc reads them.
TransferOf(cmd) ==
    LET o == requests[cmd.request].operation IN
    [amount |-> Proposal[o].amount, fee |-> Proposal[o].fee,
     memo |-> cmd.request, created |-> cmd.created]

Booked(cmd) == L!Recorded(Self, TransferOf(cmd))

PaymentTypeOK ==
    /\ TypeOK /\ L!LedgerTypeOK
    /\ transit \subseteq Command
    /\ replies \subseteq [cmd : Command, reply : L!Reply]
    /\ inspected \subseteq [cmd : Command, found : Nat \cup {None}]
-----------------------------------------------------------------------------
\* Steps of the executor that hear nothing from the ledger; new commands go out.
ExecutorStep ==
    /\ Tick \/ OwnerStep \/ ClientStep \/ EngineStep
    /\ transit' = transit \cup (ledgerCalls' \ ledgerCalls)
    /\ UNCHANGED <<ledger, replies, inspected>>

\* The ledger executes a transfer; its reply is lost if nobody waits any more.
Deliver(cmd) ==
    /\ cmd \in transit
    /\ transit' = transit \ {cmd}
    /\ \E reply \in {L!Error, L!Rejected, L!Ok(next)}
                    \cup (IF Booked(cmd) THEN {L!Duplicate(L!Found(Self, TransferOf(cmd)))} ELSE {}) :
         /\ L!icrc1_transfer(Self, TransferOf(cmd), now, reply)
         /\ replies' = IF cmd \in ledgerCalls
                       THEN replies \cup {[cmd |-> cmd, reply |-> reply]} ELSE replies
    /\ UNCHANGED <<vars, inspected>>

\* The system drops a request that it could not deliver in time.
Drop(cmd) ==
    /\ cmd \in transit
    /\ transit' = transit \ {cmd}
    /\ UNCHANGED <<vars, ledger, replies, inspected>>

\* How send() reads a reply.  (Seeded fault: a rejection is taken for a refusal.)
OutcomeOf_RejectionFails(reply) ==
    IF reply.kind \in {"Ok", "Duplicate"} THEN Success(reply.index) ELSE DefinitiveError
OutcomeOf(reply) ==
    CASE reply.kind \in {"Ok", "Duplicate"} -> Success(reply.index)
      [] reply.kind = "Error" -> DefinitiveError
      [] OTHER -> Unknown  \* the call was rejected

ReplyArrives(a) ==
    /\ a \in replies
    /\ replies' = replies \ {a}
    /\ LedgerReturns(a.cmd, OutcomeOf(a.reply))
    /\ UNCHANGED <<ledger, transit, inspected>>

\* The caller stops waiting; the request may be executed all the same.
TimeOut(cmd) ==
    /\ LedgerReturns(cmd, OutcomeOf(L!Rejected))
    /\ replies' = {a \in replies : a.cmd # cmd}
    /\ UNCHANGED <<ledger, transit, inspected>>

SendTraps(cmd) ==
    /\ LedgerCallbackTraps(cmd)
    /\ replies' = {a \in replies : a.cmd # cmd}
    /\ UNCHANGED <<ledger, transit, inspected>>

\* The ledger executes a lookup.
Inspect(cmd) ==
    /\ cmd \in lookups /\ \A a \in inspected : a.cmd # cmd
    /\ inspected' = inspected \cup
           {[cmd |-> cmd, found |-> IF Booked(cmd) THEN L!Found(Self, TransferOf(cmd)) ELSE None]}
    /\ UNCHANGED <<vars, ledger, transit, replies>>

InspectionArrives(a) ==
    /\ a \in inspected
    /\ inspected' = inspected \ {a}
    /\ LookupReturns(a.cmd, a.found)
    /\ UNCHANGED <<ledger, transit, replies>>

InspectionFails(cmd) ==
    /\ LookupFails(cmd)
    /\ inspected' = {a \in inspected : a.cmd # cmd}
    /\ UNCHANGED <<ledger, transit, replies>>

\* Requests already sent stay on their way; nobody waits for their replies.
UpgradeStep ==
    /\ Upgrade \/ ForcedUpgrade
    /\ replies' = {} /\ inspected' = {}
    /\ UNCHANGED <<ledger, transit>>

SwitchFault == (\E f \in L!Fault : L!SetFault(f)) /\ UNCHANGED <<vars, wires>>

PaymentNext ==
    \/ ExecutorStep \/ SwitchFault \/ UpgradeStep
    \/ \E cmd \in transit : Deliver(cmd) \/ Drop(cmd)
    \/ \E a \in replies : ReplyArrives(a)
    \/ \E cmd \in ledgerCalls : TimeOut(cmd) \/ SendTraps(cmd)
    \/ \E cmd \in lookups : Inspect(cmd) \/ InspectionFails(cmd)
    \/ \E a \in inspected : InspectionArrives(a)

PaymentSpec == PaymentInit /\ [][PaymentNext]_paymentVars
-----------------------------------------------------------------------------
(* Safety.                                                                 *)

\* The transfers booked for an operation, whichever requests asked for them.
BookedFor(o) == {k \in DOMAIN records : requests[k[2].memo].operation = o}

\* A booked transfer keeps its operation and budget held until it is settled as
\* a success (I06): what was paid is never available for another request.
BookedStaysHeld ==
    \A k \in DOMAIN records :
      LET id == k[2].memo
          o == operations[requests[id].operation] IN
      /\ o.holder = id
      /\ \/ o.state = "Reserved" /\ requests[id].epoch # None
         \/ o.state = "Consumed"

\* A verdict is true and stays true: a success names the block of the booked
\* transfer, and after a definitive failure the transfer is neither booked nor
\* on its way any more.
VerdictsAreTrue ==
    \A id \in DOMAIN requests :
      LET r == requests[id]
          cmd == [request |-> id, attempt |-> 1, created |-> r.frozen] IN
      /\ r.status = "Succeeded" =>
           Booked(cmd) /\ r.block = L!Found(Self, TransferOf(cmd))
      /\ r.status = "FailedDefinitive" =>
           ~Booked(cmd) /\ \A c \in transit : c.request # id

\* What the ledger debited under a grant is covered by what the grant has spent
\* or reserved, so the caps bound the money that really left.
DebitsAreBudgeted ==
    \A g \in DOMAIN grants :
      SumFunctionOnSet(L!Debits, {k \in DOMAIN records : requests[k[2].memo].grant = g})
        <= grants[g].total.spent + grants[g].total.reserved
-----------------------------------------------------------------------------
(* Refinement: an operation is free, held or settled as the executor says, *)
(* and paid as the ledger says.                                            *)

HoldOf(o) ==
    IF o \notin DOMAIN operations THEN "free"
    ELSE CASE operations[o].state = "Available" -> "free"
           [] operations[o].state = "Reserved" -> "held"
           [] OTHER -> "settled"

ExactlyOnce == INSTANCE ExactlyOncePayment WITH
    hold <- [o \in Operation |-> HoldOf(o)],
    paid <- [o \in Operation |-> Cardinality(BookedFor(o))]

\* Executor and ledger together implement ExactlyOncePayment.
ExactlyOnceSpec == ExactlyOnce!Spec
-----------------------------------------------------------------------------
(* Liveness.                                                               *)

\* The client keeps reconciling, and its lookups do not fail forever.
Reconciling ==
    /\ \A id \in TrackedRequest : WF_paymentVars(Reconcile(id) /\ UNCHANGED <<ledger, wires>>)
    /\ SF_paymentVars(\E cmd \in lookups : Inspect(cmd))
    /\ SF_paymentVars(\E a \in inspected : InspectionArrives(a))

\* Time passes, and a client keeps advancing its requests.
Patience ==
    /\ WF_paymentVars(Tick /\ UNCHANGED <<ledger, wires>>)
    /\ \A id \in TrackedRequest : WF_paymentVars(BeginEvaluation(id) /\ UNCHANGED <<ledger, wires>>)

SettlingSpec == PaymentSpec /\ Reconciling /\ Patience

\* A transfer that the ledger booked ends as Succeeded, whatever became of the
\* replies: timeouts, trapping callbacks and upgrades only delay it.
BookedIsSettled ==
    \A id \in TrackedRequest :
      (\E k \in DOMAIN records : k[2].memo = id) ~> Is(id, "Succeeded")
=============================================================================
