----------------------------- MODULE MockLedger -----------------------------
(***************************************************************************)
(* The mock ledger canister, canisters/mock-ledger/src/lib.rs: an ICRC-1   *)
(* transfer with deduplication and switchable faults.                      *)
(*                                                                         *)
(* icrc1_transfer decides and commits in one message.  Under the fault     *)
(* CommitThenCallbackTrap it then calls itself and traps in the callback:  *)
(* the commit stands and the caller sees a rejection.                      *)
(***************************************************************************)
EXTENDS Integers, FiniteSetsExt, Maps

CONSTANTS
    Caller,         \* principals that call icrc1_transfer
    Memo,           \* memos (request ids of the executor)
    InitialBalance, \* what every account starts with, 10^12 in the code
    RequiredFee,    \* 10 in the code
    DedupWindow,    \* MOCK_DEDUP_WINDOW_NS, 60 s in the code
    Skew,           \* how far in the future a transfer may be dated, 1 s in the code
    MaxRecords,     \* 2048 in the code
    MaxAccounts     \* 64 in the code

ASSUME LedgerAssumption ==
    /\ InitialBalance \in Nat /\ RequiredFee \in Nat /\ DedupWindow \in Nat /\ Skew \in Nat
    /\ MaxRecords \in Nat /\ MaxAccounts \in Nat

VARIABLES
    fault,      \* the fault the owner switched on
    next,       \* the next block index
    records,    \* <<caller, transfer>> -> block index
    balances    \* caller -> balance, for those that transferred before

ledgerVars == <<fault, next, records, balances>>

Fault == {"None", "BadFee", "TooOld", "CommitThenCallbackTrap"}

\* The frozen arguments that the fingerprint digests.  The accounts are left
\* out: with the memo they follow from the request.
Transfer == [amount : Nat, fee : Nat, memo : Memo, created : Nat]

\* What the caller of icrc1_transfer gets: a block index, an error value, or a
\* rejection of the call.
Ok(index) == [kind |-> "Ok", index |-> index]
Duplicate(index) == [kind |-> "Duplicate", index |-> index]
Error == [kind |-> "Error"]
Rejected == [kind |-> "Rejected"]
Reply == [kind : {"Ok", "Duplicate"}, index : Nat] \cup [kind : {"Error", "Rejected"}]

LedgerTypeOK ==
    /\ fault \in Fault /\ next \in Nat
    /\ IsMap(records, Caller \X Transfer, Nat)
    /\ IsMap(balances, Caller, Nat)

LedgerInit == fault = "None" /\ next = 0 /\ records = EmptyMap /\ balances = EmptyMap

SetFault(f) == fault' = f /\ UNCHANGED <<next, records, balances>>

Balance(caller) == IF caller \in DOMAIN balances THEN balances[caller] ELSE InitialBalance

Recorded(caller, tr) == <<caller, tr>> \in DOMAIN records

\* What the ledger declines.  (Seeded fault: it does not look at the balance.)
Refused_Unfunded(caller, tr, time) ==
    \/ fault \in {"BadFee", "TooOld"}
    \/ time - tr.created > DedupWindow \/ tr.created > time + Skew
    \/ tr.fee # RequiredFee
Refused(caller, tr, time) ==
    \/ fault \in {"BadFee", "TooOld"}
    \/ time - tr.created > DedupWindow
    \/ tr.created > time + Skew
    \/ tr.fee # RequiredFee
    \/ Cardinality(DOMAIN records) >= MaxRecords
    \/ caller \notin DOMAIN balances /\ Cardinality(DOMAIN balances) >= MaxAccounts
    \/ tr.amount + tr.fee > Balance(caller)

\* The body of a new transfer.
Commit(caller, tr) ==
    /\ next' = next + 1
    /\ records' = Put(records, <<caller, tr>>, next)
    /\ balances' = Put(balances, caller, Balance(caller) - (tr.amount + tr.fee))
    /\ UNCHANGED fault

\* Deduplication comes first: no fault and no deadline makes the ledger deny a
\* transfer it has booked.  (Seeded fault: the refusals come first.)
icrc1_transfer_RefuseFirst(caller, tr, time, reply) ==
    \/ Refused(caller, tr, time) /\ reply = Error /\ UNCHANGED ledgerVars
    \/ /\ ~Refused(caller, tr, time) /\ Recorded(caller, tr)
       /\ reply = Duplicate(records[<<caller, tr>>]) /\ UNCHANGED ledgerVars
    \/ /\ ~Refused(caller, tr, time) /\ ~Recorded(caller, tr)
       /\ reply = (IF fault = "CommitThenCallbackTrap" THEN Rejected ELSE Ok(next))
       /\ Commit(caller, tr)
icrc1_transfer(caller, tr, time, reply) ==
    \/ /\ Recorded(caller, tr)
       /\ reply = Duplicate(records[<<caller, tr>>]) /\ UNCHANGED ledgerVars
    \/ /\ ~Recorded(caller, tr) /\ Refused(caller, tr, time)
       /\ reply = Error /\ UNCHANGED ledgerVars
    \/ /\ ~Recorded(caller, tr) /\ ~Refused(caller, tr, time)
       /\ reply = (IF fault = "CommitThenCallbackTrap" THEN Rejected ELSE Ok(next))
       /\ Commit(caller, tr)

\* ic_laya_lookup: the block of a booked transfer.
Found(caller, tr) == records[<<caller, tr>>]
-----------------------------------------------------------------------------
\* Every transfer has a block of its own, and the blocks are numbered without gaps.
BlocksDistinct ==
    /\ \A k, m \in DOMAIN records : records[k] = records[m] => k = m
    /\ \A k \in DOMAIN records : records[k] < next
    /\ Cardinality(DOMAIN records) = next

Debits == [k \in DOMAIN records |-> k[2].amount + k[2].fee]

\* An account is debited for its booked transfers, once each, however often they
\* are asked for.
BooksBalance ==
    \A caller \in DOMAIN balances :
      balances[caller] + SumFunctionOnSet(Debits, {k \in DOMAIN records : k[1] = caller})
        = InitialBalance
=============================================================================
