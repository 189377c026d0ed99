---------------------------- MODULE MCMockLedger ----------------------------
(***************************************************************************)
(* The mock ledger with callers that send and repeat transfers at any      *)
(* time, dated in the past, the present or the future, while the owner     *)
(* switches faults.                                                        *)
(***************************************************************************)
EXTENDS MockLedger

CONSTANTS
    MaxTime,    \* bound: the clock stops here
    Amounts     \* bound: amounts that callers ask for

ASSUME CallsAssumption == MaxTime \in Nat /\ Amounts \subseteq Nat

VARIABLES
    time,
    last        \* the last call of icrc1_transfer and its reply

callsVars == <<ledgerVars, time, last>>

CallsInit == LedgerInit /\ time = 0 /\ last = <<>>

Passes == time < MaxTime /\ time' = time + 1 /\ UNCHANGED <<ledgerVars, last>>

Call(caller, tr) ==
    \E reply \in [kind : {"Ok", "Duplicate"}, index : 0..MaxRecords] \cup {Error, Rejected} :
        /\ icrc1_transfer(caller, tr, time, reply)
        /\ last' = [caller |-> caller, transfer |-> tr, reply |-> reply]
        /\ UNCHANGED time

CallsNext ==
    \/ Passes
    \/ \E f \in Fault : SetFault(f) /\ UNCHANGED <<time, last>>
    \/ \E caller \in Caller, memo \in Memo, amount \in Amounts, fee \in {RequiredFee, RequiredFee + 1},
          created \in 0..(MaxTime + 1) :
         Call(caller, [amount |-> amount, fee |-> fee, memo |-> memo, created |-> created])

CallsSpec == CallsInit /\ [][CallsNext]_callsVars
-----------------------------------------------------------------------------
\* What a caller is told is true when it is told: an error value means that the
\* transfer is not booked, even after the deduplication window or under a fault,
\* and an index is the block of the transfer.
RepliesAreTrue ==
    last # <<>> =>
      LET booked == Recorded(last.caller, last.transfer) IN
      /\ last.reply.kind = "Error" => ~booked
      /\ last.reply.kind \in {"Ok", "Duplicate"} =>
           booked /\ last.reply.index = records[<<last.caller, last.transfer>>]

\* The books are those that the replies tell of: each transfer once, in a block of its own, and
\* debited once.
BooksAreTrue == BlocksDistinct /\ BooksBalance /\ RepliesAreTrue
=============================================================================
