----------------------------- MODULE MCExecutor -----------------------------
(***************************************************************************)
(* Small instances of Executor for TLC.  d is the delegate of every grant. *)
(***************************************************************************)
EXTENDS Executor

CONSTANTS d, l, o1, o2, g1, p

\* o2 charges 2, any other operation 3, all on ledger l.
MCProposal == [o \in Operation |-> [amount |-> IF o = o2 THEN 1 ELSE 2, fee |-> 1, ledger |-> l]]

MCGrant(total, window, len, expires) ==
    [delegate |-> d, plan |-> p, covers |-> Operation,
     totalCap |-> total, windowCap |-> window, windowLen |-> len, expires |-> expires]

\* Room for two transfers; never expires within the clock.
WideTerms == [x \in Grant |-> MCGrant(6, 6, 2, MaxTime + 1)]

\* Room for o1 and o2 together, but not in the same window of one tick.
TightTerms == [x \in Grant |-> MCGrant(5, 4, 1, MaxTime + 1)]

\* Expires at the last tick.
ShortTerms == [x \in Grant |-> MCGrant(6, 6, 2, MaxTime)]

OneSignal == [x \in Plan |-> 1]
TwoSignals == [x \in Plan |-> 2]
=============================================================================
