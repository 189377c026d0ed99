------------------------- MODULE ExactlyOncePayment -------------------------
(***************************************************************************)
(* What the executor and its ledger promise together, for each business    *)
(* operation: it is held before it is paid, paid at most once, released    *)
(* only while unpaid and settled only once paid.                           *)
(***************************************************************************)
EXTENDS Naturals

CONSTANT Operation

VARIABLES
    hold,   \* free, held by a request, or settled
    paid    \* how many transfers the ledger has booked for the operation

Init == hold = [o \in Operation |-> "free"] /\ paid = [o \in Operation |-> 0]

Hold(o) == hold[o] = "free" /\ hold' = [hold EXCEPT ![o] = "held"] /\ UNCHANGED paid

Pay(o) ==
    /\ hold[o] = "held" /\ paid[o] = 0
    /\ paid' = [paid EXCEPT ![o] = 1] /\ UNCHANGED hold

Release(o) ==
    /\ hold[o] = "held" /\ paid[o] = 0
    /\ hold' = [hold EXCEPT ![o] = "free"] /\ UNCHANGED paid

Settle(o) ==
    /\ hold[o] = "held" /\ paid[o] = 1
    /\ hold' = [hold EXCEPT ![o] = "settled"] /\ UNCHANGED paid

Next == \E o \in Operation : Hold(o) \/ Pay(o) \/ Release(o) \/ Settle(o)

Spec == Init /\ [][Next]_<<hold, paid>>
=============================================================================
