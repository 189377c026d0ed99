-------------------------- MODULE MCDecisionEngine --------------------------
(* Two packs, of two tensors and of one, with one tokenizer and different *)
(* qtypes; two ids, both used for several requests.                         *)
EXTENDS DecisionEngine, TLC

CONSTANTS packA, packB, cell1, cell2, cell3, c1, e1, e2, s1, k1

MCContent == packA :> <<cell1, cell2, cell3>> @@ packB :> <<cell2, cell3>>
MCChunks == UNION {[1..n -> Cell] : n \in 1..2}
MCQtype == packA :> 0 @@ packB :> 1
MCKey == [schema |-> s1, tokenizer |-> cell3]
MCCalibrated == k1 :> [model |-> packA, key |-> MCKey, expires |-> 2]

Ask(id, p, k, state) ==
    [id |-> id, key |-> MCKey, model |-> p, calibration |-> k, state |-> state, expires |-> 2]
FixtureKey == [schema |-> s1, tokenizer |-> FixtureCell]
MCRequest ==
    {[Ask(e2, Synthetic, None, "x") EXCEPT !.key = FixtureKey],
     Ask(e1, packA, k1, "x"), [Ask(e2, packA, k1, "x") EXCEPT !.expires = 3], Ask(e1, packA, None, "y"), Ask(e2, packB, None, "x")}
=============================================================================
