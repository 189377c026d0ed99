----------------------------- MODULE MCHarness ------------------------------
(* Pairs of tools that run at once, or one after the other. *)
EXTENDS Harness, TLC

CONSTANTS packA, packB, cell1, cell2, cell3, idM, idI, ex, s1, kA, kB, kF, t1, t2

MCContent == packA :> <<cell1, cell3>> @@ packB :> <<cell2, cell3>>
MCQtype == packA :> 0 @@ packB :> 0
MCKey == [schema |-> s1, tokenizer |-> cell3]
FixtureKey == [schema |-> s1, tokenizer |-> FixtureCell]
CalibratedFor(p, key) == [model |-> p, key |-> key, expires |-> 2]
MCCalibrated ==
    kA :> CalibratedFor(packA, MCKey) @@ kB :> CalibratedFor(packB, MCKey) @@
    kF :> CalibratedFor(Synthetic, FixtureKey)

Ask(id, key, p, k) ==
    [id |-> id, key |-> key, model |-> p, calibration |-> k, state |-> "x", expires |-> 1]
Uses == {"measure", "phases", "probe"}
MCQuestion == [u \in Uses \X Pack |->
                 Ask(u, MCKey, u[2], IF u[2] = packA THEN kA ELSE kB)]
MCSignal == [u \in (1..2) \X (1..2) |-> Ask(<<"signal", u>>, FixtureKey, Synthetic, kF)]
MCRequest == {MCQuestion[u] : u \in DOMAIN MCQuestion} \cup {MCSignal[u] : u \in DOMAIN MCSignal}
MCIds == (Uses \X Pack) \cup ({"signal"} \X ((1..2) \X (1..2)))

Tool(kind, identity, packs) ==
    [kind |-> kind, identity |-> identity, packs |-> packs, route |-> "plain", keep |-> FALSE,
     keepState |-> FALSE, skipUpgrade |-> FALSE, initialize |-> FALSE, portFits |-> TRUE, after |-> None]
Measure == Tool("measure", idM, <<packA, packB>>)
Phases == Tool("phases", idM, <<packB>>)
Integrate == Tool("integrate", idM, <<>>)
InferB == [Tool("infer", idI, <<packB>>) EXCEPT !.initialize = TRUE]
InferA == Tool("infer", idI, <<packA>>)
InferAny == Tool("infer", idI, <<>>)
Queries == [Tool("infer", idM, <<>>) EXCEPT !.route = "query"]
InBudget == [Tool("infer", idM, <<>>) EXCEPT !.route = "budget"]
WrongPort == [Integrate EXCEPT !.portFits = FALSE]
Keeping == [Integrate EXCEPT !.keep = TRUE]
KeptState == [Integrate EXCEPT !.keepState = TRUE, !.after = t1]
Again == [Integrate EXCEPT !.after = t1, !.skipUpgrade = TRUE]
Stranger == [Integrate EXCEPT !.identity = idI]

Pair(a, b) == t1 :> a @@ t2 :> b
MCAssignment ==
    {Pair(Measure, Phases), Pair(Phases, Integrate), Pair(Phases, InferB), Pair(InferB, InferAny),
     Pair(InferB, InferA), Pair(Measure, Queries), Pair([Measure EXCEPT !.packs = <<packB, packA>>], InBudget),
     Pair(Phases, WrongPort), Pair(Keeping, KeptState), Pair(Keeping, Again), Pair(Integrate, Stranger)}

\* No two runs of the whole workflow at once with one identity.
ASSUME AloneAssumption == IntegrationsAlone
=============================================================================
