---------------------------- MODULE MCTokenClient ----------------------------
(* Two packs, uploaded in one piece; processes of one user: the request id is the same. *)
EXTENDS TokenClient, TLC

CONSTANTS packA, packB, cell1, cell2, i1, i2, r1, c1, c2, c3

MCContent == packA :> <<cell1, cell2>> @@ packB :> <<cell2, cell1>>
MCSteps == packA :> 3 @@ packB :> 2
MCChunks == {MCContent[packA], MCContent[packB]}

MCAsk == [c \in Process |-> IF c = c1 THEN i1 ELSE i2]
SameAsk == [c \in Process |-> i1]
MCName == [c \in Process |-> r1]
EveryWidth == [c \in Process |-> 1..MaxBatch]
WidestOnly == [c \in Process |-> {MaxBatch}]
=============================================================================
