------------------------------ MODULE MCStandalone -------------------------------
(***************************************************************************)
(* Components that share no state, each run alone while the others are at  *)
(* rest: the mock ledger with its callers, a session of queries with its   *)
(* engine, the makers of packs, and the triage of a proposal.              *)
(***************************************************************************)
EXTENDS MCMockLedger, QuerySession, PackFiles, ProposalTriage, TLC

CONSTANTS packA, packB, da, db, pq, pr, pa, pb, oc

VARIABLE live   \* the component that runs

MCPhases == packA :> 32 @@ packB :> 30
MCAsked ==
    [tokens : {16, 43, 90, 128}, mode : {"f32", "int8"}, steps : {Unset}] \cup
    [tokens : {16, 128}, mode : {"f32"}, steps : {1, 5, 16}]

Made(kind, out, source) == [kind |-> kind, out |-> out, source |-> source]
TwoWorks(a, b) == [t \in Process |-> IF t = pq THEN a ELSE b]
MCWorks ==
    {TwoWorks(Made("bridge", da, Nothing), Made("quantize", db, da)),
     TwoWorks(Made("bridge", da, Nothing), Made("bridge", da, Nothing)),
     TwoWorks(Made("tier", db, Nothing), Made("tier", db, Nothing)),
     TwoWorks(Made("bridge", da, Nothing), Made("tier", da, Nothing))}
MCConfigs == [hidden : {2}, layers : {1, 2}, decisionLayers : {1}, firstNorm : {FALSE}]
MCDefects == {{}, {<<"encoder.layers", 0, "wi.weight">>}}

MCFact == [old : {0, 1, 10, Absent}, new : {0, 1, 2, 10, 100, Odd, Absent}]
NoValues == [f \in Field |-> [old |-> Absent, new |-> Absent]]
MCProposals ==
    [action : {"parameters"}, payload : [Field -> MCFact] \cup {Absent}, amount : {Absent}] \cup
    [action : {"mint", "metadata", "unknown"}, payload : {Absent, NoValues}, amount : {0, 1, Odd, Absent}]
-----------------------------------------------------------------------------
\* There is something for a session and for a triage to be about.
ASSUME RestAssumption == Asked # {} /\ Proposals # {}

\* A session that is done; no process; an assessment that is over.
QueryAtRest ==
    /\ hot = Unset /\ asked = CHOOSE a \in Asked : TRUE
    /\ session = [progress |-> [done |-> TRUE, completed |-> 32, total |-> 32, bundle |-> Benchmarked,
                                by |-> {Benchmarked}],
                  cap |-> 16, bundle |-> Benchmarked, steps |-> 1]
    /\ call = [at |-> "idle", attempts |-> 0, failed |-> 0, refused |-> 17]
FilesAtRest ==
    /\ config = CHOOSE c \in Configs : TRUE
    /\ defect = {} /\ tokenizer = Nothing /\ disk = [d \in Directory |-> Nothing]
    /\ work = CHOOSE w \in Works : TRUE
    /\ maker = [t \in Process |-> [Idle EXCEPT !.at = "ended"]]
TriageAtRest ==
    /\ proposal = CHOOSE p \in Proposals : TRUE
    /\ stage = "end" /\ todo = {} /\ priority = "review" /\ reasons = {} /\ advice = NoAdvice

apartVars == <<live, callsVars, queryVars, filesVars, triageVars>>

ApartInit ==
    \/ live = "ledger" /\ CallsInit /\ QueryAtRest /\ FilesAtRest /\ TriageAtRest
    \/ live = "query" /\ QueryInit /\ CallsInit /\ FilesAtRest /\ TriageAtRest
    \/ live = "files" /\ FilesInit /\ CallsInit /\ QueryAtRest /\ TriageAtRest
    \/ live = "triage" /\ TriageInit /\ CallsInit /\ QueryAtRest /\ FilesAtRest

ApartNext ==
    /\ UNCHANGED live
    /\ \/ live = "ledger" /\ CallsNext /\ UNCHANGED <<queryVars, filesVars, triageVars>>
       \/ live = "query" /\ QueryNext /\ UNCHANGED <<callsVars, filesVars, triageVars>>
       \/ live = "files" /\ FilesNext /\ UNCHANGED <<callsVars, queryVars, triageVars>>
       \/ live = "triage" /\ TriageNext /\ UNCHANGED <<callsVars, queryVars, filesVars>>

\* The fairness of the session, which is the only one that needs any.
ApartSpec == ApartInit /\ [][ApartNext]_apartVars /\ Finishing

\* The types of the four components.
TypesOK == LedgerTypeOK /\ QueryTypeOK /\ FilesTypeOK /\ TriageTypeOK
=============================================================================
