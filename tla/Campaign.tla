------------------------------ MODULE Campaign ------------------------------
(***************************************************************************)
(* The scripts of tools/ that run a list of cases on an installed engine   *)
(* and keep a report of them: validate_*.py, measure_*.py, benchmark_*.py, *)
(* check_*.py, explore_*.py and analyze_*.py.                              *)
(*                                                                         *)
(* A script names the module and the pack of the engine, computes case     *)
(* after case, saves the report and looks at the engine again at the end.  *)
(* It may die at any point, also while it writes (a report is written in   *)
(* place), and its user runs it again.  Meanwhile the owner of the engine  *)
(* may upgrade it, or load another pack.                                   *)
(***************************************************************************)
EXTENDS Integers, Sequences, SequencesExt

CONSTANTS
    Pack,
    Calibrated,     \* the pack of the corpus and of the reference results
    Module,         \* code of the engine that the owner installs
    Built,          \* that of build/decision-engine.wasm
    Cases,          \* number of cases of a script; 96 in the corpus
    Sessions,       \* inferences of one case
    Scripts,        \* scripts that are run, see Script
    None,
    Torn            \* a file that does not parse

ASSUME CampaignAssumption ==
    /\ Calibrated \in Pack /\ Built \in Module /\ None \notin Pack
    /\ Cases \in Nat \ {0} /\ Sessions \in Nat \ {0}

(***************************************************************************)
(* What the scripts differ in.                                             *)
(*   existing: what becomes of an earlier report; "bind" also compares the *)
(*             inputs.                                                     *)
(*   built:    the module must be that of the build.                       *)
(*   pack:     that of the cases, or else nothing starts ("pinned"); the   *)
(*             one that the engine names ("named"), which each inference   *)
(*             must name as well ("compared"); or that of an earlier       *)
(*             report ("recorded").                                        *)
(*   query:    cases are computed by queries, else by updates.             *)
(*   saves:    after each case, else at the end.                           *)
(*   looks:    what is looked at again at the end.                         *)
(*   counts:   the report is complete if it has all cases.                 *)
(*   marks:    it is saved once more after the last look.                  *)
(*   limited:  the user may ask for fewer cases.                           *)
(***************************************************************************)
Script ==
    [existing : {"resume", "bind", "refuse", "overwrite"}, built : BOOLEAN,
     pack : {"pinned", "named", "compared", "recorded"}, query : BOOLEAN, saves : BOOLEAN, looks : SUBSET {"module", "pack"}, counts : BOOLEAN,
     marks : BOOLEAN, limited : BOOLEAN]

OnQueries(existing, looks) ==
    [existing |-> existing, built |-> TRUE, pack |-> "pinned", query |-> TRUE, saves |-> TRUE,
     looks |-> looks, counts |-> FALSE, marks |-> TRUE, limited |-> FALSE]

OnUpdates(existing, looks) ==
    [existing |-> existing, built |-> TRUE, pack |-> "named", query |-> FALSE, saves |-> TRUE,
     looks |-> looks, counts |-> FALSE, marks |-> TRUE, limited |-> FALSE]

Both == {"module", "pack"}

validate_quantized_queries == [OnQueries("resume", Both) EXCEPT !.counts = TRUE, !.limited = TRUE]
validate_query_transport == [OnQueries("bind", Both) EXCEPT !.limited = TRUE]
benchmark_boomdao_queries == OnQueries("refuse", Both)
validate_query_tiers == [OnQueries("refuse", Both) EXCEPT !.built = FALSE]
explore_query_conditions == [OnQueries("overwrite", Both) EXCEPT !.limited = TRUE]
measure_activation_queries ==
    [OnQueries("overwrite", Both) EXCEPT !.pack = "compared", !.saves = FALSE]
measure_quantized_candidate == [OnQueries("overwrite", {"module"}) EXCEPT !.saves = FALSE]
analyze_quantized_changes ==
    [OnQueries("overwrite", {"module"}) EXCEPT !.pack = "recorded", !.counts = TRUE]
check_int8_query_guard == [OnQueries("overwrite", {}) EXCEPT !.saves = FALSE]

validate_canister_corpus == [OnUpdates("resume", {"module"}) EXCEPT !.counts = TRUE]
measure_update_limits == [OnUpdates("resume", Both) EXCEPT !.built = FALSE, !.limited = TRUE]
check_practical_laya ==
    [OnUpdates("overwrite", {"module"}) EXCEPT !.built = FALSE, !.pack = "pinned", !.marks = FALSE]
measure_int8_query_limit == OnUpdates("overwrite", {"module"})
measure_short_int8_inputs ==
    [OnUpdates("overwrite", {}) EXCEPT !.built = FALSE, !.pack = "pinned", !.saves = FALSE]
check_short_int8_query == [OnUpdates("overwrite", {"module"}) EXCEPT !.pack = "pinned", !.saves = FALSE]

EveryScript ==
    {validate_quantized_queries, validate_query_transport, benchmark_boomdao_queries,
     validate_query_tiers, explore_query_conditions, measure_activation_queries,
     measure_quantized_candidate, analyze_quantized_changes, check_int8_query_guard,
     validate_canister_corpus, measure_update_limits, check_practical_laya,
     measure_int8_query_limit, measure_short_int8_inputs, check_short_int8_query}

ASSUME ScriptAssumption == Scripts \subseteq EveryScript
-----------------------------------------------------------------------------
VARIABLES
    engine,         \* its module, the pack that it names, and the one in its memory
    script,
    wanted,         \* how many cases the user asks for
    file,           \* the report on disk; Torn if a write was cut short
    run,            \* the process, if one runs
    changes         \* of the engine by its owner, counted up to 2

campaignVars == <<engine, script, wanted, file, run, changes>>

Off == [at |-> "off", report |-> None, packs |-> {}, modules |-> {}, done |-> 0]

Saved == file \notin {None, Torn}

\* A row of a report: its case, the packs and the modules its inferences came from.
Names(rows) == {rows[i].case : i \in DOMAIN rows}

CampaignInit ==
    /\ engine \in [module : Module, active : Pack, hot : {None}]
    /\ script \in Scripts
    /\ wanted = Cases /\ file = None /\ run = Off /\ changes = 0
-----------------------------------------------------------------------------
\* The owner upgrades the engine, which empties its memory, or loads a pack.
OwnerActs ==
    /\ \/ \E m \in Module : engine' = [engine EXCEPT !.module = m, !.hot = None]
       \/ \E p \in Pack : engine' = [engine EXCEPT !.active = p, !.hot = p]
    /\ changes' = IF engine'.module = engine.module /\ engine'.active = engine.active THEN changes
                  ELSE IF changes < 2 THEN changes + 1 ELSE 2
    /\ UNCHANGED <<script, wanted, file, run>>

\* The user asks for another number of cases next time.
AsksFor(n) ==
    /\ script.limited /\ run.at = "off" /\ wanted' = n
    /\ UNCHANGED <<engine, script, file, run, changes>>

\* The engine is the one that the cases are meant for.
Suitable ==
    /\ script.built => engine.module = Built
    /\ script.pack = "pinned" => engine.active = Calibrated

NamedPack == IF script.pack = "recorded" THEN Calibrated ELSE engine.active

\* Rows of an earlier report are taken over if they were measured on the same things.
Resumable ==
    /\ Saved /\ file.module = engine.module /\ file.pack = engine.active
    /\ script.existing = "bind" => file.asked = wanted

Continues == script.existing \in {"resume", "bind"} /\ file # None

StartRun ==
    LET rows == IF Continues THEN file.rows ELSE <<>> IN
    /\ run.at = "off"
    /\ IF Suitable /\ (Continues => Resumable) /\ (script.existing = "refuse" => file = None)
       THEN /\ run' = [Off EXCEPT !.at = "cases",
                         !.report = [module |-> engine.module, pack |-> NamedPack, asked |-> wanted,
                                     rows |-> rows, complete |-> FALSE]]
       ELSE run' = [Off EXCEPT !.at = "refused"]
    /\ UNCHANGED <<engine, script, wanted, file, changes>>

\* The user is told why: another time, or another output.
TriesLater ==
    /\ run.at = "refused" /\ run' = Off
    /\ UNCHANGED <<engine, script, wanted, file, changes>>

NewOutput ==
    /\ run.at = "refused" /\ Suitable
    /\ run' = Off /\ file' = None
    /\ UNCHANGED <<engine, script, wanted, changes>>
-----------------------------------------------------------------------------
\* The cases without a row, an earlier run's rows included.
Pending == (1..run.report.asked) \ Names(run.report.rows)

NextCase == CHOOSE c \in Pending : \A other \in Pending : c <= other

\* One inference of the next case: by query, of the benchmarked pack only.
\* (Seeded fault: by whichever pack is in memory.)
Answers_AnyPack == engine.hot # None
Answers == engine.hot # None /\ (script.query => engine.hot = Calibrated)

OtherPack == script.pack = "compared" /\ engine.hot # run.report.pack

Infers ==
    /\ run.at = "cases" /\ Pending # {} /\ run.done < Sessions /\ Answers /\ ~OtherPack
    /\ run' = [run EXCEPT !.done = @ + 1, !.packs = @ \cup {engine.hot},
                          !.modules = @ \cup {engine.module}]
    /\ UNCHANGED <<engine, script, wanted, file, changes>>

WithRow ==
    [run.report EXCEPT !.rows =
        Append(@, [case |-> NextCase, packs |-> run.packs, modules |-> run.modules])]

\* The row is complete: it joins the report, which is saved if the script saves.
Records ==
    /\ run.at = "cases" /\ Pending # {} /\ run.done = Sessions
    /\ run' = [Off EXCEPT !.at = "cases", !.report = WithRow]
    /\ file' = IF script.saves THEN WithRow ELSE file
    /\ UNCHANGED <<engine, script, wanted, changes>>

\* (Seeded fault: the engine is not looked at.)
Unchanged_Unseen == TRUE
Unchanged ==
    /\ "module" \in script.looks => engine.module = run.report.module
    /\ "pack" \in script.looks => engine.active = run.report.pack

\* (Seeded fault: no report ever is complete.)
AllThere_More == script.counts => Len(run.report.rows) > Cases
AllThere == script.counts => Len(run.report.rows) = Cases

\* All cases are there: the engine is looked at again, and the report is saved for good.
Certifies ==
    /\ run.at = "cases" /\ Pending = {} /\ Unchanged
    /\ file' = IF script.marks THEN [run.report EXCEPT !.complete = AllThere] ELSE file
    /\ run' = Off
    /\ UNCHANGED <<engine, script, wanted, changes>>

\* The engine is not the one that the report names.
Refuses ==
    /\ run.at = "cases"
    /\ IF Pending = {} THEN ~Unchanged ELSE Answers /\ OtherPack
    /\ run' = Off
    /\ UNCHANGED <<engine, script, wanted, file, changes>>

\* An inference fails, or the process is killed; nothing is written.
Dies ==
    /\ run.at = "cases" /\ run' = Off
    /\ UNCHANGED <<engine, script, wanted, file, changes>>

\* (Seeded fault: a write that is cut short leaves a report without rows.)
Rest_Empty == [run.report EXCEPT !.rows = <<>>]
Rest == Torn

\* It is killed while it writes.
DiesWriting ==
    /\ run.at = "cases"
    /\ \/ Pending # {} /\ run.done = Sessions /\ script.saves
       \/ Pending = {} /\ Unchanged /\ script.marks
    /\ file' = Rest /\ run' = Off
    /\ UNCHANGED <<engine, script, wanted, changes>>

RunStep == StartRun \/ TriesLater \/ Infers \/ Records \/ Certifies \/ Refuses

CampaignNext ==
    \/ OwnerActs \/ RunStep \/ NewOutput \/ Dies \/ DiesWriting
    \/ \E n \in 1..Cases : AsksFor(n)

CampaignSpec == CampaignInit /\ [][CampaignNext]_campaignVars

\* The script is run again and again; its user picks another output at last.
Perseverance == WF_campaignVars(RunStep) /\ SF_campaignVars(NewOutput)

FairCampaignSpec == CampaignSpec /\ Perseverance
-----------------------------------------------------------------------------
\* No case is in a report twice, however often the run died and was resumed, and between
\* which writes.
NoCaseTwice ==
    Saved => \A i, j \in DOMAIN file.rows : file.rows[i].case = file.rows[j].case => i = j

\* A complete report has every case of the corpus, or, when the script says so of the inputs
\* it was given, every case of those.
CompleteMeansAll ==
    Saved /\ file.complete =>
      1..(IF script.counts THEN Cases ELSE file.asked) \subseteq Names(file.rows)

\* A report on queries names the pack that computed its rows, whatever the owner loads
\* between two of them, and also if the run dies before its last look at the engine.
RowsOfNamedPack ==
    Saved /\ script.query => \A row \in ToSet(file.rows) : row.packs \subseteq {file.pack}

\* A complete report names the module that computed its rows, and the pack if the script
\* looks at it, unless the owner changed the engine and changed it back.
NamesItsEngine ==
    Saved /\ file.complete /\ changes < 2 =>
      \A row \in ToSet(file.rows) :
        /\ "module" \in script.looks => row.modules \subseteq {file.module}
        /\ "pack" \in script.looks => row.packs \subseteq {file.pack}

\* What a complete report claims holds, of runs that died, were resumed, and met another engine.
CertifiedIsTrue == NoCaseTwice /\ CompleteMeansAll /\ NamesItsEngine

\* Measured rows are lost only by a write that is cut short, or with the whole report; they are
\* not under another module, pack or set of inputs afterwards.
RowsAreKept ==
    [][Saved /\ Saved' /\ script.existing # "overwrite" =>
         /\ IsPrefix(file.rows, file'.rows)
         /\ file'.module = file.module /\ file'.pack = file.pack
         /\ script.existing = "bind" => file'.asked = file.asked]_campaignVars

\* Once the engine stays as it should be and runs are not killed any more, a complete report
\* comes about, whatever earlier runs left on disk: "use a new output path".  (A run that is
\* killed and one that saves what was there already are the same step.)
CampaignEnds ==
    /\ <>[](/\ engine = [module |-> Built, active |-> Calibrated, hot |-> Calibrated]
           /\ wanted = Cases)
    /\ <>[][Dies \/ DiesWriting => Certifies \/ Refuses]_campaignVars
    => []<>(Saved /\ (IF script.marks THEN file.complete ELSE Names(file.rows) = 1..Cases))
=============================================================================
