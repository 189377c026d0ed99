--------------------------- MODULE ProposalTriage ---------------------------
(***************************************************************************)
(* tools/sns_proposal_triage.py: the review priority of an SNS proposal,   *)
(* and the supplementary advice of a local model on each proposed field.   *)
(*                                                                         *)
(* A value is an integer, Odd (present, but no integer) or Absent.  old is   *)
(* what the text of the proposal says of a parameter: the text may lack    *)
(* it.  Fields are taken in the order of a dictionary: any.                *)
(***************************************************************************)
EXTENDS Integers

CONSTANTS
    Parameter,      \* PARAMETERS, the fields with a question of their own
    Other,          \* other fields of the payload
    Proposals,      \* proposals that are judged, see Proposal
    Review,         \* REVIEW_FACTOR
    Extreme,        \* EXTREME_FACTOR
    Absent, Odd

Field == Parameter \cup Other
Fact == [old : Nat \cup {Absent}, new : Int \cup {Odd, Absent}]

Proposal ==
    [action : {"parameters", "mint", "metadata", "unknown"}, payload : [Field -> Fact] \cup {Absent},
     amount : Int \cup {Odd, Absent}]

ASSUME TriageAssumption ==
    /\ Proposals \subseteq Proposal
    /\ Review \in Nat /\ Extreme \in Nat /\ 1 < Review /\ Review <= Extreme
    /\ Field \cap {"action", "mint"} = {}

VARIABLES
    proposal,
    stage,          \* of the program
    todo,           \* fields not looked at yet
    priority,
    reasons,        \* fields, or the action itself, that a reason was given for
    advice          \* of the model: status and coverage, and each assessment

triageVars == <<proposal, stage, todo, priority, reasons, advice>>

NoAdvice == [status |-> Absent, covered |-> FALSE, about |-> <<>>]

TriageTypeOK ==
    /\ proposal \in Proposals
    /\ stage \in {"begin", "weigh", "weighed", "assess", "end"}
    /\ todo \subseteq Field \cup {"mint"}
    /\ priority \in {"standard", "review", "critical_review"}
    /\ reasons \subseteq Field \cup {"action"}
    /\ stage = "end" /\ advice.status # Absent =>
         \A f \in DOMAIN advice.about : advice.about[f] \in {"ok", "unchanged", "unsupported", "unavailable"}

TriageInit ==
    /\ proposal \in Proposals
    /\ stage = "begin" /\ todo = {} /\ priority = "standard" /\ reasons = {} /\ advice = NoAdvice
-----------------------------------------------------------------------------
_positive_int(v) == v \notin {Absent, Odd} /\ v > 0

Old(f) == proposal.payload[f].old
New(f) == proposal.payload[f].new

Proposed == {f \in Field : New(f) # Absent}

\* The action decides what is weighed: without values a proposal is for review at once.
Classifies ==
    /\ stage = "begin"
    /\ LET payload == proposal.payload # Absent
           fields == proposal.action = "parameters" /\ payload /\ Proposed # {}
           settled == fields \/ (proposal.action = "metadata" /\ payload) IN
       /\ stage' = IF fields THEN "weigh" ELSE "weighed"
       /\ todo' = IF fields THEN Proposed ELSE {}
       /\ priority' = IF settled THEN "standard" ELSE "review"
       /\ reasons' = IF settled THEN {} ELSE {"action"}
    /\ UNCHANGED <<proposal, advice>>

\* A factor between the two values, in either direction.
\* (Seeded fault: increases only.)
ApartBy_Increase(f, factor) == New(f) >= Old(f) * factor
ApartBy(f, factor) == New(f) >= Old(f) * factor \/ Old(f) >= New(f) * factor

\* A critical priority stays.
Raised(to) == IF priority = "critical_review" THEN priority ELSE to

Weighed(f, to) == priority' = Raised(to) /\ reasons' = reasons \cup {f}
Ignored == UNCHANGED <<priority, reasons>>

Weighs(f) ==
    /\ stage = "weigh" /\ f \in todo /\ (f \in Parameter \/ todo \cap Parameter = {})
    /\ IF f \in Parameter
       THEN IF ~_positive_int(Old(f)) \/ ~_positive_int(New(f)) THEN Weighed(f, "review")
            ELSE IF ApartBy(f, Extreme) THEN Weighed(f, "critical_review")
            ELSE IF ApartBy(f, Review) THEN Weighed(f, "review")
            ELSE Ignored
       ELSE IF New(f) = Odd \/ Old(f) = Absent \/ New(f) # Old(f) THEN Weighed(f, "review")
            ELSE Ignored
    /\ todo' = todo \ {f}
    /\ stage' = IF todo' = {} THEN "weighed" ELSE "weigh"
    /\ UNCHANGED <<proposal, advice>>
-----------------------------------------------------------------------------
\* Every proposed field is evidence, also without a historical value, and a mint is one.
\* (Seeded fault: without it, there is none.)
Evidence_Known == {f \in Proposed : Old(f) # Absent}
Evidence == Proposed

_laya_contexts ==
    CASE proposal.payload = Absent -> <<>>
      [] proposal.payload # Absent /\ proposal.action = "parameters" ->
           [f \in Evidence |-> IF Old(f) = New(f) THEN "unchanged"
                               ELSE IF f \in Parameter THEN "ready" ELSE "unsupported"]
      [] proposal.payload # Absent /\ proposal.action = "mint" ->
           [f \in {"mint"} |-> IF _positive_int(proposal.amount) THEN "ready" ELSE "unavailable"]
      [] OTHER -> <<>>

Unasked == stage = "weighed" /\ stage' = "end" /\ UNCHANGED <<proposal, todo, priority, reasons, advice>>

\* --with-laya: nothing to ask about; or the tokenizer of the pack is needed, and does not load.
AsksModel ==
    LET contexts == _laya_contexts
        ready == {f \in DOMAIN contexts : contexts[f] = "ready"} IN
    /\ stage = "weighed"
    /\ \/ /\ contexts = <<>>
          /\ advice' = [NoAdvice EXCEPT !.status = "not_applicable"]
          /\ stage' = "end" /\ UNCHANGED todo
       \/ /\ ready # {}
          /\ advice' = [status |-> "unavailable", covered |-> FALSE,
                        about |-> [f \in DOMAIN contexts |->
                                     IF f \in ready THEN "unavailable" ELSE contexts[f]]]
          /\ stage' = "end" /\ UNCHANGED todo
       \/ /\ contexts # <<>>
          /\ advice' = [NoAdvice EXCEPT !.about = contexts]
          /\ stage' = "assess" /\ todo' = ready
    /\ UNCHANGED <<proposal, priority, reasons>>

\* One field: a label, or no answer (too long, no process, invalid logits).
Assesses(f, status) ==
    /\ stage = "assess" /\ f \in todo
    /\ advice' = [advice EXCEPT !.about[f] = status]
    /\ todo' = todo \ {f}
    /\ UNCHANGED <<proposal, stage, priority, reasons>>

\* The temporary files cannot be written: the assessments so far are gone.
FailsToAsk ==
    /\ stage = "assess"
    /\ advice' = [NoAdvice EXCEPT !.status = "unavailable"]
    /\ stage' = "end" /\ todo' = {}
    /\ UNCHANGED <<proposal, priority, reasons>>

\* A field without a question counts as one without an answer.
Covered(about) == \A f \in DOMAIN about : about[f] \in {"ok", "unchanged"}

Through == todo = {}

Concludes ==
    /\ stage = "assess" /\ Through
    /\ LET about == advice.about IN
       advice' = [advice EXCEPT
         !.covered = Covered(about),
         !.status = IF Covered(about) THEN "ok"
                    ELSE IF \E f \in DOMAIN about : about[f] = "ok" THEN "partial" ELSE "unavailable"]
    /\ stage' = "end"
    /\ UNCHANGED <<proposal, todo, priority, reasons>>

TriageNext ==
    \/ Classifies \/ Unasked \/ AsksModel \/ FailsToAsk \/ Concludes
    \/ \E f \in Field : Weighs(f)
    \/ \E f \in Field \cup {"mint"}, status \in {"ok", "unavailable"} : Assesses(f, status)

TriageSpec == TriageInit /\ [][TriageNext]_triageVars
-----------------------------------------------------------------------------
Unverifiable(f) ==
    IF f \in Parameter THEN ~_positive_int(Old(f)) \/ ~_positive_int(New(f))
    ELSE New(f) = Odd \/ Old(f) = Absent

\* By how much two positive values differ: the larger by the smaller.
Factor(f, n) ==
    LET high == IF Old(f) > New(f) THEN Old(f) ELSE New(f)
        low == IF Old(f) > New(f) THEN New(f) ELSE Old(f) IN
    high >= n * low

Harmless(f) ==
    ~Unverifiable(f) /\ IF f \in Parameter THEN ~Factor(f, Review) ELSE New(f) = Old(f)

Weighable == proposal.action = "parameters" /\ proposal.payload # Absent

\* Whatever the order of the fields: the priority is critical if some selected parameter
\* changes by the extreme factor, standard only if every proposed value is verified to be
\* harmless, and review otherwise.
PriorityIsDeserved ==
    stage \in {"weighed", "assess", "end"} /\ Weighable =>
      priority = IF \E f \in Proposed \cap Parameter : ~Unverifiable(f) /\ Factor(f, Extreme)
                 THEN "critical_review"
                 ELSE IF Proposed # {} /\ \A f \in Proposed : Harmless(f) THEN "standard" ELSE "review"

\* Complete coverage means that each reason of the triage was put to the model and answered,
\* or is about a value that does not change, whichever questions failed on the way.
CoverageIsReal ==
    advice.covered /\ Weighable =>
      /\ reasons \cap Field \subseteq DOMAIN advice.about
      /\ \A f \in reasons \cap Field : advice.about[f] = "ok" \/ Old(f) = New(f)
      /\ \A f \in Proposed : f \in DOMAIN advice.about
=============================================================================
