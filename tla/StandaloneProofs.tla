-------------------------- MODULE StandaloneProofs --------------------------
(***************************************************************************)
(* Theorems about the components that share no state with others: a        *)
(* session of queries, the mock ledger, the triage of a proposal, the      *)
(* makers of packs and the validation campaigns.                           *)
(***************************************************************************)
EXTENDS MCStandalone, Campaign, FiniteProofs

-----------------------------------------------------------------------------
(***************************************************************************)
(* Query sessions.                                                         *)
(***************************************************************************)

\* The engine answers with the calibrated pack only, so that what the session holds is always
\* a continuation of that pack; a call is under way only while there is something left to do.
HoldsCalibrated ==
    /\ ~beginning =>
         /\ session.progress.bundle = Benchmarked /\ session.progress.by = {Benchmarked}
         /\ session.progress.total = 32 /\ session.bundle = Benchmarked
         /\ session.progress.completed \in 0..32
         /\ session.progress.done <=> session.progress.completed = 32
         /\ direct => session.progress.done
    /\ beginning => session.bundle = Unset
    /\ call.at = "calling" => ~complete
    /\ call.at # "invalid"

\* The cap of an automatic session, and the width of any other, is below what was refused.
BelowRefused ==
    /\ ~auto => session.steps < call.refused
    /\ auto => session.cap < call.refused
    /\ call.at = "calling" /\ fusedBegin => session.steps <= session.cap

\* From a width w, at most four halvings are left.
HalvingsTo(w) == CASE w >= 16 -> 0 [] w \in 8..15 -> 1 [] w \in 4..7 -> 2 [] w \in 2..3 -> 3 [] OTHER -> 4
FailuresCounted == call.failed <= call.attempts + HalvingsTo(session.steps)

SessionInv == QueryTypeOK /\ HoldsCalibrated /\ BelowRefused /\ FailuresCounted
-----------------------------------------------------------------------------
\* AutoWidth (query_transport.py:108) asks for at least one phase and for no more than the cap.
LEMMA WidthFits ==
    ASSUME NEW tokens \in 1..128, NEW mode, NEW completed \in 0..31, NEW cap \in 1..16
    PROVE  AutoWidth(tokens, mode, completed, cap) \in 1..cap
<1>1. Tier(tokens, mode) \in 3..16
  BY DEF Tier
<1>. HIDE DEF Tier
<1> QED
  BY <1>1 DEF AutoWidth, Least

\* A begun session holds no "Unset".
LEMMA ComputedIsContinuation ==
    ASSUME QueryTypeOK, HoldsCalibrated, hot = Benchmarked, call.at = "calling"
    PROVE  /\ Computed \in Continuation /\ Computed # Unset
           /\ Computed.bundle = Benchmarked /\ Computed.by = {Benchmarked} /\ Computed.total = 32
           /\ Computed.completed \in 0..32 /\ (Computed.done <=> Computed.completed = 32)
           /\ Computed.completed = Least((IF beginning THEN 0 ELSE session.progress.completed) + Width, 32)
<1>1. Width \in 0..32
  BY DEF Width, QueryTypeOK
<1>. HIDE DEF Width
<1>. DEFINE from == IF beginning THEN 0 ELSE session.progress.completed
            completed == Least(from + Width, 32)
<1>2. from \in 0..32
  BY DEF HoldsCalibrated
<1>3. completed \in 0..32
  BY <1>1, <1>2 DEF Least
<1>4. Phases[hot] = 32
  BY SessionAssumption
<1>5. CASE beginning
  <2>1. Computed = [done |-> completed = 32, completed |-> completed, total |-> 32, bundle |-> hot,
                    by |-> {} \cup {hot}]
    BY <1>4, <1>5 DEF Computed
  <2>2. {} \cup {hot} = {Benchmarked}
    OBVIOUS
  <2>. HIDE DEF completed
  <2>3. Computed \in Continuation
    BY <1>3, <2>1, <2>2, SessionAssumption DEF Continuation
  <2> QED
    BY <1>3, <2>1, <2>2, <2>3, SessionAssumption DEF completed
<1>6. CASE ~beginning
  <2>1. Computed = [done |-> completed = 32, completed |-> completed, total |-> 32, bundle |-> hot,
                    by |-> session.progress.by \cup {hot}]
    BY <1>4, <1>6 DEF Computed
  <2>2. session.progress.by \cup {hot} = {Benchmarked}
    BY <1>6 DEF HoldsCalibrated
  <2>. HIDE DEF completed
  <2>3. Computed \in Continuation
    BY <1>3, <2>1, <2>2, SessionAssumption DEF Continuation
  <2> QED
    BY <1>3, <2>1, <2>2, <2>3, SessionAssumption DEF completed
<1> QED
  BY <1>5, <1>6
-----------------------------------------------------------------------------
\* A new session has sent nothing and its widths are those of its options.
LEMMA InitInv == QueryInit => SessionInv
  BY SessionAssumption
  DEF QueryInit, SessionInv, QueryTypeOK, HoldsCalibrated, BelowRefused, FailuresCounted, HalvingsTo,
      beginning, complete, auto, fusedBegin, direct

\* Starting to advance chooses method and width of a call that has not been sent.
LEMMA StartInv == SessionInv /\ StartAdvance => SessionInv'
<1> SUFFICES ASSUME SessionInv, StartAdvance PROVE SessionInv'
  OBVIOUS
<1>. USE SessionAssumption
<1>1. asked' = asked /\ hot' = hot /\ session'.progress = session.progress /\ session'.cap = session.cap
      /\ session'.bundle = session.bundle
  BY DEF StartAdvance, SessionInv, QueryTypeOK, fusedBegin
<1>2. call'.at = "calling" /\ call'.attempts = 0 /\ call'.failed = 0 /\ call'.refused = call.refused
  BY DEF StartAdvance, SessionInv, QueryTypeOK
<1>3. session'.steps \in 1..16 /\ (fusedBegin => session'.steps <= session.cap)
      /\ (~fusedBegin => session' = session)
  <2>1. CASE fusedBegin
    <3> DEFINE c == IF beginning THEN 0 ELSE session.progress.completed
    <3>1. c \in 0..31
      BY DEF StartAdvance, SessionInv, HoldsCalibrated, complete, beginning
    <3>2. asked.tokens \in 1..128 /\ session.cap \in 1..16
      BY DEF SessionInv, QueryTypeOK
    <3>3. AutoWidth(asked.tokens, asked.mode, c, session.cap) \in 1..session.cap
      BY <3>1, <3>2, WidthFits
    <3>4. session'.steps = AutoWidth(asked.tokens, asked.mode, c, session.cap)
      BY <2>1 DEF StartAdvance, SessionInv, QueryTypeOK
    <3> QED
      BY <2>1, <3>2, <3>3, <3>4
  <2>2. CASE ~fusedBegin
    BY <2>2 DEF StartAdvance, SessionInv, QueryTypeOK
  <2> QED
    BY <2>1, <2>2
<1>4. QueryTypeOK'
  <2>1. session' \in [progress : Continuation \cup {Unset}, cap : 1..16, bundle : Bundle \cup {Unset}, steps : 1..16]
    BY <1>3 DEF StartAdvance, SessionInv, QueryTypeOK
  <2>2. call' \in [at : {"idle", "calling", "raised", "invalid"}, attempts : 0..Retries, failed : Nat, refused : 2..17]
    <3>1. Retries \in Nat
      OBVIOUS
    <3>2. call \in [at : {"idle", "calling", "raised", "invalid"}, attempts : 0..Retries, failed : Nat, refused : 2..17]
      BY DEF SessionInv, QueryTypeOK
    <3>3. call' = [call EXCEPT !.at = "calling", !.attempts = 0, !.failed = 0]
      BY DEF StartAdvance
    <3>4. call' = [at |-> "calling", attempts |-> 0, failed |-> 0, refused |-> call.refused]
      BY <3>2, <3>3
    <3>5. 0 \in 0..Retries /\ call.refused \in 2..17
      BY <3>1, <3>2
    <3> QED
      BY <3>4, <3>5
  <2> QED
    BY <1>1, <2>1, <2>2 DEF SessionInv, QueryTypeOK, beginning
<1>5. HoldsCalibrated'
  BY <1>1, <1>2 DEF StartAdvance, SessionInv, HoldsCalibrated, beginning, complete, direct, auto
<1>6. BelowRefused'
  BY <1>1, <1>2, <1>3 DEF SessionInv, QueryTypeOK, BelowRefused, fusedBegin, direct, auto
<1>7. FailuresCounted'
  BY <1>2, <1>3 DEF FailuresCounted, HalvingsTo
<1> QED
  BY <1>4, <1>5, <1>6, <1>7 DEF SessionInv

\* A failed attempt is a halving, a retry or the end of the session, and is counted as one.
LEMMA FailsInv == SessionInv /\ (\E e \in Errors : CallFails(e)) => SessionInv'
<1> SUFFICES ASSUME SessionInv, NEW e \in Errors, CallFails(e) PROVE SessionInv'
  OBVIOUS
<1>. USE SessionAssumption
<1>1. asked' = asked /\ hot' = hot /\ call.at = "calling"
  BY DEF CallFails
<1>2. /\ session.steps \in 1..16 /\ session.cap \in 1..16 /\ call.refused \in 2..17
      /\ call.attempts \in 0..Retries /\ call.failed \in Nat /\ Retries \in Nat
  BY DEF SessionInv, QueryTypeOK
<1>3. CASE Halves(e) /\ session' = Halved
           /\ call' = [call EXCEPT !.failed = @ + 1, !.refused = Least(@, session.steps)]
  <2>1. /\ session.steps > 1 /\ (~beginning \/ fusedBegin)
    BY <1>3 DEF Halves
  <2>2. session' = [session EXCEPT !.steps = session.steps \div 2,
                                   !.cap = IF auto THEN Least(session.cap, session.steps \div 2)
                                           ELSE session.cap]
    BY <1>3 DEF Halved, SessionInv, QueryTypeOK
  <2>3. /\ session'.progress = session.progress /\ session'.bundle = session.bundle
        /\ session'.steps = session.steps \div 2
        /\ session'.cap = IF auto THEN Least(session.cap, session.steps \div 2) ELSE session.cap
    BY <2>2 DEF SessionInv, QueryTypeOK
  <2>4. /\ call'.at = "calling" /\ call'.attempts = call.attempts /\ call'.failed = call.failed + 1
        /\ call'.refused = Least(call.refused, session.steps)
        /\ call' = [at |-> "calling", attempts |-> call.attempts, failed |-> call.failed + 1,
                    refused |-> Least(call.refused, session.steps)]
    BY <1>1, <1>3 DEF SessionInv, QueryTypeOK
  <2>5. session.steps \div 2 \in 1..16 /\ session.steps \div 2 < session.steps
    BY <1>2, <2>1
  <2>6. QueryTypeOK'
    <3>1. session'.cap \in 1..16 /\ call'.refused \in 2..17
      BY <1>2, <2>1, <2>3, <2>4, <2>5 DEF Least
    <3>2. session' \in [progress : Continuation \cup {Unset}, cap : 1..16, bundle : Bundle \cup {Unset}, steps : 1..16]
      BY <2>2, <2>3, <2>5, <3>1 DEF SessionInv, QueryTypeOK
    <3>3. call' \in [at : {"idle", "calling", "raised", "invalid"}, attempts : 0..Retries, failed : Nat, refused : 2..17]
      BY <1>2, <2>4, <3>1
    <3> QED
      BY <1>1, <2>3, <3>2, <3>3 DEF SessionInv, QueryTypeOK, beginning
  <2>7. HoldsCalibrated'
    BY <1>1, <2>3, <2>4 DEF SessionInv, HoldsCalibrated, beginning, complete, direct, auto
  <2>8. BelowRefused'
    <3>1. CASE auto
      <4>1. ~direct
        BY <1>1, <2>1 DEF SessionInv, HoldsCalibrated, complete, beginning, fusedBegin
      <4>2. session.steps <= session.cap
        BY <1>1, <3>1, <4>1 DEF SessionInv, BelowRefused, fusedBegin
      <4>3. session'.cap = session.steps \div 2 /\ session'.cap < call'.refused
        BY <1>2, <2>3, <2>4, <2>5, <3>1, <4>2 DEF Least, SessionInv, BelowRefused
      <4> QED
        BY <1>1, <2>3, <2>5, <3>1, <4>3 DEF BelowRefused, auto, fusedBegin, direct
    <3>2. CASE ~auto
      BY <1>1, <1>2, <2>3, <2>4, <2>5, <3>2 DEF Least, SessionInv, BelowRefused, auto, fusedBegin, direct
    <3> QED
      BY <3>1, <3>2
  <2>9. FailuresCounted'
    <3>1. HalvingsTo(session.steps \div 2) >= HalvingsTo(session.steps) + 1
      BY <1>2, <2>1 DEF HalvingsTo
    <3>2. HalvingsTo(session.steps) \in Nat /\ HalvingsTo(session.steps \div 2) \in Nat
      BY DEF HalvingsTo
    <3> QED
      BY <1>2, <2>3, <2>4, <3>1, <3>2 DEF SessionInv, FailuresCounted
  <2> QED
    BY <2>6, <2>7, <2>8, <2>9 DEF SessionInv
<1>4. CASE ~Halves(e) /\ Retried(e) /\ UNCHANGED session
  <2>1. /\ call' = [at |-> "calling", attempts |-> call.attempts + 1, failed |-> call.failed + 1,
                     refused |-> call.refused]
        /\ call.attempts < Retries
    BY <1>1, <1>4 DEF Retried, SessionInv, QueryTypeOK
  <2>2. QueryTypeOK'
    BY <1>1, <1>2, <1>4, <2>1 DEF SessionInv, QueryTypeOK, beginning
  <2>3. HoldsCalibrated' /\ BelowRefused'
    BY <1>1, <1>4, <2>1
    DEF SessionInv, HoldsCalibrated, BelowRefused, beginning, complete, direct, auto, fusedBegin
  <2>4. FailuresCounted'
    <3>1. HalvingsTo(session.steps) \in Nat
      BY DEF HalvingsTo
    <3> QED
      BY <1>2, <1>4, <2>1, <3>1 DEF SessionInv, FailuresCounted
  <2> QED
    BY <2>2, <2>3, <2>4 DEF SessionInv
<1>5. CASE call' = [call EXCEPT !.at = "raised"] /\ UNCHANGED session
  <2>1. call' = [at |-> "raised", attempts |-> call.attempts, failed |-> call.failed,
                 refused |-> call.refused]
    BY <1>5 DEF SessionInv, QueryTypeOK
  <2>2. QueryTypeOK'
    BY <1>1, <1>2, <1>5, <2>1 DEF SessionInv, QueryTypeOK, beginning
  <2> QED
    BY <1>1, <1>5, <2>1, <2>2
    DEF SessionInv, HoldsCalibrated, BelowRefused, FailuresCounted, beginning, complete, direct, auto,
        fusedBegin
<1> QED
  BY <1>3, <1>4, <1>5 DEF CallFails

\* A reply is taken whole, with a continuation of the pack of the query before, or ends the session.
LEMMA AnsweredInv == SessionInv /\ CallAnswered => SessionInv'
<1> SUFFICES ASSUME SessionInv, CallAnswered PROVE SessionInv'
  OBVIOUS
<1>1. /\ asked' = asked /\ hot' = hot /\ call.at = "calling" /\ hot = Benchmarked
      /\ ~complete /\ QueryTypeOK /\ HoldsCalibrated
  BY DEF CallAnswered, Serves, SessionInv, HoldsCalibrated
<1>2. /\ Computed \in Continuation /\ Computed # Unset
      /\ Computed.bundle = Benchmarked /\ Computed.by = {Benchmarked} /\ Computed.total = 32
      /\ Computed.completed \in 0..32 /\ (Computed.done <=> Computed.completed = 32)
      /\ Computed.completed = Least((IF beginning THEN 0 ELSE session.progress.completed) + Width, 32)
  BY <1>1, ComputedIsContinuation
<1>a. Computed.done \in BOOLEAN
  BY <1>2 DEF Continuation
<1>. HIDE DEF Computed
<1>3. session.steps \in 1..16 /\ asked \in [tokens : 1..128, mode : {"f32", "int8"}, steps : 1..16 \cup {Unset}]
  BY SessionAssumption DEF SessionInv, QueryTypeOK
<1>4. Expected(Computed)
  <2>1. CASE direct
    <3>1. beginning
      BY <1>1, <2>1 DEF HoldsCalibrated, complete, beginning
    <3> QED
      BY <1>2, <1>a, <2>1, <3>1 DEF Expected, Width, Least
  <2>2. CASE ~direct /\ beginning
    BY <1>2, <1>3, <1>a, <2>2 DEF Expected, Width, Least
  <2>3. CASE ~direct /\ ~beginning
    BY <1>1, <1>2, <1>3, <1>a, <2>3 DEF Expected, Width, Least, HoldsCalibrated
  <2> QED
    BY <2>1, <2>2, <2>3
<1>5. SameModel(Computed)
  BY <1>1, <1>2 DEF SameModel, HoldsCalibrated, SessionInv, BelowRefused
<1>6. session' = Taken(Computed) /\ call' = [call EXCEPT !.at = "idle"]
  BY <1>2, <1>4, <1>5 DEF CallAnswered
<1>7. call' = [at |-> "idle", attempts |-> call.attempts, failed |-> call.failed, refused |-> call.refused]
  BY <1>1, <1>6 DEF QueryTypeOK
<1>8. /\ session'.progress = Computed /\ session'.steps = session.steps /\ session'.cap = session.cap
      /\ session'.bundle = IF direct THEN Benchmarked ELSE IF Computed.done THEN session.bundle ELSE Benchmarked
      /\ session' = [session EXCEPT !.progress = Computed, !.bundle = session'.bundle]
  BY <1>1, <1>2, <1>6 DEF Taken, QueryTypeOK
<1>9. session'.bundle = Benchmarked
  \* A batch of at most 16 phases does not end a session that it begins.
  <2>1. CASE direct \/ ~Computed.done
    BY <1>8, <2>1
  <2>2. CASE ~direct /\ Computed.done /\ ~beginning
    BY <1>1, <1>8, <2>2 DEF HoldsCalibrated
  <2>3. CASE ~direct /\ Computed.done /\ beginning
    BY <1>2, <1>3, <2>3 DEF Width, Least
  <2> QED
    BY <2>1, <2>2, <2>3
<1>10. QueryTypeOK'
  <2>1. session' \in [progress : Continuation \cup {Unset}, cap : 1..16, bundle : Bundle \cup {Unset}, steps : 1..16]
    BY <1>1, <1>2, <1>8, <1>9, SessionAssumption DEF QueryTypeOK
  <2>2. beginning' \/ session'.progress.completed \in 0..session'.progress.total
    BY <1>2, <1>8
  <2> QED
    BY <1>1, <1>7, <2>1, <2>2 DEF QueryTypeOK
<1>11. HoldsCalibrated'
  <2>1. ~beginning'
    BY <1>2, <1>8 DEF beginning
  <2>2. direct => Computed.done
    <3>1. CASE direct
      <4>1. beginning
        BY <1>1, <3>1 DEF HoldsCalibrated, complete, beginning
      <4> QED
        BY <1>2, <3>1, <4>1 DEF Width, Least
    <3> QED
      BY <3>1
  <2> QED
    BY <1>1, <1>2, <1>7, <1>8, <1>9, <2>1, <2>2 DEF HoldsCalibrated, direct, auto
<1>12. BelowRefused' /\ FailuresCounted'
  BY <1>1, <1>7, <1>8 DEF SessionInv, BelowRefused, FailuresCounted, auto, fusedBegin, direct
<1> QED
  BY <1>10, <1>11, <1>12 DEF SessionInv

\* Loading another pack leaves the session as it is.
LEMMA OwnerInv == SessionInv /\ ModelChanges => SessionInv'
  BY DEF ModelChanges, SessionInv, QueryTypeOK, HoldsCalibrated, BelowRefused, FailuresCounted, beginning,
     complete, auto, direct, fusedBegin

\* So does a stuttering step.
LEMMA StutterInv == SessionInv /\ UNCHANGED queryVars => SessionInv'
  BY DEF queryVars, SessionInv, QueryTypeOK, HoldsCalibrated, BelowRefused, FailuresCounted, beginning,
     complete, auto, direct, fusedBegin

\* The invariant holds throughout.
LEMMA SessionInvHolds == QuerySpec => []SessionInv
<1>1. SessionInv /\ [QueryNext]_queryVars => SessionInv'
  BY StartInv, FailsInv, AnsweredInv, OwnerInv, StutterInv DEF QueryNext, SessionStep
<1> QED
  BY <1>1, InitInv, PTL DEF QuerySpec
-----------------------------------------------------------------------------
\* The variables of a session keep their types, and its steps and cap stay in 1..16.
THEOREM SessionTypeCorrect == QuerySpec => []QueryTypeOK
  BY SessionInvHolds, PTL DEF SessionInv

\* A session that is done names the one pack that computed it, and no reply of the engine
\* fails its checks, whatever the owner loads between two queries.
THEOREM AnswersOfOnePackHold == QuerySpec => []AnswersOfOnePack
<1>1. SessionInv => AnswersOfOnePack
  BY DEF SessionInv, HoldsCalibrated, AnswersOfOnePack, OnePackComputes, RepliesAreValid, complete, beginning
<1> QED
  BY <1>1, SessionInvHolds, PTL

\* A refused width is not sent again, also by later calls of advance().
THEOREM RefusedStay == QuerySpec => []RefusedWidthsStayRefused
<1>1. SessionInv => RefusedWidthsStayRefused
  BY DEF SessionInv, QueryTypeOK, BelowRefused, RefusedWidthsStayRefused, fusedBegin, direct
<1> QED
  BY <1>1, SessionInvHolds, PTL

\* advance() sends a failing call at most once for each retry and four halvings.
THEOREM TriesBounded == QuerySpec => []TriesAreBounded
<1>1. SessionInv => TriesAreBounded
  <2>1. HalvingsTo(session.steps) \in 0..4
    BY DEF HalvingsTo
  <2> QED
    BY <2>1, SessionAssumption DEF SessionInv, QueryTypeOK, FailuresCounted, TriesAreBounded
<1> QED
  BY <1>1, SessionInvHolds, PTL

\* No answer, lost, repeated or refused, moves a session back or to another pack.
THEOREM OnlyForwardHolds == QuerySpec => OnlyForward
<1> DEFINE Forward ==
      session'.progress # session.progress =>
         \/ beginning
         \/ /\ session'.progress # Unset
            /\ session'.progress.completed > session.progress.completed
            /\ session'.progress.bundle = session.progress.bundle
<1>1. SessionInv /\ [QueryNext]_queryVars => Forward
  <2> SUFFICES ASSUME SessionInv, [QueryNext]_queryVars, ~beginning,
                      session'.progress # session.progress
               PROVE  Forward
    OBVIOUS
  <2>1. CallAnswered
    BY DEF QueryNext, SessionStep, StartAdvance, CallFails, Halved, ModelChanges, queryVars, SessionInv,
           QueryTypeOK
  <2>2. /\ call.at = "calling" /\ hot = Benchmarked /\ ~complete /\ QueryTypeOK /\ HoldsCalibrated
        /\ session'.progress = Computed
    BY <2>1 DEF CallAnswered, Taken, Serves, SessionInv, QueryTypeOK, HoldsCalibrated
  <2>3. /\ Computed # Unset /\ Computed.bundle = Benchmarked
        /\ Computed.completed = Least(session.progress.completed + Width, 32)
    BY <2>2, ComputedIsContinuation
  <2>. HIDE DEF Computed
  <2>4. ~direct /\ session.progress.completed \in 0..31 /\ session.progress.bundle = Benchmarked
    BY <2>2 DEF HoldsCalibrated, complete, beginning
  <2>5. Width \in 1..16
    BY <2>4 DEF Width, SessionInv, QueryTypeOK
  <2> QED
    BY <2>2, <2>3, <2>4, <2>5 DEF Least
<1>2. SessionInv /\ [QueryNext]_queryVars => [Forward]_queryVars
  BY <1>1
<1> QED
  BY <1>2, SessionInvHolds, PTL DEF QuerySpec, OnlyForward

-----------------------------------------------------------------------------
(***************************************************************************)
(* The mock ledger with callers that may send anything: the books and the  *)
(* replies.                                                                *)
(***************************************************************************)

\* The booked transfers of one caller.
Of(caller) == {k \in DOMAIN records : k[1] = caller}

\* The books as they are between two messages: every booked transfer is that of an account.
LedgerInv ==
    /\ LedgerTypeOK /\ IsFiniteSet(DOMAIN records)
    /\ BlocksDistinct /\ BooksBalance
    /\ \A k \in DOMAIN records : k[1] \in DOMAIN balances

\* What is debited for a booked transfer is a number.
LEMMA DebitsType ==
    ASSUME LedgerInv
    PROVE  \A k \in DOMAIN records : k \in Caller \X Transfer /\ Debits[k] = k[2].amount + k[2].fee
                                     /\ Debits[k] \in Nat
  BY DEF LedgerInv, LedgerTypeOK, IsMap, Debits, Transfer

\* A transfer is booked in the next block and debited once.
LEMMA CommitKeeps ==
    ASSUME LedgerInv, NEW caller \in Caller, NEW tr \in Transfer,
           ~Recorded(caller, tr), tr.amount + tr.fee <= Balance(caller), Commit(caller, tr)
    PROVE  LedgerInv' /\ Recorded(caller, tr)' /\ records'[<<caller, tr>>] = next
  <1> DEFINE new == <<caller, tr>>
             all == DOMAIN records
  <1>1. /\ next' = next + 1 /\ fault' = fault
        /\ records' = [k \in all \cup {new} |-> IF k = new THEN next ELSE records[k]]
        /\ balances' = [c \in DOMAIN balances \cup {caller} |->
                          IF c = caller THEN Balance(caller) - (tr.amount + tr.fee) ELSE balances[c]]
    BY DEF Commit, Put
  <1>2. /\ next \in Nat /\ fault \in Fault /\ records \in [all -> Nat] /\ all \subseteq Caller \X Transfer
        /\ DOMAIN balances \subseteq Caller /\ balances \in [DOMAIN balances -> Nat]
        /\ IsFiniteSet(all)
    BY DEF LedgerInv, LedgerTypeOK, IsMap
  <1>3. new \notin all /\ new \in Caller \X Transfer /\ new[1] = caller /\ new[2] = tr
    BY DEF Recorded
  <1>4. Balance(caller) \in Nat /\ Balance(caller) - (tr.amount + tr.fee) \in Nat
        /\ tr.amount + tr.fee \in Nat
    <2>1. tr.amount \in Nat /\ tr.fee \in Nat  BY DEF Transfer
    <2>2. Balance(caller) \in Nat  BY <1>2, LedgerAssumption DEF Balance
    <2> QED  BY <2>1, <2>2
  <1>5. LedgerTypeOK'
    BY <1>1, <1>2, <1>3, <1>4 DEF LedgerTypeOK, IsMap
  <1>6. IsFiniteSet(DOMAIN records') /\ Cardinality(DOMAIN records') = Cardinality(all) + 1
    BY <1>1, <1>2, <1>3, FS_AddElement
  <1>7. BlocksDistinct'
    <2>1. /\ \A k, m \in all : records[k] = records[m] => k = m
          /\ \A k \in all : records[k] < next
          /\ Cardinality(all) = next
      BY DEF LedgerInv, BlocksDistinct
    <2>2. \A k \in all : records'[k] = records[k] /\ records[k] \in Nat
      BY <1>1, <1>2, <1>3
    <2>3. records'[new] = next /\ DOMAIN records' = all \cup {new}
      BY <1>1
    <2>4. \A k \in DOMAIN records' : records'[k] < next'
      BY <1>1, <1>2, <2>1, <2>2, <2>3
    <2>5. \A k, m \in DOMAIN records' : records'[k] = records'[m] => k = m
      BY <1>2, <2>1, <2>2, <2>3
    <2> QED  BY <1>1, <1>6, <2>1, <2>4, <2>5 DEF BlocksDistinct
  <1>8. \A k \in DOMAIN records' : k[1] \in DOMAIN balances'
    BY <1>1, <1>3 DEF LedgerInv
  <1>9. BooksBalance'
    <2>1. \A k \in all : k \in DOMAIN Debits' /\ Debits'[k] = Debits[k] /\ Debits[k] \in Nat
      BY <1>1, DebitsType DEF Debits
    <2>2. Debits'[new] = tr.amount + tr.fee
      BY <1>1, <1>3 DEF Debits
    <2> SUFFICES ASSUME NEW c \in DOMAIN balances'
                 PROVE  balances'[c] + SumFunctionOnSet(Debits', Of(c)') = InitialBalance
      BY DEF BooksBalance, Of
    <2>3. IsFiniteSet(Of(c))
      BY <1>2, FS_Subset DEF Of
    <2>4. Of(c) \subseteq all
      BY DEF Of
    <2>5. SumFunctionOnSet(Debits', Of(c)) = SumFunctionOnSet(Debits, Of(c))
          /\ SumFunctionOnSet(Debits, Of(c)) \in Nat
      BY <2>1, <2>3, <2>4, SumSame, SumType
    <2>6. c \in DOMAIN balances => balances[c] + SumFunctionOnSet(Debits, Of(c)) = InitialBalance
      BY DEF LedgerInv, BooksBalance, Of
    <2>7. CASE c = caller
      <3>1. Of(c)' = Of(c) \cup {new} /\ new \notin Of(c)
        BY <1>1, <1>3, <2>7 DEF Of
      <3>2. SumFunctionOnSet(Debits', Of(c)') = Debits'[new] + SumFunctionOnSet(Debits', Of(c))
        BY <1>4, <2>1, <2>2, <2>3, <2>4, <3>1, SumInsert
      <3>3. Balance(c) + SumFunctionOnSet(Debits, Of(c)) = InitialBalance
        <4>1. CASE c \notin DOMAIN balances
          <5>1. Of(c) = {}  BY <4>1 DEF Of, LedgerInv
          <5> QED  BY <4>1, <5>1, SumEmpty, LedgerAssumption DEF Balance
        <4> QED  BY <2>6, <4>1 DEF Balance
      <3>4. balances'[c] = Balance(c) - (tr.amount + tr.fee)
        BY <1>1, <2>7
      <3> HIDE DEF new
      <3> QED  BY <1>4, <2>2, <2>5, <2>7, <3>2, <3>3, <3>4
    <2>8. CASE c # caller
      <3>1. Of(c)' = Of(c) /\ c \in DOMAIN balances /\ balances'[c] = balances[c]
        BY <1>1, <1>3, <2>8 DEF Of
      <3> QED  BY <2>5, <2>6, <3>1
    <2> QED  BY <2>7, <2>8
  <1> QED  BY <1>1, <1>5, <1>6, <1>7, <1>8, <1>9 DEF LedgerInv, Recorded

\* The invariant speaks of these variables only.
LEMMA LedgerStutter == LedgerInv /\ UNCHANGED ledgerVars => LedgerInv'
  BY DEF LedgerInv, ledgerVars, LedgerTypeOK, BlocksDistinct, BooksBalance, Debits

CallsInv == LedgerInv /\ RepliesAreTrue

\* A call is answered with what the books say after it.
LEMMA CallKeeps ==
    ASSUME CallsInv, NEW caller \in Caller, NEW tr \in Transfer, Call(caller, tr)
    PROVE  CallsInv'
  <1>1. PICK reply \in [kind : {"Ok", "Duplicate"}, index : 0..MaxRecords] \cup {Error, Rejected} :
          /\ icrc1_transfer(caller, tr, time, reply)
          /\ last' = [caller |-> caller, transfer |-> tr, reply |-> reply]
    BY DEF Call
  <1>2. ASSUME LedgerInv',
               reply.kind = "Error" => ~Recorded(caller, tr)',
               reply.kind \in {"Ok", "Duplicate"} =>
                 Recorded(caller, tr)' /\ reply.index = records'[<<caller, tr>>]
        PROVE  CallsInv'
    BY <1>1, <1>2 DEF CallsInv, RepliesAreTrue, Recorded
  <1>3. CASE Recorded(caller, tr) /\ reply = Duplicate(records[<<caller, tr>>]) /\ UNCHANGED ledgerVars
    <2>1. LedgerInv'  BY <1>3, LedgerStutter DEF CallsInv
    <2> QED  BY <1>2, <1>3, <2>1 DEF ledgerVars, Recorded, Duplicate
  <1>4. CASE ~Recorded(caller, tr) /\ reply = Error /\ UNCHANGED ledgerVars
    <2>1. LedgerInv'  BY <1>4, LedgerStutter DEF CallsInv
    <2> QED  BY <1>2, <1>4, <2>1 DEF ledgerVars, Recorded, Error
  <1>5. CASE /\ ~Recorded(caller, tr) /\ ~Refused(caller, tr, time)
             /\ reply = (IF fault = "CommitThenCallbackTrap" THEN Rejected ELSE Ok(next))
             /\ Commit(caller, tr)
    <2>1. tr.amount + tr.fee <= Balance(caller)
      <3>1. Balance(caller) \in Nat /\ tr.amount \in Nat /\ tr.fee \in Nat
        BY LedgerAssumption DEF CallsInv, LedgerInv, LedgerTypeOK, IsMap, Balance, Transfer
      <3> QED  BY <1>5, <3>1 DEF Refused
    <2>2. LedgerInv' /\ Recorded(caller, tr)' /\ records'[<<caller, tr>>] = next
      BY <1>5, <2>1, CommitKeeps DEF CallsInv
    <2> QED  BY <1>2, <1>5, <2>2 DEF Rejected, Ok
  <1> QED  BY <1>1, <1>3, <1>4, <1>5 DEF icrc1_transfer

\* The books of a new ledger are empty.
LEMMA CallsInitHolds == CallsInit => CallsInv
  <1> SUFFICES ASSUME CallsInit PROVE CallsInv
    OBVIOUS
  <1>1. records = EmptyMap /\ balances = EmptyMap /\ next = 0 /\ fault = "None" /\ last = <<>>
    BY DEF CallsInit, LedgerInit
  <1>2. DOMAIN records = {} /\ DOMAIN balances = {}
    BY <1>1 DEF EmptyMap
  <1>3. IsFiniteSet(DOMAIN records) /\ Cardinality(DOMAIN records) = 0
    BY <1>2, FS_EmptySet
  <1>4. LedgerTypeOK
    BY <1>1 DEF LedgerTypeOK, IsMap, EmptyMap, Fault
  <1> QED  BY <1>1, <1>2, <1>3, <1>4 DEF CallsInv, LedgerInv, BlocksDistinct, BooksBalance, RepliesAreTrue

\* Whatever callers send and the owner switches, the books stay as they should be.
LEMMA CallsStepHolds == CallsInv /\ [CallsNext]_callsVars => CallsInv'
  <1> SUFFICES ASSUME CallsInv, [CallsNext]_callsVars PROVE CallsInv'
    OBVIOUS
  <1>1. ASSUME UNCHANGED <<ledgerVars, last>> PROVE CallsInv'
    BY <1>1, LedgerStutter DEF CallsInv, RepliesAreTrue, ledgerVars, Recorded
  <1>2. CASE Passes  BY <1>1, <1>2 DEF Passes
  <1>3. CASE UNCHANGED callsVars  BY <1>1, <1>3 DEF callsVars
  <1>4. ASSUME NEW f \in Fault, SetFault(f), UNCHANGED <<time, last>> PROVE CallsInv'
    BY <1>4 DEF SetFault, CallsInv, LedgerInv, LedgerTypeOK, BlocksDistinct, BooksBalance, Debits,
                RepliesAreTrue, Recorded
  <1>5. ASSUME NEW caller \in Caller, NEW memo \in Memo, NEW amount \in Amounts,
               NEW fee \in {RequiredFee, RequiredFee + 1}, NEW created \in 0..(MaxTime + 1),
               Call(caller, [amount |-> amount, fee |-> fee, memo |-> memo, created |-> created])
        PROVE  CallsInv'
    <2>1. [amount |-> amount, fee |-> fee, memo |-> memo, created |-> created] \in Transfer
      <3>1. amount \in Nat /\ fee \in Nat /\ created \in Nat
        BY LedgerAssumption, CallsAssumption
      <3> QED  BY <3>1 DEF Transfer
    <2> QED  BY <1>5, <2>1, CallKeeps
  <1> QED  BY <1>2, <1>3, <1>4, <1>5 DEF CallsNext

\* Each transfer is booked once, in a block of its own, blocks are numbered without gaps, an
\* account is debited for its booked transfers and nothing else, and a caller that hears of an
\* error or of a block hears the truth (mock-ledger/src/lib.rs, icrc1_transfer).
THEOREM BooksTrue == CallsSpec => []BooksAreTrue
  <1>1. CallsInv => BooksAreTrue  BY DEF CallsInv, LedgerInv, BooksAreTrue
  <1> QED  BY <1>1, CallsInitHolds, CallsStepHolds, PTL DEF CallsSpec

-----------------------------------------------------------------------------
(***************************************************************************)
(* Proposal triage: what the parts of an assessment add up to.             *)
(***************************************************************************)

\* Two positive values are apart by a factor exactly if the larger is that many times the smaller.
LEMMA ApartIsFactor ==
    ASSUME NEW a \in Nat, NEW b \in Nat, a > 0, b > 0, NEW n \in Nat, n > 1
    PROVE  (b >= a * n \/ a >= b * n) <=>
             (IF a > b THEN a ELSE b) >= n * (IF a > b THEN b ELSE a)
  <1>1. ASSUME NEW x \in Nat, x > 0 PROVE x * n = n * x /\ x * n > x
    <2>1. x * n = n * x  OBVIOUS
    <2>2. n = (n - 2) + 2 /\ n - 2 \in Nat  OBVIOUS
    <2>3. x * ((n - 2) + 2) = x * (n - 2) + x * 2  OBVIOUS
    <2>4. x * (n - 2) \in Nat  BY <2>2
    <2>5. x * n = x * (n - 2) + x * 2  BY <2>2, <2>3
    <2> QED  BY <1>1, <2>1, <2>4, <2>5
  <1>2. a * n > a /\ a * n = n * a /\ b * n > b /\ b * n = n * b
        /\ a * n \in Nat /\ b * n \in Nat
    BY <1>1
  <1>3. CASE a > b  BY <1>2, <1>3
  <1>4. CASE ~(a > b)  BY <1>2, <1>4
  <1> QED  BY <1>3, <1>4

\* A factor includes the smaller ones.
LEMMA FactorMonotone ==
    ASSUME NEW x \in Nat, NEW y \in Nat, NEW m \in Nat, NEW n \in Nat, m <= n, y >= n * x
    PROVE  y >= m * x
  <1>1. n = m + (n - m) /\ n - m \in Nat  OBVIOUS
  <1>2. (m + (n - m)) * x = m * x + (n - m) * x  OBVIOUS
  <1>3. (n - m) * x \in Nat /\ m * x \in Nat /\ n * x \in Nat  BY <1>1
  <1> QED  BY <1>1, <1>2, <1>3
-----------------------------------------------------------------------------
Extremes(f) == f \in Parameter /\ ~Unverifiable(f) /\ Factor(f, Extreme)

\* The priority after the fields of W.
Deserved(W) ==
    IF \E f \in W : Extremes(f) THEN "critical_review"
    ELSE IF \A f \in W : Harmless(f) THEN "standard" ELSE "review"

WeighInv ==
    /\ stage = "weigh" =>
         /\ Weighable /\ Proposed # {} /\ todo # {} /\ todo \subseteq Proposed
         /\ priority = Deserved(Proposed \ todo) /\ reasons \subseteq Proposed
    /\ stage \in {"weighed", "assess", "end"} /\ Weighable =>
         /\ priority = IF Proposed = {} THEN "review" ELSE Deserved(Proposed)
         /\ reasons \subseteq Proposed \cup {"action"}

Statuses == {"ok", "unchanged", "unsupported", "unavailable"}

\* What is said of each piece of evidence: an answer, or what was known of it at first.
About(contexts, about) ==
    /\ about = [f \in DOMAIN contexts |-> about[f]]
    /\ \A f \in DOMAIN contexts :
         about[f] \in Statuses \cup {"ready"} /\ (about[f] = "unchanged" => contexts[f] = "unchanged")

AdviceInv ==
    /\ advice = [status |-> advice.status, covered |-> advice.covered, about |-> advice.about]
    /\ stage \in {"begin", "weigh", "weighed"} => advice = NoAdvice
    /\ stage = "assess" =>
         /\ ~advice.covered /\ About(_laya_contexts, advice.about) /\ todo \subseteq DOMAIN _laya_contexts
         /\ \A f \in DOMAIN _laya_contexts : advice.about[f] = "ready" => f \in todo
    /\ stage = "end" =>
         /\ advice.covered => About(_laya_contexts, advice.about) /\ Covered(advice.about)
         /\ \A f \in DOMAIN advice.about : advice.about[f] \in Statuses

TriageInv ==
    /\ proposal \in Proposals /\ stage \in {"begin", "weigh", "weighed", "assess", "end"}
    /\ todo \subseteq Field \cup {"mint"} /\ priority \in {"standard", "review", "critical_review"}
    /\ reasons \subseteq Field \cup {"action"}
    /\ WeighInv /\ AdviceInv

\* What is known of a proposed value.
LEMMA FactTypes ==
    ASSUME proposal \in Proposals, proposal.payload # Absent, NEW f \in Field
    PROVE  Old(f) \in Nat \cup {Absent} /\ New(f) \in Int \cup {Odd, Absent}
  <1>1. proposal.payload \in [Field -> Fact]
    BY TriageAssumption DEF Proposal
  <1> QED  BY <1>1 DEF Old, New, Fact

\* The factors of the program are those of the definition, and the extreme one is the larger.
LEMMA ApartHolds ==
    ASSUME proposal \in Proposals, proposal.payload # Absent, NEW f \in Parameter, ~Unverifiable(f)
    PROVE  /\ ApartBy(f, Extreme) <=> Factor(f, Extreme)
           /\ ApartBy(f, Review) <=> Factor(f, Review)
           /\ Factor(f, Extreme) => Factor(f, Review)
  <1>1. /\ Old(f) \in Nat /\ New(f) \in Nat /\ Old(f) > 0 /\ New(f) > 0
    BY FactTypes DEF Unverifiable, _positive_int, Field
  <1>2. Review \in Nat /\ Extreme \in Nat /\ Review > 1 /\ Extreme > 1 /\ Review <= Extreme
    BY TriageAssumption
  <1>3. ApartBy(f, Extreme) <=> Factor(f, Extreme)
    BY <1>1, <1>2, ApartIsFactor DEF ApartBy, Factor
  <1>4. ApartBy(f, Review) <=> Factor(f, Review)
    BY <1>1, <1>2, ApartIsFactor DEF ApartBy, Factor
  <1>5. Factor(f, Extreme) => Factor(f, Review)
    <2> DEFINE high == IF Old(f) > New(f) THEN Old(f) ELSE New(f)
               low == IF Old(f) > New(f) THEN New(f) ELSE Old(f)
    <2>1. high \in Nat /\ low \in Nat  BY <1>1
    <2> HIDE DEF high, low
    <2>2. high >= Extreme * low => high >= Review * low
      BY <1>2, <2>1, FactorMonotone
    <2> QED  BY <2>2 DEF Factor, high, low
  <1> QED  BY <1>3, <1>4, <1>5
-----------------------------------------------------------------------------
\* One more field raises the priority to what it deserves then.
LEMMA WeighsKeeps ==
    ASSUME TriageInv, NEW f \in Field, Weighs(f)
    PROVE  TriageInv'
  <1> DEFINE W == Proposed \ todo
  <1>1. /\ stage = "weigh" /\ f \in todo /\ todo' = todo \ {f}
        /\ stage' = IF todo' = {} THEN "weighed" ELSE "weigh"
        /\ UNCHANGED <<proposal, advice>>
    BY DEF Weighs
  <1>2. /\ Weighable /\ Proposed # {} /\ todo \subseteq Proposed /\ priority = Deserved(W)
        /\ reasons \subseteq Proposed /\ proposal.payload # Absent
    BY <1>1 DEF TriageInv, WeighInv, Weighable
  <1>3. /\ Weighable' = Weighable /\ Proposed' = Proposed /\ (Proposed \ todo)' = W \cup {f}
        /\ \A g \in Field : Harmless(g)' = Harmless(g) /\ Extremes(g)' = Extremes(g)
    BY <1>1, <1>2 DEF Weighable, Proposed, Harmless, Extremes, Unverifiable, Factor, Old, New
  <1>4. W \subseteq Field /\ Proposed \subseteq Field  BY DEF Proposed
  <1>5. \/ priority' = (IF Extremes(f) \/ priority = "critical_review" THEN "critical_review" ELSE "review")
           /\ reasons' = reasons \cup {f} /\ ~Harmless(f)
        \/ UNCHANGED <<priority, reasons>> /\ Harmless(f) /\ ~Extremes(f)
    <2>1. CASE f \in Parameter
      <3>1. CASE Unverifiable(f)
        BY <2>1, <3>1 DEF Weighs, Weighed, Raised, Unverifiable, Harmless, Extremes
      <3>2. CASE ~Unverifiable(f)
        <4>1. /\ ApartBy(f, Extreme) <=> Factor(f, Extreme)
              /\ ApartBy(f, Review) <=> Factor(f, Review)
              /\ Factor(f, Extreme) => Factor(f, Review)
          BY <1>2, <2>1, <3>2, ApartHolds DEF TriageInv
        <4>2. _positive_int(Old(f)) /\ _positive_int(New(f))
          BY <2>1, <3>2 DEF Unverifiable
        <4>3. Extremes(f) <=> Factor(f, Extreme)
          BY <2>1, <3>2 DEF Extremes
        <4>4. Harmless(f) <=> ~Factor(f, Review)
          BY <2>1, <3>2 DEF Harmless
        <4> QED  BY <2>1, <4>1, <4>2, <4>3, <4>4 DEF Weighs, Weighed, Ignored, Raised
      <3> QED  BY <3>1, <3>2
    <2>2. CASE f \notin Parameter
      BY <2>2 DEF Weighs, Weighed, Ignored, Raised, Unverifiable, Harmless, Extremes
    <2> QED  BY <2>1, <2>2
  <1>6. priority' = Deserved(W \cup {f})
    BY <1>2, <1>5 DEF Deserved
  <1>7. Deserved(W \cup {f})' = Deserved(W \cup {f})
    BY <1>1, <1>3, <1>4 DEF Deserved
  <1>8. reasons' \subseteq Proposed /\ priority' \in {"standard", "review", "critical_review"}
    BY <1>1, <1>2, <1>5 DEF TriageInv
  <1>9. WeighInv'
    <2>1. Deserved(Proposed \ todo)' = Deserved(W \cup {f})
      BY <1>3, <1>4, <1>1 DEF Deserved
    <2>2. todo' = {} => Deserved(Proposed)' = Deserved(W \cup {f})
      BY <1>1, <1>2, <1>3, <1>4 DEF Deserved
    <2> QED  BY <1>1, <1>2, <1>3, <1>6, <1>8, <2>1, <2>2 DEF WeighInv
  <1>10. AdviceInv'
    BY <1>1 DEF TriageInv, AdviceInv
  <1> QED  BY <1>1, <1>4, <1>8, <1>9, <1>10 DEF TriageInv

\* Without values to weigh a proposal is for review.
LEMMA ClassifiesKeeps ==
    ASSUME TriageInv, Classifies
    PROVE  TriageInv'
  <1>1. /\ stage = "begin" /\ UNCHANGED <<proposal, advice>>
        /\ stage' \in {"weigh", "weighed"} /\ todo' \subseteq Field
        /\ priority' \in {"standard", "review"} /\ reasons' \in {{}, {"action"}}
    BY DEF Classifies, Proposed
  <1>2. UNCHANGED <<Weighable, Proposed>>
    BY <1>1 DEF Weighable, Proposed, New
  <1>3. WeighInv'
    <2>1. CASE Weighable /\ Proposed # {}
      <3>1. stage' = "weigh" /\ todo' = Proposed /\ priority' = "standard" /\ reasons' = {}
        BY <2>1 DEF Classifies, Weighable
      <3>2. Deserved({})' = "standard"
        BY DEF Deserved
      <3> QED  BY <1>2, <2>1, <3>1, <3>2 DEF WeighInv
    <2>2. CASE Weighable /\ Proposed = {}
      <3>1. stage' = "weighed" /\ priority' = "review" /\ reasons' = {"action"}
        BY <2>2 DEF Classifies, Weighable
      <3> QED  BY <1>2, <2>2, <3>1 DEF WeighInv
    <2>3. CASE ~Weighable
      <3>1. stage' = "weighed"  BY <2>3 DEF Classifies, Weighable
      <3> QED  BY <1>2, <2>3, <3>1 DEF WeighInv
    <2> QED  BY <2>1, <2>2, <2>3
  <1>4. AdviceInv'
    BY <1>1 DEF TriageInv, AdviceInv
  <1> QED  BY <1>1, <1>3, <1>4 DEF TriageInv

\* From here on the priority stands.
LEMMA PriorityStands ==
    ASSUME TriageInv, UNCHANGED <<proposal, priority, reasons>>,
           stage \in {"weighed", "assess", "end"}, stage' \in {"weighed", "assess", "end"}
    PROVE  WeighInv' /\ UNCHANGED <<Weighable, Proposed, _laya_contexts>>
  <1>1. UNCHANGED <<Weighable, Proposed, _laya_contexts>>
    BY DEF Weighable, Proposed, _laya_contexts, Evidence, Old, New, _positive_int
  <1>2. Deserved(Proposed)' = Deserved(Proposed)
    BY <1>1 DEF Deserved, Proposed, Extremes, Harmless, Unverifiable, Factor, Old, New
  <1> QED  BY <1>1, <1>2 DEF TriageInv, WeighInv

\* What the model is asked about.
LEMMA ContextsTypes ==
    ASSUME TriageInv
    PROVE  /\ _laya_contexts = [f \in DOMAIN _laya_contexts |-> _laya_contexts[f]]
           /\ DOMAIN _laya_contexts \subseteq Field \cup {"mint"}
           /\ \A f \in DOMAIN _laya_contexts : _laya_contexts[f] \in Statuses \cup {"ready"}
           /\ Weighable => DOMAIN _laya_contexts = Proposed
           /\ Weighable => \A f \in DOMAIN _laya_contexts :
                             _laya_contexts[f] = "unchanged" => Old(f) = New(f)
  <1>1. proposal.action \in {"parameters", "mint", "metadata", "unknown"}
    BY TriageAssumption DEF TriageInv, Proposal
  <1>2. CASE proposal.payload = Absent
    <2>1. _laya_contexts = <<>>  BY <1>2 DEF _laya_contexts
    <2> QED  BY <1>2, <2>1 DEF Weighable
  <1>3. CASE proposal.payload # Absent /\ proposal.action = "parameters"
    <2>1. _laya_contexts = [f \in Evidence |-> IF Old(f) = New(f) THEN "unchanged"
                               ELSE IF f \in Parameter THEN "ready" ELSE "unsupported"]
      BY <1>3 DEF _laya_contexts
    <2> QED  BY <2>1 DEF Evidence, Proposed, Statuses
  <1>4. CASE proposal.payload # Absent /\ proposal.action = "mint"
    <2>1. _laya_contexts = [f \in {"mint"} |-> IF _positive_int(proposal.amount) THEN "ready" ELSE "unavailable"]
      BY <1>4 DEF _laya_contexts
    <2> QED  BY <1>4, <2>1 DEF Weighable, Statuses
  <1>5. CASE proposal.payload # Absent /\ proposal.action \notin {"parameters", "mint"}
    <2>1. _laya_contexts = <<>>  BY <1>5 DEF _laya_contexts
    <2> QED  BY <1>5, <2>1 DEF Weighable
  <1> QED  BY <1>2, <1>3, <1>4, <1>5

\* An assessment may end with nothing said.
LEMMA NothingSaid ==
    ASSUME NEW status, advice' = [status |-> status, covered |-> FALSE, about |-> <<>>], stage' = "end"
    PROVE  AdviceInv'
  <1>1. \A f \in DOMAIN <<>> : FALSE
    OBVIOUS
  <1>2. /\ advice'.about = <<>> /\ ~advice'.covered
        /\ advice' = [status |-> advice'.status, covered |-> advice'.covered, about |-> advice'.about]
    OBVIOUS
  <1>3. \A f \in DOMAIN advice'.about : FALSE
    BY <1>1, <1>2, Zenon
  <1> QED  BY <1>2, <1>3 DEF AdviceInv

\* The model is asked about the evidence that is ready, and nothing else is left open.
LEMMA AsksModelKeeps ==
    ASSUME TriageInv, AsksModel
    PROVE  TriageInv'
  <1> DEFINE contexts == _laya_contexts
             ready == {f \in DOMAIN contexts : contexts[f] = "ready"}
  <1>1. stage = "weighed" /\ UNCHANGED <<proposal, priority, reasons>> /\ stage' \in {"assess", "end"}
    BY DEF AsksModel
  <1>2. WeighInv' /\ contexts' = contexts
    BY <1>1, PriorityStands
  <1>3. /\ contexts = [f \in DOMAIN contexts |-> contexts[f]] /\ ready \subseteq Field \cup {"mint"}
        /\ \A f \in DOMAIN contexts : contexts[f] \in Statuses \cup {"ready"}
    BY ContextsTypes
  <1> HIDE DEF contexts
  <1>4. AdviceInv' /\ todo' \subseteq Field \cup {"mint"}
    <2>1. CASE advice' = [NoAdvice EXCEPT !.status = "not_applicable"] /\ stage' = "end" /\ UNCHANGED todo
      <3>1. advice' = [status |-> "not_applicable", covered |-> FALSE, about |-> <<>>]
        BY <2>1 DEF NoAdvice
      <3> QED  BY <2>1, <3>1, NothingSaid DEF TriageInv
    <2>2. CASE /\ advice' = [status |-> "unavailable", covered |-> FALSE,
                             about |-> [f \in DOMAIN contexts |->
                                          IF f \in ready THEN "unavailable" ELSE contexts[f]]]
               /\ stage' = "end" /\ UNCHANGED todo
      BY <1>3, <2>2 DEF AdviceInv, TriageInv, Statuses
    <2>3. CASE /\ advice' = [NoAdvice EXCEPT !.about = contexts]
               /\ stage' = "assess" /\ todo' = ready
      <3>1. advice' = [status |-> Absent, covered |-> FALSE, about |-> contexts]
        BY <2>3 DEF NoAdvice
      <3>2. About(contexts, contexts)
        BY <1>3 DEF About
      <3>3. /\ advice'.about = contexts /\ ~advice'.covered
            /\ advice' = [status |-> advice'.status, covered |-> advice'.covered, about |-> advice'.about]
        BY <3>1
      <3>4. advice'.about = contexts' /\ stage' = "assess"
        BY <1>2, <2>3, <3>3
      <3>5. About(contexts, advice.about)'
        BY <1>2, <3>2, <3>4 DEF About
      <3>6. todo' \subseteq DOMAIN contexts' /\ \A f \in DOMAIN contexts' : contexts'[f] = "ready" => f \in todo'
        BY <1>2, <2>3
      <3> QED  BY <1>3, <2>3, <3>4, <3>5, <3>6, <3>3 DEF AdviceInv, contexts
    <2> QED  BY <2>1, <2>2, <2>3 DEF AsksModel, contexts
  <1> QED  BY <1>1, <1>2, <1>4 DEF TriageInv

\* A label, or no answer, in place of what was open.
LEMMA AssessesKeeps ==
    ASSUME TriageInv, NEW f \in Field \cup {"mint"}, NEW status \in {"ok", "unavailable"},
           Assesses(f, status)
    PROVE  TriageInv'
  <1> DEFINE contexts == _laya_contexts
  <1>1. /\ stage = "assess" /\ f \in todo /\ todo' = todo \ {f}
        /\ UNCHANGED <<proposal, stage, priority, reasons>>
        /\ advice' = [advice EXCEPT !.about = [advice.about EXCEPT ![f] = status]]
    BY DEF Assesses
  <1>2. WeighInv' /\ contexts' = contexts
    BY <1>1, PriorityStands
  <1>3. /\ advice = [status |-> advice.status, covered |-> advice.covered, about |-> advice.about]
        /\ ~advice.covered /\ About(contexts, advice.about) /\ todo \subseteq DOMAIN contexts
        /\ \A g \in DOMAIN contexts : advice.about[g] = "ready" => g \in todo
    BY <1>1 DEF TriageInv, AdviceInv
  <1> HIDE DEF contexts
  <1>4. /\ advice' = [status |-> advice.status, covered |-> advice.covered, about |-> advice'.about]
        /\ advice'.about = [advice.about EXCEPT ![f] = status]
    BY <1>1, <1>3
  <1>5. advice'.about = [g \in DOMAIN contexts |-> IF g = f THEN status ELSE advice.about[g]]
    BY <1>1, <1>3, <1>4 DEF About
  <1>6. About(contexts, advice'.about)
    BY <1>3, <1>5 DEF About, Statuses
  <1>7. AdviceInv'
    BY <1>1, <1>2, <1>3, <1>4, <1>5, <1>6 DEF AdviceInv, contexts
  <1> QED  BY <1>1, <1>2, <1>7 DEF TriageInv

\* What is left over is concluded from the answers.
LEMMA ConcludesKeeps ==
    ASSUME TriageInv, Concludes
    PROVE  TriageInv'
  <1> DEFINE contexts == _laya_contexts
  <1>1. stage = "assess" /\ stage' = "end" /\ todo = {} /\ UNCHANGED <<proposal, todo, priority, reasons>>
    BY DEF Concludes, Through
  <1>2. WeighInv' /\ contexts' = contexts
    BY <1>1, PriorityStands
  <1>3. /\ advice = [status |-> advice.status, covered |-> advice.covered, about |-> advice.about]
        /\ About(contexts, advice.about)
        /\ \A g \in DOMAIN contexts : advice.about[g] # "ready"
    BY <1>1 DEF TriageInv, AdviceInv
  <1>4. /\ advice' = [status |-> advice'.status, covered |-> advice'.covered, about |-> advice'.about]
        /\ advice'.about = advice.about /\ advice'.covered = Covered(advice.about)
    BY <1>3 DEF Concludes
  <1> HIDE DEF contexts
  <1>5. AdviceInv'
    BY <1>1, <1>2, <1>3, <1>4 DEF AdviceInv, About, Statuses, Covered, contexts
  <1> QED  BY <1>1, <1>2, <1>5 DEF TriageInv

\* Every step keeps the invariant.
LEMMA TriageStepHolds == TriageInv /\ [TriageNext]_triageVars => TriageInv'
  <1> SUFFICES ASSUME TriageInv, [TriageNext]_triageVars PROVE TriageInv'
    OBVIOUS
  <1>1. CASE Unasked
    <2>1. stage = "weighed" /\ stage' = "end" /\ UNCHANGED <<proposal, todo, priority, reasons, advice>>
      BY <1>1 DEF Unasked
    <2>2. WeighInv'  BY <2>1, PriorityStands
    <2>3. advice = [status |-> Absent, covered |-> FALSE, about |-> <<>>]
      BY <2>1 DEF TriageInv, AdviceInv, NoAdvice
    <2>4. AdviceInv'  BY <2>1, <2>3, NothingSaid
    <2> QED  BY <2>1, <2>2, <2>4 DEF TriageInv
  <1>2. CASE FailsToAsk
    <2>1. /\ stage = "assess" /\ stage' = "end" /\ todo' = {} /\ UNCHANGED <<proposal, priority, reasons>>
          /\ advice' = [status |-> "unavailable", covered |-> FALSE, about |-> <<>>]
      BY <1>2 DEF FailsToAsk, NoAdvice
    <2>2. WeighInv'  BY <2>1, PriorityStands
    <2>3. AdviceInv'  BY <2>1, NothingSaid
    <2> QED  BY <2>1, <2>2, <2>3 DEF TriageInv
  <1>3. CASE UNCHANGED triageVars
    <2>1. UNCHANGED <<proposal, stage, todo, priority, reasons, advice>>
      BY <1>3 DEF triageVars
    <2>2. UNCHANGED <<Weighable, Proposed, _laya_contexts>>
      BY <2>1 DEF Weighable, Proposed, _laya_contexts, Evidence, Old, New, _positive_int
    <2>3. AdviceInv'
      BY <2>1, <2>2 DEF TriageInv, AdviceInv, About, Covered
    <2>4. UNCHANGED <<Deserved(Proposed \ todo), Deserved(Proposed)>>
      BY <2>1, <2>2 DEF Deserved, Proposed, Extremes, Harmless, Unverifiable, Factor, Old, New
    <2>5. WeighInv'
      BY <2>1, <2>2, <2>4 DEF TriageInv, WeighInv
    <2> QED  BY <2>1, <2>3, <2>5 DEF TriageInv
  <1> QED  BY <1>1, <1>2, <1>3, ClassifiesKeeps, AsksModelKeeps, ConcludesKeeps, WeighsKeeps, AssessesKeeps
           DEF TriageNext

\* Nothing is judged at first.
LEMMA TriageInitially == TriageInit => TriageInv
  BY DEF TriageInit, TriageInv, WeighInv, AdviceInv, NoAdvice

\* The invariant holds throughout.
LEMMA TriageInvariant == TriageSpec => []TriageInv
  BY TriageInitially, TriageStepHolds, PTL DEF TriageSpec

\* What the invariant says of the types.
LEMMA TriageTypes == TriageInv => TriageTypeOK
  BY DEF TriageInv, AdviceInv, TriageTypeOK, Statuses

\* The program stays within its stages, and what an assessment ends with is a known status
\* (tools/sns_proposal_triage.py).
THEOREM TriageTypeCorrect == TriageSpec => []TriageTypeOK
  BY TriageTypes, TriageInvariant, PTL

\* Whatever the order in which the fields are weighed, and for all values: the priority is
\* critical exactly if a selected parameter changes by the extreme factor, and standard only
\* if every proposed value is verified to be harmless (sns_proposal_triage.py:158).
THEOREM PriorityDeserved == TriageSpec => []PriorityIsDeserved
  <1>1. TriageInv => PriorityIsDeserved
    <2> SUFFICES ASSUME TriageInv, stage \in {"weighed", "assess", "end"}, Weighable
                 PROVE  priority = IF \E f \in Proposed \cap Parameter : ~Unverifiable(f) /\ Factor(f, Extreme)
                                   THEN "critical_review"
                                   ELSE IF Proposed # {} /\ \A f \in Proposed : Harmless(f)
                                        THEN "standard" ELSE "review"
      BY DEF PriorityIsDeserved
    <2>1. priority = IF Proposed = {} THEN "review" ELSE Deserved(Proposed)
      BY DEF TriageInv, WeighInv
    <2> QED  BY <2>1 DEF Deserved, Extremes
  <1> QED  BY <1>1, TriageInvariant, PTL

\* Complete coverage means that each reason was put to the model and answered, or is about a
\* value that does not change (sns_proposal_triage.py:279).
THEOREM CoverageReal == TriageSpec => []CoverageIsReal
  <1>1. TriageInv => CoverageIsReal
    <2> SUFFICES ASSUME TriageInv, advice.covered, Weighable
                 PROVE  /\ reasons \cap Field \subseteq DOMAIN advice.about
                        /\ \A f \in reasons \cap Field : advice.about[f] = "ok" \/ Old(f) = New(f)
                        /\ \A f \in Proposed : f \in DOMAIN advice.about
      BY DEF CoverageIsReal
    <2>1. stage = "end"
      BY DEF TriageInv, AdviceInv, NoAdvice
    <2>2. About(_laya_contexts, advice.about) /\ Covered(advice.about)
      BY <2>1 DEF TriageInv, AdviceInv
    <2>3. /\ DOMAIN _laya_contexts = Proposed
          /\ \A f \in Proposed : _laya_contexts[f] = "unchanged" => Old(f) = New(f)
      BY ContextsTypes
    <2>4. DOMAIN advice.about = Proposed
          /\ \A f \in Proposed : advice.about[f] \in {"ok", "unchanged"}
      BY <2>2, <2>3 DEF About, Covered
    <2>5. reasons \cap Field \subseteq Proposed
      BY <2>1, TriageAssumption DEF TriageInv, WeighInv
    <2> QED  BY <2>2, <2>3, <2>4, <2>5 DEF About
  <1> QED  BY <1>1, TriageInvariant, PTL

-----------------------------------------------------------------------------
(***************************************************************************)
(* Campaigns: whatever their owner does to the engine, and wherever runs   *)
(* die, no report says more than was measured.                             *)
(***************************************************************************)

Row == [case : 1..Cases, packs : SUBSET Pack, modules : SUBSET Module]
Report == [module : Module, pack : Pack, asked : 1..Cases, rows : Seq(Row), complete : BOOLEAN]

\* What the scripts have in common.
Consistent(s) ==
    /\ s.existing \in {"resume", "bind", "refuse", "overwrite"} /\ s.looks \subseteq {"module", "pack"}
    /\ s.query => s.pack \in {"pinned", "compared", "recorded"}
    /\ s.pack = "recorded" => s.existing = "overwrite" /\ "pack" \notin s.looks

\* What was computed under a report: of its pack if by queries, and of its module and its pack
\* if the engine is as the report says and was changed once at most.
Measured(r, packs, modules) ==
    /\ script.query => packs \subseteq {r.pack}
    /\ changes < 2 /\ r.module = engine.module => modules \subseteq {r.module}
    /\ changes < 2 /\ script.pack # "recorded" /\ r.pack = engine.active => packs \subseteq {r.pack}

\* The engine was once as a report says; it is not now only if it was changed.
Bound(r) ==
    /\ r \in Report
    /\ script.pack \in {"pinned", "recorded"} => r.pack = Calibrated
    /\ r.module # engine.module => changes > 0
    /\ script.pack # "recorded" /\ r.pack # engine.active => changes > 0

Distinct(rows) == \A i, j \in DOMAIN rows : rows[i].case = rows[j].case => i = j

ReportInv(r) ==
    /\ Bound(r) /\ Distinct(r.rows)
    /\ \A i \in DOMAIN r.rows : Measured(r, r.rows[i].packs, r.rows[i].modules)

\* What a complete report claims.
Complete(r) ==
    /\ 1..(IF script.counts THEN Cases ELSE r.asked) \subseteq Names(r.rows)
    /\ changes < 2 =>
         \A i \in DOMAIN r.rows :
           /\ "module" \in script.looks => r.rows[i].modules \subseteq {r.module}
           /\ "pack" \in script.looks => r.rows[i].packs \subseteq {r.pack}

\* A later report has the rows of an earlier one, for the same things.
Extends(r, s) ==
    /\ Len(r.rows) <= Len(s.rows) /\ \A i \in 1..Len(r.rows) : s.rows[i] = r.rows[i]
    /\ s.module = r.module /\ s.pack = r.pack
    /\ script.existing = "bind" => s.asked = r.asked

\* What is on disk is not lost but by a new report, or with the whole file.
FileKept == Saved /\ Saved' /\ script.existing # "overwrite" => Extends(file, file')

FileInv == Saved => ReportInv(file) /\ (file.complete => Complete(file))

RunInv ==
    /\ run = [at |-> run.at, report |-> run.report, packs |-> run.packs, modules |-> run.modules,
              done |-> run.done]
    /\ run.at = "cases" =>
         /\ ReportInv(run.report) /\ ~run.report.complete
         /\ run.packs \subseteq Pack /\ run.modules \subseteq Module
         /\ Measured(run.report, run.packs, run.modules)
         /\ Saved /\ script.existing # "overwrite" => Extends(file, run.report)

CampaignInv ==
    /\ engine \in [module : Module, active : Pack, hot : Pack \cup {None}]
    /\ engine.hot \in {None, engine.active}
    /\ Consistent(script) /\ wanted \in 1..Cases /\ changes \in 0..2
    /\ FileInv /\ RunInv
-----------------------------------------------------------------------------
\* Each script of the repository is consistent.
LEMMA ScriptsConsistent == ASSUME NEW s \in Scripts PROVE Consistent(s)
  <1>1. s \in EveryScript
    BY ScriptAssumption
  <1>2. ASSUME NEW existing \in {"resume", "bind", "refuse", "overwrite"}, NEW looks \in SUBSET Both
        PROVE  Consistent(OnQueries(existing, looks)) /\ Consistent(OnUpdates(existing, looks))
    BY DEF OnQueries, OnUpdates, Consistent, Both
  <1>3. /\ Consistent(validate_quantized_queries) /\ Consistent(validate_query_transport)
        /\ Consistent(benchmark_boomdao_queries) /\ Consistent(validate_query_tiers)
        /\ Consistent(explore_query_conditions)
    BY DEF OnQueries, Consistent, Both, validate_quantized_queries, validate_query_transport,
           benchmark_boomdao_queries, validate_query_tiers, explore_query_conditions
  <1>4. /\ Consistent(measure_activation_queries) /\ Consistent(measure_quantized_candidate)
        /\ Consistent(analyze_quantized_changes) /\ Consistent(check_int8_query_guard)
    BY DEF OnQueries, Consistent, Both, measure_activation_queries, measure_quantized_candidate,
           analyze_quantized_changes, check_int8_query_guard
  <1>5. /\ Consistent(validate_canister_corpus) /\ Consistent(measure_update_limits)
        /\ Consistent(check_practical_laya)
    BY DEF OnUpdates, Consistent, Both, validate_canister_corpus, measure_update_limits,
           check_practical_laya
  <1>6. /\ Consistent(measure_int8_query_limit) /\ Consistent(measure_short_int8_inputs)
        /\ Consistent(check_short_int8_query)
    BY DEF OnUpdates, Consistent, Both, measure_int8_query_limit, measure_short_int8_inputs,
           check_short_int8_query
  <1> QED  BY <1>1, <1>3, <1>4, <1>5, <1>6 DEF EveryScript

\* What a report says stays true while the engine is as it is.
LEMMA MeasuredStays ==
    ASSUME UNCHANGED <<engine, script, changes>>, NEW r
    PROVE  /\ ReportInv(r) <=> ReportInv(r)'
           /\ Complete(r) <=> Complete(r)'
           /\ \A p, m : Measured(r, p, m) <=> Measured(r, p, m)'
  BY DEF ReportInv, Complete, Measured, Bound

\* The owner's change of the engine leaves what was measured before it: a change to what the
\* report names, from something else, is the second.
LEMMA OwnerActsKeeps ==
    ASSUME CampaignInv, OwnerActs
    PROVE  CampaignInv'
  <1>1. /\ UNCHANGED <<script, wanted, file, run>>
        /\ changes' = IF engine'.module = engine.module /\ engine'.active = engine.active THEN changes
                      ELSE IF changes < 2 THEN changes + 1 ELSE 2
        /\ changes \in 0..2
    BY DEF OwnerActs, CampaignInv
  <1>2. /\ engine' \in [module : Module, active : Pack, hot : Pack \cup {None}]
        /\ engine'.hot \in {None, engine'.active}
    <2>1. CASE \E m \in Module : engine' = [engine EXCEPT !.module = m, !.hot = None]
      BY <2>1 DEF CampaignInv
    <2>2. CASE \E p \in Pack : engine' = [engine EXCEPT !.active = p, !.hot = p]
      BY <2>2 DEF CampaignInv
    <2> QED  BY <2>1, <2>2 DEF OwnerActs
  <1>3. changes' \in 0..2 /\ changes' >= changes
    BY <1>1
  <1>4. ASSUME NEW r, Bound(r), NEW packs, NEW modules, Measured(r, packs, modules)
        PROVE  Bound(r)' /\ Measured(r, packs, modules)'
    BY <1>1, <1>4 DEF Bound, Measured
  <1>5. ASSUME NEW r, ReportInv(r) PROVE ReportInv(r)'
    <2>1. Bound(r)'
      BY <1>1, <1>5 DEF ReportInv, Bound
    <2>2. \A i \in DOMAIN r.rows : Measured(r, r.rows[i].packs, r.rows[i].modules)'
      BY <1>4, <1>5 DEF ReportInv
    <2> QED  BY <1>5, <2>1, <2>2 DEF ReportInv
  <1>6. ASSUME NEW r, Complete(r) PROVE Complete(r)'
    BY <1>1, <1>3, <1>6 DEF Complete
  <1>7. FileInv'
    BY <1>1, <1>5, <1>6 DEF CampaignInv, FileInv, Saved
  <1>8. RunInv'
    <2>1. run.at = "cases" => ReportInv(run.report)' /\ Measured(run.report, run.packs, run.modules)'
      BY <1>1, <1>4, <1>5 DEF CampaignInv, RunInv, ReportInv
    <2> QED  BY <1>1, <2>1 DEF CampaignInv, RunInv, Saved, Extends
  <1> QED  BY <1>1, <1>2, <1>3, <1>7, <1>8 DEF CampaignInv

\* A process that ends, and what it left on disk.
LEMMA EndKeeps ==
    ASSUME CampaignInv, UNCHANGED <<engine, script, changes>>, wanted' \in 1..Cases,
           run'.at # "cases", run' = [Off EXCEPT !.at = run'.at],
           file' \in {None, Torn} \/ UNCHANGED file \/ (ReportInv(file') /\ (file'.complete => Complete(file')))
    PROVE  CampaignInv'
  <1>1. FileInv'
    BY MeasuredStays DEF CampaignInv, FileInv, Saved
  <1>2. RunInv'
    BY DEF RunInv, Off
  <1> QED  BY <1>1, <1>2 DEF CampaignInv

\* A process that goes on, and what it has saved.
LEMMA WorkKeeps ==
    ASSUME CampaignInv, UNCHANGED <<engine, script, wanted, changes>>,
           NEW report, NEW packs \in SUBSET Pack, NEW modules \in SUBSET Module, NEW done,
           run' = [at |-> "cases", report |-> report, packs |-> packs, modules |-> modules, done |-> done],
           ReportInv(report), ~report.complete, Measured(report, packs, modules),
           UNCHANGED file \/ (ReportInv(file') /\ ~file'.complete),
           Saved' /\ script.existing # "overwrite" => Extends(file', report)
    PROVE  CampaignInv'
  <1>1. FileInv'
    BY MeasuredStays DEF CampaignInv, FileInv, Saved
  <1>2. ReportInv(report)' /\ Measured(report, packs, modules)'
    BY MeasuredStays
  <1>3. /\ run'.at = "cases" /\ run'.report = report /\ run'.packs = packs /\ run'.modules = modules
        /\ run' = [at |-> run'.at, report |-> run'.report, packs |-> run'.packs, modules |-> run'.modules,
                   done |-> run'.done]
    OBVIOUS
  <1>4. RunInv'
    BY <1>2, <1>3 DEF RunInv, Extends
  <1> QED  BY <1>1, <1>4 DEF CampaignInv

\* A run starts with no rows, or with those of a report for what the engine is now.
LEMMA StartRunKeeps ==
    ASSUME CampaignInv, StartRun
    PROVE  CampaignInv'
  <1> DEFINE rows == IF Continues THEN file.rows ELSE <<>>
             report == [module |-> engine.module, pack |-> NamedPack, asked |-> wanted,
                        rows |-> rows, complete |-> FALSE]
             Suits == ReportInv(report) /\ (Saved /\ script.existing # "overwrite" => Extends(file, report))
  <1>1. UNCHANGED <<engine, script, wanted, file, changes>>
    BY DEF StartRun
  <1>2. CASE run' = [Off EXCEPT !.at = "refused"]
    BY <1>1, <1>2, EndKeeps DEF Off, CampaignInv
  <1>3. CASE /\ Suitable /\ (Continues => Resumable) /\ (script.existing = "refuse" => file = None)
             /\ run' = [Off EXCEPT !.at = "cases", !.report = report]
    <2>1. run' = [at |-> "cases", report |-> report, packs |-> {}, modules |-> {}, done |-> 0]
      BY <1>3 DEF Off
    <2>2. /\ engine.module \in Module /\ engine.active \in Pack /\ Calibrated \in Pack
          /\ wanted \in 1..Cases /\ Consistent(script)
      BY CampaignAssumption DEF CampaignInv
    <2>3. NamedPack \in Pack /\ (script.pack # "recorded" => NamedPack = engine.active)
          /\ (script.pack \in {"pinned", "recorded"} => NamedPack = Calibrated)
      BY <1>3, <2>2 DEF NamedPack, Suitable
    <2>4. ASSUME ~Continues PROVE Suits
      <3>1. rows = <<>>  BY <2>4
      <3> HIDE DEF rows
      <3>2. Bound(report)
        BY <2>2, <2>3, <3>1 DEF Bound, Report
      <3>3. ReportInv(report)
        BY <3>1, <3>2 DEF ReportInv, Distinct
      <3>4. ~Saved \/ script.existing = "overwrite"
        BY <1>3, <2>2, <2>4 DEF Saved, Continues, Consistent
      <3> QED  BY <3>3, <3>4
    <2>5. ASSUME Continues PROVE Suits
      <3>1. /\ Saved /\ file.module = engine.module /\ file.pack = engine.active /\ rows = file.rows
            /\ script.existing = "bind" => file.asked = wanted
        BY <1>3, <2>5 DEF Resumable
      <3> HIDE DEF rows
      <3>2. script.pack # "recorded"
        BY <2>2, <2>5 DEF Continues, Consistent
      <3>3. NamedPack = file.pack
        BY <2>3, <3>1, <3>2
      <3>4. ReportInv(file)
        BY <3>1 DEF CampaignInv, FileInv
      <3>5. Bound(report)
        BY <2>2, <2>3, <3>1, <3>4 DEF Bound, Report, ReportInv
      <3>6. /\ \A p, m : Measured(report, p, m) <=> Measured(file, p, m)
            /\ report.rows = file.rows
        BY <3>1, <3>3 DEF Measured
      <3>7. ReportInv(report)
        BY <3>4, <3>5, <3>6 DEF ReportInv
      <3>8. Extends(file, report)
        <4>1. Len(file.rows) \in Nat  BY <3>4 DEF ReportInv, Bound, Report
        <4> QED  BY <3>1, <3>3, <4>1 DEF Extends
      <3> QED  BY <3>7, <3>8
    <2>6. Suits
      BY <2>4, <2>5
    <2>7. Measured(report, {}, {}) /\ ~report.complete
      BY DEF Measured
    <2> HIDE DEF report
    <2>8. Saved' = Saved
      BY <1>1 DEF Saved
    <2> QED  BY <1>1, <2>1, <2>6, <2>7, <2>8, WorkKeeps
  <1> QED  BY <1>2, <1>3 DEF StartRun

\* An inference is of the engine as it is, and by query of the pack that the report names.
LEMMA InfersKeeps ==
    ASSUME CampaignInv, Infers
    PROVE  CampaignInv'
  <1> DEFINE packs == run.packs \cup {engine.hot}
             modules == run.modules \cup {engine.module}
  <1>1. /\ run.at = "cases" /\ engine.hot # None /\ (script.query => engine.hot = Calibrated)
        /\ ~(script.pack = "compared" /\ engine.hot # run.report.pack)
        /\ UNCHANGED <<engine, script, wanted, file, changes>>
    BY DEF Infers, Answers, OtherPack
  <1>2. run' = [at |-> "cases", report |-> run.report, packs |-> packs, modules |-> modules,
                done |-> run.done + 1]
    BY <1>1 DEF Infers, CampaignInv, RunInv
  <1>3. /\ ReportInv(run.report) /\ ~run.report.complete /\ Measured(run.report, run.packs, run.modules)
        /\ Saved /\ script.existing # "overwrite" => Extends(file, run.report)
    BY <1>1 DEF CampaignInv, RunInv
  <1>4. packs \in SUBSET Pack /\ modules \in SUBSET Module
    BY <1>1 DEF CampaignInv, RunInv
  <1>5. Measured(run.report, packs, modules)
    <2>1. engine.hot = engine.active  BY <1>1 DEF CampaignInv
    <2>2. script.query => engine.hot = run.report.pack
      BY <1>1, <1>3 DEF CampaignInv, Consistent, ReportInv, Bound
    <2> QED  BY <1>3, <2>1, <2>2 DEF Measured
  <1>6. Saved' = Saved
    BY <1>1 DEF Saved
  <1> HIDE DEF packs, modules
  <1> QED  BY <1>1, <1>2, <1>3, <1>4, <1>5, <1>6, WorkKeeps

\* The next case is one without a row.
LEMMA NextIsPending ==
    ASSUME run.report.asked \in Nat, Pending # {}
    PROVE  NextCase \in Pending
  <1>1. Pending \subseteq Nat /\ Pending \subseteq 1..run.report.asked
    BY DEF Pending
  <1>2. IsFiniteSet(Pending)
    <2>1. IsFiniteSet(1..run.report.asked)
      BY FS_Interval
    <2> QED  BY <1>1, <2>1, FS_Subset
  <1> QED  BY <1>1, <1>2, HasLeast DEF NextCase

\* A complete row joins the report; no other row is of its case.
LEMMA RecordsKeeps ==
    ASSUME CampaignInv, Records
    PROVE  CampaignInv' /\ FileKept
  <1> DEFINE old == run.report
             row == [case |-> NextCase, packs |-> run.packs, modules |-> run.modules]
             new == [module |-> old.module, pack |-> old.pack, asked |-> old.asked,
                     rows |-> Append(old.rows, row), complete |-> old.complete]
  <1>1. /\ run.at = "cases" /\ Pending # {} /\ UNCHANGED <<engine, script, wanted, changes>>
    BY DEF Records
  <1>2. /\ ReportInv(old) /\ ~old.complete /\ Measured(old, run.packs, run.modules)
        /\ run.packs \subseteq Pack /\ run.modules \subseteq Module
        /\ Saved /\ script.existing # "overwrite" => Extends(file, old)
    BY <1>1 DEF CampaignInv, RunInv
  <1>3. old \in Report /\ old.rows \in Seq(Row) /\ old.asked \in 1..Cases
    BY <1>2 DEF ReportInv, Bound, Report
  <1>4. NextCase \in Pending
    BY <1>1, <1>3, NextIsPending
  <1>5. NextCase \in 1..Cases /\ NextCase \notin Names(old.rows)
    BY <1>3, <1>4, CampaignAssumption DEF Pending
  <1>6. row \in Row
    BY <1>2, <1>5 DEF Row
  <1>7. WithRow = new
    <2>1. old = [module |-> old.module, pack |-> old.pack, asked |-> old.asked, rows |-> old.rows,
                 complete |-> old.complete]
      BY <1>3 DEF Report
    <2>2. WithRow = [old EXCEPT !.rows = Append(old.rows, row)]
      BY DEF WithRow
    <2> HIDE DEF old, row
    <2> QED  BY <2>1, <2>2
  <1>8. /\ run' = [at |-> "cases", report |-> new, packs |-> {}, modules |-> {}, done |-> 0]
        /\ file' = IF script.saves THEN new ELSE file
    BY <1>7 DEF Records, Off
  <1>9. new \in Report /\ new.rows = Append(old.rows, row) /\ ~new.complete
    BY <1>2, <1>3, <1>6 DEF Report
  <1> DEFINE n == Len(old.rows)
  <1>10. /\ n \in Nat /\ Len(new.rows) = n + 1 /\ DOMAIN new.rows = 1..(n + 1) /\ DOMAIN old.rows = 1..n
         /\ new.rows[n + 1] = row /\ \A i \in 1..n : new.rows[i] = old.rows[i]
    BY <1>3, <1>6, <1>9
  <1>11. \A i \in 1..n : old.rows[i].case # NextCase
    BY <1>5, <1>10 DEF Names
  <1> HIDE DEF new
  <1>12. /\ new.module = old.module /\ new.pack = old.pack /\ new.asked = old.asked
    BY DEF new
  <1>13. \A p, m : Measured(new, p, m) <=> Measured(old, p, m)
    BY <1>12 DEF Measured
  <1>14. ReportInv(new)
    <2>1. Bound(new)
      BY <1>2, <1>9, <1>12 DEF ReportInv, Bound
    <2>2. Distinct(new.rows)
      <3>1. \A i, j \in 1..n : new.rows[i].case = new.rows[j].case => i = j
        BY <1>2, <1>10 DEF ReportInv, Distinct
      <3>2. row.case = NextCase  OBVIOUS
      <3>3. \A i \in 1..(n + 1) : i \in 1..n \/ i = n + 1
        BY <1>10
      <3> HIDE DEF row, n
      <3> QED  BY <1>10, <1>11, <3>1, <3>2, <3>3 DEF Distinct
    <2>3. ASSUME NEW i \in DOMAIN new.rows PROVE Measured(new, new.rows[i].packs, new.rows[i].modules)
      <3>1. CASE i \in 1..n
        BY <1>2, <1>10, <1>13, <3>1 DEF ReportInv
      <3>2. CASE i = n + 1
        BY <1>2, <1>10, <1>13, <3>2
      <3> QED  BY <1>10, <3>1, <3>2
    <2> QED  BY <2>1, <2>2, <2>3 DEF ReportInv
  <1>15. Saved /\ script.existing # "overwrite" => Extends(file, new)
    <2> SUFFICES ASSUME Saved, script.existing # "overwrite" PROVE Extends(file, new)
      OBVIOUS
    <2>1. Extends(file, old) /\ ReportInv(file)
      BY <1>2 DEF CampaignInv, FileInv
    <2>2. Len(file.rows) \in Nat
      BY <2>1 DEF ReportInv, Bound, Report
    <2>3. \A i \in 1..Len(file.rows) : i \in 1..n
      BY <1>10, <2>1, <2>2 DEF Extends
    <2> HIDE DEF n, old
    <2>4. Len(file.rows) <= Len(new.rows)
      BY <1>10, <2>1, <2>2 DEF Extends, n
    <2> QED  BY <1>10, <1>12, <2>1, <2>3, <2>4 DEF Extends
  <1>16. Extends(new, new)
    BY <1>10 DEF Extends
  <1>17. Saved' /\ script.existing # "overwrite" => Extends(file', new)
    BY <1>8, <1>15, <1>16 DEF Saved
  <1>18. FileKept
    <2>1. CASE file' = new
      BY <1>15, <2>1 DEF FileKept
    <2>2. CASE file' = file
      <3>1. Saved => Len(file.rows) \in Nat
        BY DEF CampaignInv, FileInv, ReportInv, Bound, Report
      <3> QED  BY <2>2, <3>1 DEF FileKept, Extends
    <2> QED  BY <1>8, <2>1, <2>2
  <1>19. Measured(new, {}, {})
    BY DEF Measured
  <1> QED  BY <1>1, <1>8, <1>9, <1>14, <1>17, <1>18, <1>19, WorkKeeps

\* Rows for as many cases as there are, each for another, are for all of them.
LEMMA AllRowsAllCases ==
    ASSUME NEW rows \in Seq(Row), Distinct(rows), Len(rows) = Cases
    PROVE  1..Cases \subseteq Names(rows)
  <1> DEFINE f == [i \in 1..Cases |-> rows[i].case]
  <1>1. DOMAIN rows = 1..Cases /\ \A i \in 1..Cases : rows[i].case \in 1..Cases
    <2>1. DOMAIN rows = 1..Cases /\ \A i \in 1..Cases : rows[i] \in Row
      OBVIOUS
    <2> QED  BY <2>1 DEF Row
  <1>2. f \in Bijection(1..Cases, Names(rows))
    BY <1>1 DEF Bijection, Injection, Surjection, Distinct, Names, IsInjective
  <1>3. IsFiniteSet(1..Cases) /\ Cardinality(1..Cases) = Cases
    <2>1. Cases \in Int /\ 1 \in Int /\ ~(1 > Cases) /\ Cases - 1 + 1 = Cases
      BY CampaignAssumption
    <2> QED  BY <2>1, FS_Interval
  <1>4. Cardinality(Names(rows)) = Cases
    BY <1>2, <1>3, FS_Bijection DEF ExistsBijection
  <1>5. Names(rows) \subseteq 1..Cases
    BY <1>1 DEF Names
  <1> QED  BY <1>3, <1>4, <1>5, FS_Subset

\* A report is complete when each case has its row, and the engine still is what it names.
LEMMA CertifiesKeeps ==
    ASSUME CampaignInv, Certifies
    PROVE  CampaignInv' /\ FileKept
  <1> DEFINE r == run.report
             new == [module |-> r.module, pack |-> r.pack, asked |-> r.asked, rows |-> r.rows,
                     complete |-> AllThere]
  <1>1. /\ run.at = "cases" /\ Pending = {} /\ Unchanged /\ UNCHANGED <<engine, script, wanted, changes>>
        /\ run' = Off
    BY DEF Certifies
  <1>2. ReportInv(r) /\ r \in Report /\ Consistent(script)
    BY <1>1 DEF CampaignInv, RunInv, ReportInv, Bound
  <1>3. file' = IF script.marks THEN new ELSE file
    BY <1>2 DEF Certifies, Report
  <1>4. new \in Report
    BY <1>2 DEF Report, AllThere
  <1>5. new.complete = AllThere
    OBVIOUS
  <1> HIDE DEF new
  <1>6. new.module = r.module /\ new.pack = r.pack /\ new.asked = r.asked /\ new.rows = r.rows
    BY DEF new
  <1>7. ReportInv(new)
    BY <1>2, <1>4, <1>6 DEF ReportInv, Bound, Measured
  <1>8. AllThere => Complete(new)
    <2> SUFFICES ASSUME AllThere PROVE Complete(new)
      OBVIOUS
    <2>1. 1..r.asked \subseteq Names(r.rows)
      BY <1>1 DEF Pending
    <2>2. script.counts => 1..Cases \subseteq Names(r.rows)
      BY <1>2, AllRowsAllCases DEF AllThere, Report, ReportInv
    <2>3. ASSUME changes < 2, NEW i \in DOMAIN r.rows
          PROVE  /\ "module" \in script.looks => r.rows[i].modules \subseteq {r.module}
                 /\ "pack" \in script.looks => r.rows[i].packs \subseteq {r.pack}
      BY <1>1, <1>2, <2>3 DEF Unchanged, Consistent, ReportInv, Measured
    <2> QED  BY <1>6, <2>1, <2>2, <2>3 DEF Complete
  <1>9. FileKept
    <2>1. Saved /\ script.existing # "overwrite" => Extends(file, new)
      BY <1>1, <1>6 DEF CampaignInv, RunInv, Extends
    <2>2. Saved => Extends(file, file)
      <3>1. Saved => Len(file.rows) \in Nat
        BY DEF CampaignInv, FileInv, ReportInv, Bound, Report
      <3> QED  BY <3>1 DEF Extends
    <2> QED  BY <1>3, <2>1, <2>2 DEF FileKept
  <1>10. CampaignInv'
    BY <1>1, <1>3, <1>5, <1>7, <1>8, EndKeeps DEF Off, CampaignInv
  <1> QED  BY <1>9, <1>10

\* Whatever happens keeps the invariant.
LEMMA CampaignStepHolds == CampaignInv /\ [CampaignNext]_campaignVars => CampaignInv'
  <1> SUFFICES ASSUME CampaignInv, [CampaignNext]_campaignVars PROVE CampaignInv'
    OBVIOUS
  <1>1. wanted \in 1..Cases /\ Off.at = "off" /\ Off = [Off EXCEPT !.at = "off"]
    BY DEF CampaignInv, Off
  <1>2. CASE TriesLater \/ Refuses \/ Dies
    <2>1. UNCHANGED <<engine, script, wanted, file, changes>> /\ run' = Off
      BY <1>2 DEF TriesLater, Refuses, Dies
    <2> QED  BY <1>1, <2>1, EndKeeps
  <1>3. CASE NewOutput \/ DiesWriting
    <2>1. UNCHANGED <<engine, script, wanted, changes>> /\ run' = Off /\ file' \in {None, Torn}
      BY <1>3 DEF NewOutput, DiesWriting, Rest
    <2> QED  BY <1>1, <2>1, EndKeeps
  <1>4. ASSUME NEW n \in 1..Cases, AsksFor(n) PROVE CampaignInv'
    <2>1. UNCHANGED <<engine, script, file, run, changes>> /\ wanted' \in 1..Cases
      BY <1>4 DEF AsksFor
    <2> QED  BY <2>1, MeasuredStays DEF CampaignInv, FileInv, RunInv, Saved, Extends
  <1>5. CASE UNCHANGED campaignVars
    <2>1. UNCHANGED <<engine, script, wanted, file, run, changes>>
      BY <1>5 DEF campaignVars
    <2> QED  BY <2>1, MeasuredStays DEF CampaignInv, FileInv, RunInv, Saved, Extends
  <1> QED  BY <1>2, <1>3, <1>4, <1>5, OwnerActsKeeps, StartRunKeeps, InfersKeeps, RecordsKeeps, CertifiesKeeps
           DEF CampaignNext, RunStep

\* Nothing is measured at first.
LEMMA CampaignInvariant == CampaignSpec => []CampaignInv
  <1>1. CampaignInit => CampaignInv
    <2> SUFFICES ASSUME CampaignInit PROVE CampaignInv
      OBVIOUS
    <2>1. Consistent(script)
      BY ScriptsConsistent DEF CampaignInit
    <2>2. FileInv /\ RunInv
      BY DEF CampaignInit, FileInv, RunInv, Saved, Off
    <2>3. wanted \in 1..Cases
      BY CampaignAssumption DEF CampaignInit
    <2> QED  BY <2>1, <2>2, <2>3 DEF CampaignInit, CampaignInv
  <1> QED  BY <1>1, CampaignStepHolds, PTL DEF CampaignSpec
-----------------------------------------------------------------------------
\* A report on queries names the pack that computed its rows, whatever the owner loads between
\* two of them, and wherever the run died.
THEOREM RowsNamed == CampaignSpec => []RowsOfNamedPack
  <1>1. CampaignInv => RowsOfNamedPack
    BY DEF CampaignInv, FileInv, ReportInv, Measured, RowsOfNamedPack, ToSet
  <1> QED  BY <1>1, CampaignInvariant, PTL

\* A complete report has every case, none of them twice, and names the module and the pack that
\* computed its rows, unless the engine was changed and changed back.
THEOREM CertifiedTrue == CampaignSpec => []CertifiedIsTrue
  <1>1. CampaignInv => CertifiedIsTrue
    <2> SUFFICES ASSUME CampaignInv PROVE CertifiedIsTrue
      OBVIOUS
    <2>1. NoCaseTwice
      BY DEF CampaignInv, FileInv, ReportInv, Distinct, NoCaseTwice
    <2>2. CompleteMeansAll
      BY DEF CampaignInv, FileInv, Complete, CompleteMeansAll
    <2>3. NamesItsEngine
      BY DEF CampaignInv, FileInv, Complete, NamesItsEngine, ToSet
    <2> QED  BY <2>1, <2>2, <2>3 DEF CertifiedIsTrue
  <1> QED  BY <1>1, CampaignInvariant, PTL
-----------------------------------------------------------------------------
\* A report with the rows of another is a continuation of it.
LEMMA ExtendsIsPrefix ==
    ASSUME NEW r \in Report, NEW s \in Report, Extends(r, s)
    PROVE  IsPrefix(r.rows, s.rows)
  <1> DEFINE a == r.rows
             b == s.rows
             n == Len(a)
  <1>1. a \in Seq(Row) /\ b \in Seq(Row) /\ n \in Nat /\ Len(b) \in Nat /\ n <= Len(b)
    BY DEF Report, Extends
  <1>2. \A i \in 1..n : b[i] = a[i]
    BY DEF Extends
  <1> HIDE DEF a, b
  <1>3. SubSeq(a, 1, n) = [i \in 1..n |-> a[i]] /\ SubSeq(b, 1, n) = [i \in 1..n |-> b[i]]
    BY <1>1
  <1>4. SubSeq(a, 1, n) = SubSeq(b, 1, n)
    BY <1>2, <1>3
  <1> QED  BY <1>1, <1>4 DEF IsPrefix, a, b

\* Measured rows are lost only by a write that is cut short or with the whole report, and are
\* never under another module, pack or set of inputs afterwards.
THEOREM RowsKept == CampaignSpec => RowsAreKept
  <1>1. CampaignInv /\ CampaignInv' /\ [CampaignNext]_campaignVars =>
          [Saved /\ Saved' /\ script.existing # "overwrite" =>
             /\ IsPrefix(file.rows, file'.rows)
             /\ file'.module = file.module /\ file'.pack = file.pack
             /\ script.existing = "bind" => file'.asked = file.asked]_campaignVars
    <2> SUFFICES ASSUME CampaignInv, CampaignInv', CampaignNext,
                        Saved, Saved', script.existing # "overwrite"
                 PROVE  /\ IsPrefix(file.rows, file'.rows)
                        /\ file'.module = file.module /\ file'.pack = file.pack
                        /\ script.existing = "bind" => file'.asked = file.asked
      OBVIOUS
    <2>1. file \in Report /\ file' \in Report
      BY DEF CampaignInv, FileInv, ReportInv, Bound, Saved, Report
    <2>2. UNCHANGED file \/ Records \/ Certifies
      BY DEF CampaignNext, RunStep, OwnerActs, StartRun, TriesLater, Infers, Refuses, NewOutput, Dies,
             DiesWriting, AsksFor, Saved, Rest
    <2>3. CASE UNCHANGED file
      <3>1. Len(file.rows) \in Nat  BY <2>1 DEF Report
      <3> QED  BY <2>1, <2>3, <3>1, ExtendsIsPrefix DEF Extends
    <2>4. CASE Records \/ Certifies
      <3>1. Extends(file, file')
        BY <2>4, RecordsKeeps, CertifiesKeeps DEF FileKept
      <3> QED  BY <2>1, <3>1, ExtendsIsPrefix DEF Extends
    <2> QED  BY <2>2, <2>3, <2>4
  <1> QED  BY <1>1, CampaignInvariant, CampaignStepHolds, PTL DEF CampaignSpec, RowsAreKept

-----------------------------------------------------------------------------
(***************************************************************************)
(* The makers of packs: whatever runs at once and whoever is killed, what  *)
(* has its name is whole.                                                  *)
(***************************************************************************)

\* The words that names are made of.
Word == {"embeddings", "final_norm", "encoder", "qtype", "decision", "scorer",
         "weight", "vector", "norm.weight", "norm.bias", "attn_norm.weight", "mlp_norm.weight",
         "qkv.weight", "qkv.bias", "out.weight", "out.bias", "wi.weight", "wo.weight",
         "norm1.weight", "norm1.bias", "norm2.weight", "norm2.bias", "linear1.weight", "linear1.bias",
         "linear2.weight", "linear2.bias", "dense.weight", "dense.bias"}

\* The names of tensors in a sequence: each once, of groups and layers in K.
NamesWithin(s, K) ==
    /\ s \in Seq(Word \X Nat \X Word) /\ Len(s) > 0
    /\ \A i, j \in 1..Len(s) : s[i] = s[j] => i = j
    /\ \A i \in 1..Len(s) : <<s[i][1], s[i][2]>> \in K

\* Two sequences of names of different groups or layers, one after the other.
LEMMA NamesJoin ==
    ASSUME NEW s, NEW t, NEW K, NEW M, NamesWithin(s, K), NamesWithin(t, M), K \cap M = {}
    PROVE  NamesWithin(s \o t, K \cup M)
  <1> DEFINE N == Word \X Nat \X Word
             a == Len(s)
             b == Len(t)
             u == s \o t
  <1>1. /\ s \in Seq(N) /\ t \in Seq(N) /\ a \in Nat /\ b \in Nat /\ a > 0 /\ b > 0
    BY DEF NamesWithin
  <1>2. u \in Seq(N) /\ Len(u) = a + b
    BY <1>1
  <1>3. /\ \A i \in 1..a : u[i] = s[i]
        /\ \A i \in (a + 1)..(a + b) : u[i] = t[i - a] /\ i - a \in 1..b
    BY <1>1
  <1>4. \A i \in 1..(a + b) : i \in 1..a \/ i \in (a + 1)..(a + b)
    BY <1>1
  <1>5. \A i \in 1..a : <<u[i][1], u[i][2]>> \in K
    BY <1>3 DEF NamesWithin
  <1>6. \A i \in (a + 1)..(a + b) : <<u[i][1], u[i][2]>> \in M
    <2>1. \A i \in 1..b : <<t[i][1], t[i][2]>> \in M
      BY DEF NamesWithin
    <2> QED  BY <1>3, <2>1
  <1>7. /\ \A i, j \in 1..a : s[i] = s[j] => i = j
        /\ \A i, j \in 1..b : t[i] = t[j] => i = j
    BY DEF NamesWithin
  <1> HIDE DEF u, a, b
  <1>8. ASSUME NEW i \in 1..(a + b), NEW j \in 1..(a + b), u[i] = u[j] PROVE i = j
    <2>1. CASE i \in 1..a /\ j \in 1..a
      BY <1>3, <1>7, <1>8, <2>1
    <2>2. CASE i \in (a + 1)..(a + b) /\ j \in (a + 1)..(a + b)
      <3>1. i - a \in 1..b /\ j - a \in 1..b /\ t[i - a] = t[j - a]
        BY <1>3, <1>8, <2>2
      <3>2. i - a = j - a
        BY <1>7, <3>1
      <3> QED  BY <1>1, <2>2, <3>2
    <2>3. CASE i \in 1..a /\ j \in (a + 1)..(a + b)
      BY <1>5, <1>6, <1>8, <2>3
    <2>4. CASE j \in 1..a /\ i \in (a + 1)..(a + b)
      BY <1>5, <1>6, <1>8, <2>4
    <2> QED  BY <1>4, <2>1, <2>2, <2>3, <2>4
  <1>9. \A i \in 1..(a + b) : <<u[i][1], u[i][2]>> \in K \cup M
    BY <1>4, <1>5, <1>6
  <1>10. Len(u) > 0 /\ 1..Len(u) = 1..(a + b)
    BY <1>1, <1>2
  <1>11. NamesWithin(u, K \cup M)
    BY <1>2, <1>8, <1>9, <1>10 DEF NamesWithin
  <1> QED  BY <1>11 DEF u

\* The tensors of one layer are named by their fields.
LEMMA NamedNames ==
    ASSUME NEW group \in Word, NEW l \in Nat, NEW fields \in Seq(Word), Len(fields) > 0,
           \A i, j \in 1..Len(fields) : fields[i] = fields[j] => i = j
    PROVE  NamesWithin(Named(group, l, fields), {<<group, l>>})
  <1> DEFINE s == Named(group, l, fields)
             m == Len(fields)
             N == Word \X Nat \X Word
  <1>1. DOMAIN fields = 1..m /\ m \in Nat /\ m > 0
    OBVIOUS
  <1>2. s = [k \in 1..m |-> <<group, l, fields[k]>>]
    BY <1>1 DEF Named
  <1>3. \A k \in 1..m : <<group, l, fields[k]>> \in N
    BY <1>1
  <1>4. s \in Seq(N) /\ Len(s) = m
    <2> HIDE DEF m, N
    <2>1. s = [k \in 1..m |-> s[k]] /\ \A k \in 1..m : s[k] \in N
      BY <1>2, <1>3
    <2> HIDE DEF s
    <2> QED  BY <1>1, <2>1
  <1>5. \A k \in 1..m : s[k] = <<group, l, fields[k]>>
    BY <1>2
  <1> HIDE DEF s, m
  <1>6. \A k \in 1..m : s[k][1] = group /\ s[k][2] = l /\ s[k][3] = fields[k]
    <2> TAKE k \in 1..m
    <2>1. s[k] = <<group, l, fields[k]>>
      BY <1>5
    <2> QED  BY <2>1
  <1>7. ASSUME NEW i \in 1..m, NEW j \in 1..m, s[i] = s[j] PROVE i = j
    <2>1. fields[i] = fields[j]
      BY <1>6, <1>7
    <2> QED  BY <2>1 DEF m
  <1>8. \A i \in 1..m : <<s[i][1], s[i][2]>> \in {<<group, l>>}
    BY <1>6
  <1>9. NamesWithin(s, {<<group, l>>})
    BY <1>1, <1>4, <1>7, <1>8 DEF NamesWithin
  <1> QED  BY <1>9 DEF s

\* Layers one after the other: FlattenSeq goes through the layers, so a first one whose names
\* are not as they should be has none before it that it could clash with.
LEMMA LayersNames ==
    ASSUME NEW n \in Nat \ {0}, NEW s, NEW group, Len(s) = n,
           \A i \in 1..n : NamesWithin(s[i], {<<group, i - 1>>})
    PROVE  NamesWithin(FlattenSeq(s), {group} \X (0..(n - 1)))
  <1> DEFINE Flat(f, m) == f = [i \in 1..m |-> IF i = 1 THEN s[i] ELSE f[i - 1] \o s[i]]
  <1>1. \E f : Flat(f, n)
    <2> DEFINE Good == {m \in 1..n : \E f : Flat(f, m)}
    <2>1. 1 \in Good
      <3> DEFINE f == [i \in 1..1 |-> s[1]]
      <3>1. f = [i \in 1..1 |-> f[i]] /\ \A i \in 1..1 : f[i] = s[i] /\ i = 1
        OBVIOUS
      <3> HIDE DEF f
      <3>2. \A i \in 1..1 : f[i] = IF i = 1 THEN s[i] ELSE f[i - 1] \o s[i]
        BY <3>1
      <3>3. Flat(f, 1)
        BY <3>1, <3>2
      <3>4. 1 \in 1..n
        OBVIOUS
      <3> HIDE DEF Flat
      <3> QED  BY <3>3, <3>4
    <2>2. ASSUME NEW m \in 2..n, m - 1 \in Good PROVE m \in Good
      <3>1. PICK f : Flat(f, m - 1)
        BY <2>2
      <3>2. m \in Nat /\ m \in 1..m /\ m # 1 /\ m - 1 \in 1..(m - 1)
            /\ \A i \in 1..(m - 1) : i \in 1..m /\ i # m
        OBVIOUS
      <3> DEFINE step(i) == IF i = m THEN f[m - 1] \o s[m] ELSE f[i]
                 g == [i \in 1..m |-> step(i)]
      <3>3. \A i \in 1..m : g[i] = step(i)
        OBVIOUS
      <3>4. g = [i \in 1..m |-> g[i]]
        OBVIOUS
      <3>5. \A i \in 1..(m - 1) : f[i] = IF i = 1 THEN s[i] ELSE f[i - 1] \o s[i]
        <4>1. \A h : (h = [i \in 1..(m - 1) |-> IF i = 1 THEN s[i] ELSE f[i - 1] \o s[i]]) =>
                \A i \in 1..(m - 1) : h[i] = IF i = 1 THEN s[i] ELSE f[i - 1] \o s[i]
          OBVIOUS
        <4> QED  BY <3>1, <4>1
      <3> HIDE DEF g
      <3>6. \A i \in 1..m : g[i] = IF i = 1 THEN s[i] ELSE g[i - 1] \o s[i]
        <4> SUFFICES ASSUME NEW i \in 1..m PROVE g[i] = IF i = 1 THEN s[i] ELSE g[i - 1] \o s[i]
          OBVIOUS
        <4>1. CASE i = m
          <5>1. m - 1 \in 1..m /\ m - 1 # m
            BY <3>2
          <5>2. g[m - 1] = f[m - 1]  BY <3>3, <5>1
          <5>3. g[m] = f[m - 1] \o s[m]  BY <3>2, <3>3
          <5> QED  BY <3>2, <4>1, <5>2, <5>3
        <4>2. CASE i # m
          <5>1. i \in 1..(m - 1)  BY <4>2
          <5>2. g[i] = f[i]  BY <3>3, <4>2
          <5>3. i # 1 => i - 1 \in 1..(m - 1) /\ i - 1 \in 1..m /\ i - 1 # m  BY <4>2
          <5>4. i # 1 => g[i - 1] = f[i - 1]  BY <3>3, <5>3
          <5> QED  BY <3>5, <5>1, <5>2, <5>4
        <4> QED  BY <4>1, <4>2
      <3>7. Flat(g, m)
        BY <3>4, <3>6
      <3> HIDE DEF Flat
      <3>8. m \in 1..n  OBVIOUS
      <3> QED  BY <3>7, <3>8
    <2> HIDE DEF Good
    <2>3. 1..n \subseteq Good
      BY <2>1, <2>2, UpTo
    <2>4. n \in Good
      BY <2>3
    <2> QED  BY <2>4 DEF Good
  <1> DEFINE flatten == CHOOSE f : Flat(f, n)
  <1>2. Flat(flatten, n)
    <2> HIDE DEF Flat
    <2> QED  BY <1>1
  <1>3. FlattenSeq(s) = flatten[n]
    BY DEF FlattenSeq
  <1> HIDE DEF flatten
  <1>4. \A i \in 1..n : flatten[i] = IF i = 1 THEN s[i] ELSE flatten[i - 1] \o s[i]
    BY <1>2
  <1> DEFINE Before(m) == {group} \X (0..(m - 1))
  <1>5. \A i \in 1..n : NamesWithin(flatten[i], Before(i))
    <2> DEFINE Good == {m \in 1..n : NamesWithin(flatten[m], Before(m))}
    <2>1. 1 \in Good
      <3>1. Before(1) = {<<group, 1 - 1>>}  OBVIOUS
      <3>2. 1 \in 1..n  OBVIOUS
      <3>3. flatten[1] = s[1]  BY <1>4, <3>2
      <3> HIDE DEF Before
      <3> QED  BY <3>1, <3>2, <3>3
    <2>2. ASSUME NEW m \in 2..n, m - 1 \in Good PROVE m \in Good
      <3>1. m - 1 \in Nat /\ m \in Nat /\ m \in 1..n /\ m # 1
        OBVIOUS
      <3>2. NamesWithin(flatten[m - 1], Before(m - 1)) /\ NamesWithin(s[m], {<<group, m - 1>>})
        BY <2>2, <3>1
      <3>3. flatten[m] = flatten[m - 1] \o s[m]
        BY <1>4, <3>1
      <3>4. Before(m - 1) \cap {<<group, m - 1>>} = {}
            /\ Before(m - 1) \cup {<<group, m - 1>>} = Before(m)
        BY <3>1
      <3> HIDE DEF Before
      <3>5. NamesWithin(flatten[m - 1] \o s[m], Before(m - 1) \cup {<<group, m - 1>>})
        BY <3>2, <3>4, NamesJoin
      <3> QED  BY <3>1, <3>3, <3>4, <3>5
    <2> HIDE DEF Good
    <2>3. 1..n \subseteq Good
      BY <2>1, <2>2, UpTo
    <2> QED  BY <2>3 DEF Good
  <1> HIDE DEF Before
  <1>6. n \in 1..n  OBVIOUS
  <1>7. NamesWithin(flatten[n], Before(n))  BY <1>5, <1>6
  <1> QED  BY <1>3, <1>7 DEF Before

\* The groups that have layers, and those that have one.
Grouped == ({"encoder", "decision"} \X Nat) \cup ({"embeddings", "final_norm", "qtype", "scorer"} \X {0})

\* A sequence whose elements have names in a set has them in any larger set.
LEMMA NamesWiden ==
    ASSUME NEW s, NEW K, NEW M, K \subseteq M, NamesWithin(s, K)
    PROVE  NamesWithin(s, M)
  BY DEF NamesWithin

\* The elements of two sequences, one after the other.
LEMMA Joined ==
    ASSUME NEW S, NEW s \in Seq(S), NEW t \in Seq(S)
    PROVE  /\ s \o t \in Seq(S) /\ Len(s \o t) = Len(s) + Len(t)
           /\ \A i \in 1..Len(s) : (s \o t)[i] = s[i]
           /\ \A i \in (Len(s) + 1)..(Len(s) + Len(t)) : (s \o t)[i] = t[i - Len(s)]
  OBVIOUS

\* A layer of the encoder has its fields, with and without the first norm.
LEMMA EncoderFields ==
    ASSUME NEW norm \in BOOLEAN
    PROVE  /\ encoderFields(norm) \in Seq(Word) /\ Len(encoderFields(norm)) > 0
           /\ \A i, j \in 1..Len(encoderFields(norm)) :
                encoderFields(norm)[i] = encoderFields(norm)[j] => i = j
  <1> DEFINE rest == <<"qkv.weight", "out.weight", "mlp_norm.weight", "wi.weight", "wo.weight">>
             f == encoderFields(norm)
  <1>1. rest \in Seq(Word) /\ Len(rest) = 5
        /\ rest[1] = "qkv.weight" /\ rest[2] = "out.weight" /\ rest[3] = "mlp_norm.weight"
        /\ rest[4] = "wi.weight" /\ rest[5] = "wo.weight"
    BY DEF Word
  <1>2. \A i, j \in 1..5 : rest[i] = rest[j] => i = j
    BY <1>1
  <1>3. \A i \in 1..5 : rest[i] # "attn_norm.weight"
    BY <1>1
  <1>4. CASE norm
    <2> DEFINE first == <<"attn_norm.weight">>
    <2>1. first \in Seq(Word) /\ Len(first) = 1 /\ first[1] = "attn_norm.weight"
      BY DEF Word
    <2>2. f = first \o rest
      BY <1>4 DEF encoderFields
    <2> DEFINE g == first \o rest
    <2> HIDE DEF rest, first, f
    <2>3. /\ g \in Seq(Word) /\ Len(g) = Len(first) + Len(rest)
          /\ \A i \in 1..Len(first) : g[i] = first[i]
          /\ \A i \in (Len(first) + 1)..(Len(first) + Len(rest)) : g[i] = rest[i - Len(first)]
      BY <1>1, <2>1, Joined DEF g
    <2> HIDE DEF g
    <2>4. f \in Seq(Word) /\ Len(f) = 6
      BY <1>1, <2>1, <2>2, <2>3 DEF g
    <2>5. 1 \in 1..Len(first) /\ \A i \in 2..6 : i \in (Len(first) + 1)..(Len(first) + Len(rest))
      BY <1>1, <2>1
    <2>6. f[1] = "attn_norm.weight" /\ \A i \in 2..6 : f[i] = rest[i - 1]
      BY <2>1, <2>2, <2>3, <2>5 DEF g
    <2>7. \A i, j \in 1..6 : f[i] = f[j] => i = j
      <3> SUFFICES ASSUME NEW i \in 1..6, NEW j \in 1..6, f[i] = f[j] PROVE i = j
        OBVIOUS
      <3>1. (i = 1 \/ i - 1 \in 1..5) /\ (j = 1 \/ j - 1 \in 1..5)
        OBVIOUS
      <3>2. (i # 1 => i \in 2..6) /\ (j # 1 => j \in 2..6)
        OBVIOUS
      <3> QED  BY <1>2, <1>3, <2>6, <3>1, <3>2
    <2> QED  BY <2>4, <2>7 DEF f
  <1>5. CASE ~norm
    <2>1. f = <<>> \o rest
      BY <1>5 DEF encoderFields
    <2> HIDE DEF rest
    <2>2. <<>> \o rest = rest
      BY <1>1
    <2>3. f = rest
      BY <2>1, <2>2
    <2>4. rest \in Seq(Word) /\ Len(rest) > 0 /\ \A i, j \in 1..Len(rest) : rest[i] = rest[j] => i = j
      BY <1>1, <1>2
    <2> QED  BY <2>3, <2>4
  <1> QED  BY <1>4, <1>5

\* The groups of the names are words.
LEMMA GroupWords ==
    /\ "embeddings" \in Word /\ "final_norm" \in Word /\ "encoder" \in Word
    /\ "qtype" \in Word /\ "decision" \in Word /\ "scorer" \in Word
  BY DEF Word

\* The names of a group without layers.
LEMMA ScalarNames ==
    ASSUME NEW group \in Word, NEW fields \in Seq(Word), Len(fields) > 0,
           \A i, j \in 1..Len(fields) : fields[i] = fields[j] => i = j
    PROVE  NamesWithin(Named(group, 0, fields), {<<group, 0>>})
  <1>1. 0 \in Nat  OBVIOUS
  <1> QED  BY <1>1, NamedNames

\* The loader's names are each there once, for every configuration.
LEMMA OrderedNames ==
    ASSUME NEW c \in Config
    PROVE  NamesWithin(ordered(c), Grouped)
  <1> DEFINE e == [i \in 1..c.layers |-> Named("encoder", i - 1, encoderFields(i > 1 \/ c.firstNorm))]
             d == [i \in 1..c.decisionLayers |-> Named("decision", i - 1, decisionFields)]
             s1 == Named("embeddings", 0, <<"weight", "norm.weight">>)
             s2 == Named("final_norm", 0, <<"vector">>)
             s3 == FlattenSeq(e)
             s4 == Named("qtype", 0, <<"weight">>)
             s5 == FlattenSeq(d)
             s6 == Named("scorer", 0, <<"norm.weight", "norm.bias", "dense.weight", "dense.bias",
                                        "out.weight", "out.bias">>)
             G1 == {<<"embeddings", 0>>}
             G2 == {<<"final_norm", 0>>}
             G3 == {"encoder"} \X (0..(c.layers - 1))
             G4 == {<<"qtype", 0>>}
             G5 == {"decision"} \X (0..(c.decisionLayers - 1))
             G6 == {<<"scorer", 0>>}
  <1>1. c.layers \in Nat \ {0} /\ c.decisionLayers \in Nat \ {0} /\ c.firstNorm \in BOOLEAN
    BY DEF Config
  <1>2. NamesWithin(s1, G1)
    <2> DEFINE f == <<"weight", "norm.weight">>
    <2>1. f \in Seq(Word) /\ Len(f) = 2 /\ f[1] = "weight" /\ f[2] = "norm.weight"
      BY DEF Word
    <2>2. \A i, j \in 1..Len(f) : f[i] = f[j] => i = j
      BY <2>1
    <2> HIDE DEF f
    <2>3. Len(f) > 0 /\ "embeddings" \in Word
      BY <2>1, GroupWords
    <2> HIDE DEF e, d, s1, s2, s3, s4, s5, s6, G1, G2, G3, G4, G5, G6
    <2>4. NamesWithin(Named("embeddings", 0, f), {<<"embeddings", 0>>})
      BY <2>1, <2>2, <2>3, ScalarNames
    <2> QED  BY <2>4 DEF f, s1, G1
  <1>3. NamesWithin(s2, G2)
    <2> DEFINE f == <<"vector">>
    <2>1. f \in Seq(Word) /\ Len(f) = 1
      BY DEF Word
    <2>2. \A i, j \in 1..Len(f) : f[i] = f[j] => i = j
      BY <2>1
    <2> HIDE DEF f
    <2>3. Len(f) > 0 /\ "final_norm" \in Word
      BY <2>1, GroupWords
    <2> HIDE DEF e, d, s1, s2, s3, s4, s5, s6, G1, G2, G3, G4, G5, G6
    <2>4. NamesWithin(Named("final_norm", 0, f), {<<"final_norm", 0>>})
      BY <2>1, <2>2, <2>3, ScalarNames
    <2> QED  BY <2>4 DEF f, s2, G2
  <1>4. NamesWithin(s3, G3)
    <2>1. Len(e) = c.layers
      BY <1>1
    <2>2. ASSUME NEW i \in 1..c.layers PROVE NamesWithin(e[i], {<<"encoder", i - 1>>})
      <3>1. (i > 1 \/ c.firstNorm) \in BOOLEAN /\ i - 1 \in Nat
        BY <1>1
      <3>2. e[i] = Named("encoder", i - 1, encoderFields(i > 1 \/ c.firstNorm))
        OBVIOUS
      <3> HIDE DEF e
      <3> DEFINE norm == i > 1 \/ c.firstNorm
      <3>3. norm \in BOOLEAN  BY <3>1
      <3> HIDE DEF norm
      <3>4. /\ encoderFields(norm) \in Seq(Word) /\ Len(encoderFields(norm)) > 0
            /\ \A k, m \in 1..Len(encoderFields(norm)) :
                 encoderFields(norm)[k] = encoderFields(norm)[m] => k = m
        BY <3>3, EncoderFields
      <3>5. NamesWithin(Named("encoder", i - 1, encoderFields(norm)), {<<"encoder", i - 1>>})
        BY <3>1, <3>4, NamedNames, GroupWords
      <3> QED  BY <3>2, <3>5 DEF norm
    <2> HIDE DEF e
    <2> QED  BY <1>1, <2>1, <2>2, LayersNames
  <1>5. NamesWithin(s4, G4)
    <2> DEFINE f == <<"weight">>
    <2>1. f \in Seq(Word) /\ Len(f) = 1
      BY DEF Word
    <2>2. \A i, j \in 1..Len(f) : f[i] = f[j] => i = j
      BY <2>1
    <2> HIDE DEF f
    <2>3. Len(f) > 0 /\ "qtype" \in Word
      BY <2>1, GroupWords
    <2> HIDE DEF e, d, s1, s2, s3, s4, s5, s6, G1, G2, G3, G4, G5, G6
    <2>4. NamesWithin(Named("qtype", 0, f), {<<"qtype", 0>>})
      BY <2>1, <2>2, <2>3, ScalarNames
    <2> QED  BY <2>4 DEF f, s4, G4
  <1>6. NamesWithin(s5, G5)
    <2>1. Len(d) = c.decisionLayers
      BY <1>1
    <2>2. decisionFields \in Seq(Word) /\ Len(decisionFields) = 12
      BY DEF decisionFields, Word
    <2>3. \A i, j \in 1..Len(decisionFields) : decisionFields[i] = decisionFields[j] => i = j
      <3>1. /\ decisionFields[1] = "qkv.weight" /\ decisionFields[2] = "qkv.bias"
            /\ decisionFields[3] = "out.weight" /\ decisionFields[4] = "out.bias"
            /\ decisionFields[5] = "norm1.weight" /\ decisionFields[6] = "norm1.bias"
            /\ decisionFields[7] = "norm2.weight" /\ decisionFields[8] = "norm2.bias"
            /\ decisionFields[9] = "linear1.weight" /\ decisionFields[10] = "linear1.bias"
            /\ decisionFields[11] = "linear2.weight" /\ decisionFields[12] = "linear2.bias"
        BY DEF decisionFields
      <3> QED  BY <2>2, <3>1
    <2>4. ASSUME NEW i \in 1..c.decisionLayers PROVE NamesWithin(d[i], {<<"decision", i - 1>>})
      <3>1. d[i] = Named("decision", i - 1, decisionFields) /\ i - 1 \in Nat
        BY <1>1
      <3> HIDE DEF d
      <3>2. Len(decisionFields) > 0 /\ "decision" \in Word
        BY <2>2 DEF Word
      <3>3. NamesWithin(Named("decision", i - 1, decisionFields), {<<"decision", i - 1>>})
        BY <2>2, <2>3, <3>1, <3>2, NamedNames
      <3> QED  BY <3>1, <3>3
    <2> HIDE DEF d
    <2> QED  BY <1>1, <2>1, <2>4, LayersNames
  <1>7. NamesWithin(s6, G6)
    <2> DEFINE f == <<"norm.weight", "norm.bias", "dense.weight", "dense.bias", "out.weight", "out.bias">>
    <2>1. f \in Seq(Word) /\ Len(f) = 6
          /\ f[1] = "norm.weight" /\ f[2] = "norm.bias" /\ f[3] = "dense.weight"
          /\ f[4] = "dense.bias" /\ f[5] = "out.weight" /\ f[6] = "out.bias"
      BY DEF Word
    <2>2. \A i, j \in 1..Len(f) : f[i] = f[j] => i = j
      BY <2>1
    <2> HIDE DEF f
    <2>3. Len(f) > 0 /\ "scorer" \in Word
      BY <2>1, GroupWords
    <2> HIDE DEF e, d, s1, s2, s3, s4, s5, s6, G1, G2, G3, G4, G5, G6
    <2>4. NamesWithin(Named("scorer", 0, f), {<<"scorer", 0>>})
      BY <2>1, <2>2, <2>3, ScalarNames
    <2> QED  BY <2>4 DEF f, s6, G6
  <1>8. ordered(c) = ((((s1 \o s2) \o s3) \o s4) \o s5) \o s6
    BY DEF ordered
  <1>9. /\ G1 \cap G2 = {} /\ (G1 \cup G2) \cap G3 = {} /\ (G1 \cup G2 \cup G3) \cap G4 = {}
        /\ (G1 \cup G2 \cup G3 \cup G4) \cap G5 = {}
        /\ (G1 \cup G2 \cup G3 \cup G4 \cup G5) \cap G6 = {}
    OBVIOUS
  <1>10. G1 \cup G2 \cup G3 \cup G4 \cup G5 \cup G6 \subseteq Grouped
    BY <1>1 DEF Grouped
  <1> HIDE DEF s1, s2, s3, s4, s5, s6, G1, G2, G3, G4, G5, G6
  <1>11. NamesWithin(s1 \o s2, G1 \cup G2)
    BY <1>2, <1>3, <1>9, NamesJoin
  <1>12. NamesWithin((s1 \o s2) \o s3, G1 \cup G2 \cup G3)
    BY <1>4, <1>9, <1>11, NamesJoin
  <1>13. NamesWithin(((s1 \o s2) \o s3) \o s4, G1 \cup G2 \cup G3 \cup G4)
    BY <1>5, <1>9, <1>12, NamesJoin
  <1>14. NamesWithin((((s1 \o s2) \o s3) \o s4) \o s5, G1 \cup G2 \cup G3 \cup G4 \cup G5)
    BY <1>6, <1>9, <1>13, NamesJoin
  <1>15. NamesWithin(((((s1 \o s2) \o s3) \o s4) \o s5) \o s6, G1 \cup G2 \cup G3 \cup G4 \cup G5 \cup G6)
    BY <1>7, <1>9, <1>14, NamesJoin
  <1> QED  BY <1>8, <1>10, <1>15, NamesWiden

\* No upstream tensor is the source of two.
LEMMA UpstreamApart ==
    ASSUME NEW p \in Word \X Nat \X Word, NEW q \in Word \X Nat \X Word, <<p[1], p[2]>> \in Grouped, <<q[1], q[2]>> \in Grouped,
           Upstream(p) = Upstream(q)
    PROVE  p = q
  <1>1. p = <<p[1], p[2], p[3]>> /\ q = <<q[1], q[2], q[3]>>
    OBVIOUS
  <1>2. /\ p[1] \in {"encoder", "decision"} \/ (p[1] \notin {"encoder", "decision"} /\ p[2] = 0)
        /\ q[1] \in {"encoder", "decision"} \/ (q[1] \notin {"encoder", "decision"} /\ q[2] = 0)
    BY DEF Grouped
  <1>3. /\ Upstream(p)[3] = p[3]
        /\ Upstream(q)[3] = q[3]
    BY DEF Upstream
  <1>4. /\ p[1] = "encoder" => Upstream(p)[1] = "encoder.layers" /\ Upstream(p)[2] = p[2]
        /\ q[1] = "encoder" => Upstream(q)[1] = "encoder.layers" /\ Upstream(q)[2] = q[2]
    BY DEF Upstream
  <1>5. /\ p[1] = "decision" => Upstream(p)[1] = "head.layers" /\ Upstream(p)[2] = p[2]
        /\ q[1] = "decision" => Upstream(q)[1] = "head.layers" /\ Upstream(q)[2] = q[2]
    BY DEF Upstream
  <1>6. /\ p[1] \notin {"encoder", "decision"} => Upstream(p)[1] = "top" /\ Upstream(p)[2] = p[1]
        /\ q[1] \notin {"encoder", "decision"} => Upstream(q)[1] = "top" /\ Upstream(q)[2] = q[1]
    BY DEF Upstream
  <1>7. p[1] = q[1] /\ p[2] = q[2] /\ p[3] = q[3]
    BY <1>2, <1>3, <1>4, <1>5, <1>6
  <1> QED  BY <1>1, <1>7

-----------------------------------------------------------------------------
\* A tensor as it is in a pack of configuration c, and as it is in a checkpoint.
Entries(c) == [name : expected(c), offset : Nat, length : Nat, holds : Contents(c)]
Drafts(c) == [name : expected(c), length : Nat, holds : Contents(c)]

EndOf(e) == IF Len(e) = 0 THEN 0 ELSE e[Len(e)].offset + e[Len(e)].length

\* The first tensors of a pack, each at the end of the last.
Laid(e, f, c) ==
    /\ e \in Seq(Entries(c)) /\ Len(e) <= Len(ordered(c))
    /\ \A i \in 1..Len(e) :
         /\ e[i].name = ordered(c)[i] /\ e[i].length = Stored(shapes(c)[e[i].name], f)
         /\ e[i].offset = (IF i = 1 THEN 0 ELSE e[i - 1].offset + e[i - 1].length)

\* The tensors that follow them.
Remaining(l, e, c) ==
    /\ l \in Seq(Entries(c) \cup Drafts(c)) /\ Len(e) + Len(l) = Len(ordered(c))
    /\ \A j \in 1..Len(l) : l[j].name = ordered(c)[Len(e) + j]

Upstreamed(s) == \A i \in 1..Len(s) : s[i].holds = Upstream(s[i].name)
Checked(s, bad) == \A i \in 1..Len(s) : s[i].holds \notin bad
Synthetic(s) == \A i \in 1..Len(s) : s[i].holds = <<"random", s[i].name>>

\* A pack that a loader accepts, with the tensors of one origin.
SoundPack(p, c, bad) ==
    /\ p \in Packs(c) /\ p.tokenizer = "whole"
    /\ Laid(p.tensors, p.format, c) /\ Len(p.tensors) = Len(ordered(c)) /\ p.total = EndOf(p.tensors)
    /\ (Upstreamed(p.tensors) /\ Checked(p.tensors, bad)) \/ Synthetic(p.tensors)

\* What a process has copied and still has to copy: a bridge checks what it copies, a
\* conversion starts from what was checked or from synthetic weights.
Building(t) ==
    LET done == maker[t].tensors
        left == maker[t].left IN
    /\ Laid(done, Format(t), model) /\ Remaining(left, done, model) /\ maker[t].total = EndOf(done)
    /\ IF work[t].kind = "bridge"
       THEN tokenizer = "whole" /\ Upstreamed(left) /\ Upstreamed(done) /\ Checked(done, defect)
       ELSE \/ Upstreamed(left) /\ Checked(left, defect) /\ Upstreamed(done) /\ Checked(done, defect)
            \/ Synthetic(left) /\ Synthetic(done)

Maker(c) ==
    [at : {"begin", "fetched", "copying", "inputs", "ended"},
     left : Seq(Entries(c) \cup Drafts(c)), tensors : Seq(Entries(c)), total : Nat, seen : 0..MaxTotal,
     why : {Nothing, "exists", "mapping", "tokenizer", "tensor", "killed"}]

\* What is on disk is sound whoever is killed, because a directory gets its name when it is
\* complete; and a process that still writes into one has that directory to itself.
FilesInv ==
    /\ config \in Configs /\ work \in [Process -> Work]
    /\ tokenizer \in {Nothing, "cut", "whole"}
    /\ maker \in [Process -> Maker(model)]
    /\ DOMAIN disk = Directory
    /\ \A d \in Directory : disk[d] # Nothing => SoundPack(disk[d], model, defect) /\ disk[d].inputs <= 3
    /\ \A t \in Process :
         /\ maker[t].at \in {"begin", "fetched"} => maker[t].tensors = <<>> /\ maker[t].total = 0
         /\ maker[t].at = "fetched" => work[t].kind = "bridge"
         /\ maker[t].at = "copying" => Building(t)
         /\ maker[t].at = "inputs" =>
              /\ disk[Out(t)] # Nothing /\ disk[Out(t)].inputs <= 2
              /\ \A u \in Process : maker[u].at = "inputs" /\ Out(u) = Out(t) => u = t
-----------------------------------------------------------------------------
\* The model translated from a configuration is one of those assumed about, and writes tensors.
LEMMA ModelIsConfig ==
    ASSUME config \in Configs
    PROVE  model \in Config /\ Nothing \notin Packs(model)
  BY FilesAssumption, NothingAssumption DEF model, Translated, Config

\* The loader's names as a sequence and as a set.
LEMMA OrderedExpected ==
    ASSUME NEW c \in Config
    PROVE  /\ ordered(c) \in Seq(expected(c)) /\ Len(ordered(c)) \in Nat \ {0}
           /\ DOMAIN ordered(c) = 1..Len(ordered(c))
           /\ expected(c) \subseteq Word \X Nat \X Word
           /\ \A n \in expected(c) : <<n[1], n[2]>> \in Grouped
           /\ \A i \in 1..Len(ordered(c)) : ordered(c)[i] \in expected(c)
           /\ \A n \in expected(c) : \E i \in 1..Len(ordered(c)) : n = ordered(c)[i]
  <1> DEFINE s == ordered(c)
  <1>1. /\ s \in Seq(Word \X Nat \X Word) /\ Len(s) > 0
        /\ \A i \in 1..Len(s) : <<s[i][1], s[i][2]>> \in Grouped
    BY OrderedNames DEF NamesWithin
  <1>2. expected(c) = {s[i] : i \in 1..Len(s)} /\ DOMAIN s = 1..Len(s)
    BY <1>1 DEF expected, ToSet
  <1> HIDE DEF s
  <1>3. s \in Seq(expected(c))
    <2>1. \A i \in 1..Len(s) : s[i] \in expected(c)
      BY <1>2
    <2>2. s = [i \in 1..Len(s) |-> s[i]] /\ Len(s) \in Nat
      BY <1>1
    <2> QED  BY <2>1, <2>2
  <1>4. \A i \in 1..Len(s) : s[i] \in Word \X Nat \X Word
    BY <1>1
  <1> QED  BY <1>1, <1>2, <1>3, <1>4 DEF s

\* A tensor takes a number of bytes.
LEMMA StoredIsNumber ==
    ASSUME NEW c \in Config, NEW n \in expected(c), NEW f
    PROVE  Stored(shapes(c)[n], f) \in Nat /\ 4 * Numbers(shapes(c)[n]) \in Nat
  <1> DEFINE h == c.hidden
  <1>1. h \in Nat /\ h * h \in Nat
    BY DEF Config
  <1>2. shapes(c)[n] = IF n[3] \in Matrices THEN <<h, h>> ELSE <<h>>
    BY DEF shapes
  <1>3. CASE n[3] \in Matrices
    <2>1. Numbers(shapes(c)[n]) = h * h /\ shapes(c)[n][1] = h
      BY <1>2, <1>3 DEF Numbers
    <2> HIDE DEF h
    <2>2. 4 * (h * h) \in Nat /\ (h * h) + 4 * h \in Nat
      BY <1>1
    <2> QED  BY <2>1, <2>2 DEF Stored
  <1>4. CASE n[3] \notin Matrices
    <2>1. Numbers(shapes(c)[n]) = h /\ Len(shapes(c)[n]) = 1
      BY <1>2, <1>4 DEF Numbers
    <2> HIDE DEF h
    <2> QED  BY <1>1, <2>1 DEF Stored
  <1> QED  BY <1>3, <1>4

\* What is converted is one tensor for each of the loader's names.
LEMMA TensorsRemain ==
    ASSUME NEW c \in Config, NEW content, \A n \in expected(c) : content[n] \in Contents(c)
    PROVE  /\ Remaining(Tensors(c, content), <<>>, c)
           /\ \A i \in 1..Len(Tensors(c, content)) :
                /\ Tensors(c, content)[i].name \in expected(c)
                /\ Tensors(c, content)[i].holds = content[Tensors(c, content)[i].name]
  <1> DEFINE O == ordered(c)
             m == Len(O)
             s == Tensors(c, content)
             draft(i) == [name |-> O[i], length |-> 4 * Numbers(shapes(c)[O[i]]), holds |-> content[O[i]]]
  <1>1. m \in Nat /\ \A i \in 1..m : O[i] \in expected(c)
    BY OrderedExpected
  <1>2. s = [i \in 1..m |-> draft(i)]
    BY OrderedExpected DEF Tensors
  <1>3. \A i \in 1..m : draft(i) \in Drafts(c)
    BY <1>1, StoredIsNumber DEF Drafts
  <1>4. \A i \in 1..m : s[i] = draft(i)
    BY <1>2
  <1>5. \A i \in 1..m : draft(i).name = O[i] /\ draft(i).holds = content[O[i]]
    OBVIOUS
  <1> HIDE DEF s, m, draft
  <1>6. s \in Seq(Entries(c) \cup Drafts(c)) /\ Len(s) = m
    <2>1. s = [i \in 1..m |-> s[i]] /\ \A i \in 1..m : s[i] \in Entries(c) \cup Drafts(c)
      BY <1>2, <1>3, <1>4
    <2> QED  BY <1>1, <2>1
  <1>7. Len(<<>>) = 0 /\ \A j \in 1..m : 0 + j = j
    OBVIOUS
  <1>8. Remaining(s, <<>>, c)
    BY <1>1, <1>4, <1>5, <1>6, <1>7 DEF Remaining, m
  <1> QED  BY <1>1, <1>4, <1>5, <1>6, <1>8 DEF s

\* Nothing has been copied at first.
LEMMA EmptyLaid ==
    ASSUME NEW f, NEW c \in Config
    PROVE  /\ Laid(<<>>, f, c) /\ EndOf(<<>>) = 0
           /\ Upstreamed(<<>>) /\ Synthetic(<<>>) /\ \A bad : Checked(<<>>, bad)
  <1>1. Len(<<>>) = 0 /\ 1..0 = {} /\ <<>> \in Seq(Entries(c)) /\ Len(ordered(c)) \in Nat
    BY OrderedExpected
  <1> QED  BY <1>1 DEF Laid, EndOf, Upstreamed, Synthetic, Checked

\* The next tensor is placed at the end.
LEMMA NextLaid ==
    ASSUME NEW c \in Config, NEW f, NEW e, NEW l, Laid(e, f, c), Remaining(l, e, c), l # <<>>,
           NEW x, x = [name |-> Head(l).name, offset |-> EndOf(e),
                       length |-> Stored(shapes(c)[Head(l).name], f), holds |-> Head(l).holds]
    PROVE  /\ Laid(Append(e, x), f, c) /\ Remaining(Tail(l), Append(e, x), c)
           /\ EndOf(Append(e, x)) = EndOf(e) + x.length /\ x.length \in Nat /\ EndOf(e) \in Nat
           /\ Head(l) = l[1] /\ Head(l) \in Entries(c) \cup Drafts(c) /\ 1 \in 1..Len(l)
           /\ Len(Tail(l)) = Len(l) - 1 /\ Len(l) \in Nat
           /\ \A j \in 1..Len(Tail(l)) : Tail(l)[j] = l[j + 1] /\ j + 1 \in 1..Len(l)
           /\ Len(Append(e, x)) = Len(e) + 1 /\ Len(e) \in Nat
           /\ \A i \in 1..Len(e) : Append(e, x)[i] = e[i]
           /\ Append(e, x)[Len(e) + 1] = x
  <1> DEFINE O == ordered(c)
             n == Len(e)
             E == Entries(c)
             D == Entries(c) \cup Drafts(c)
             g == Append(e, x)
             r == Tail(l)
  <1>1. e \in Seq(E) /\ l \in Seq(D) /\ n \in Nat /\ Len(l) \in Nat /\ n + Len(l) = Len(O) /\ Len(l) > 0
    <2>1. e \in Seq(E) /\ l \in Seq(D) /\ n + Len(l) = Len(O)
      BY DEF Laid, Remaining
    <2> HIDE DEF E, D
    <2> QED  BY <2>1
  <1>2. /\ Head(l) = l[1] /\ Head(l) \in D /\ 1 \in 1..Len(l)
        /\ r \in Seq(D) /\ Len(r) = Len(l) - 1
        /\ \A j \in 1..Len(r) : r[j] = l[j + 1] /\ j + 1 \in 1..Len(l)
    <2> HIDE DEF D
    <2> QED  BY <1>1
  <1>3. Head(l).name = O[n + 1] /\ Head(l).name \in expected(c) /\ Head(l).holds \in Contents(c)
    <2>1. l[1].name = O[n + 1]
      BY <1>2 DEF Remaining
    <2> QED  BY <1>2, <2>1 DEF Entries, Drafts
  <1>4. EndOf(e) \in Nat
    <2>1. CASE n = 0
      BY <2>1 DEF EndOf
    <2>2. CASE n > 0
      <3>1. e[n] \in E
        <4> HIDE DEF E
        <4> QED  BY <1>1, <2>2
      <3>2. e[n].offset \in Nat /\ e[n].length \in Nat
        BY <3>1 DEF Entries
      <3> QED  BY <2>2, <3>2 DEF EndOf
    <2> QED  BY <1>1, <2>1, <2>2
  <1>5. x.length \in Nat /\ x \in E
    <2>1. Stored(shapes(c)[Head(l).name], f) \in Nat
      BY <1>3, StoredIsNumber
    <2> QED  BY <1>3, <1>4, <2>1 DEF Entries
  <1>6. g \in Seq(E) /\ Len(g) = n + 1 /\ (\A i \in 1..n : g[i] = e[i]) /\ g[n + 1] = x
    <2> HIDE DEF E
    <2> QED  BY <1>1, <1>5
  <1>7. EndOf(g) = EndOf(e) + x.length
    <2>1. EndOf(g) = g[n + 1].offset + g[n + 1].length
      BY <1>1, <1>6 DEF EndOf
    <2>2. x.offset = EndOf(e)
      OBVIOUS
    <2> QED  BY <1>6, <2>1, <2>2
  <1>8. Laid(g, f, c)
    <2>1. Len(g) <= Len(O)
      BY <1>1, <1>6
    <2>2. ASSUME NEW i \in 1..(n + 1)
          PROVE  /\ g[i].name = O[i] /\ g[i].length = Stored(shapes(c)[g[i].name], f)
                 /\ g[i].offset = IF i = 1 THEN 0 ELSE g[i - 1].offset + g[i - 1].length
      <3>1. CASE i \in 1..n
        <4>1. g[i] = e[i] /\ (i # 1 => i - 1 \in 1..n /\ g[i - 1] = e[i - 1])
          BY <1>1, <1>6, <3>1
        <4>2. /\ e[i].name = O[i] /\ e[i].length = Stored(shapes(c)[e[i].name], f)
              /\ e[i].offset = IF i = 1 THEN 0 ELSE e[i - 1].offset + e[i - 1].length
          BY <3>1 DEF Laid
        <4> QED  BY <4>1, <4>2
      <3>2. CASE i = n + 1
        <4>1. x.name = O[n + 1] /\ x.length = Stored(shapes(c)[x.name], f) /\ x.offset = EndOf(e)
          BY <1>3
        <4>2. EndOf(e) = IF n + 1 = 1 THEN 0 ELSE g[n].offset + g[n].length
          <5>1. n # 0 => n \in 1..n /\ g[n] = e[n]
            BY <1>1, <1>6
          <5> QED  BY <1>1, <5>1 DEF EndOf
        <4>3. (n + 1) - 1 = n
          BY <1>1
        <4> HIDE DEF n, g
        <4> QED  BY <1>6, <3>2, <4>1, <4>2, <4>3
      <3> QED  BY <1>1, <3>1, <3>2
    <2> HIDE DEF g
    <2>3. 1..Len(g) = 1..(n + 1)
      BY <1>6
    <2> QED  BY <1>6, <2>1, <2>2, <2>3 DEF Laid
  <1>9. Remaining(r, g, c)
    <2>1. Len(g) + Len(r) = Len(O)
      BY <1>1, <1>2, <1>6
    <2>2. ASSUME NEW j \in 1..Len(r) PROVE r[j].name = O[Len(g) + j]
      <3>1. l[j + 1].name = O[n + (j + 1)]
        BY <1>2 DEF Remaining
      <3>2. n + (j + 1) = Len(g) + j
        BY <1>1, <1>2, <1>6
      <3> QED  BY <1>2, <3>1, <3>2
    <2> HIDE DEF g, r
    <2> QED  BY <1>2, <2>1, <2>2 DEF Remaining
  <1> QED  BY <1>1, <1>2, <1>4, <1>5, <1>6, <1>7, <1>8, <1>9

\* Copying moves what is held.
LEMMA NextHolds ==
    ASSUME NEW c \in Config, NEW f, NEW e, NEW l, Laid(e, f, c), Remaining(l, e, c), l # <<>>,
           NEW x, x = [name |-> Head(l).name, offset |-> EndOf(e),
                       length |-> Stored(shapes(c)[Head(l).name], f), holds |-> Head(l).holds]
    PROVE  /\ Upstreamed(l) => Upstreamed(Tail(l)) /\ (Upstreamed(e) => Upstreamed(Append(e, x)))
           /\ Synthetic(l) => Synthetic(Tail(l)) /\ (Synthetic(e) => Synthetic(Append(e, x)))
           /\ \A bad : /\ Checked(l, bad) => Checked(Tail(l), bad) /\ Head(l).holds \notin bad
                       /\ Checked(e, bad) /\ Head(l).holds \notin bad => Checked(Append(e, x), bad)
  <1> DEFINE n == Len(e)
             g == Append(e, x)
             r == Tail(l)
  <1>1. /\ Head(l) = l[1] /\ 1 \in 1..Len(l) /\ n \in Nat /\ Len(g) = n + 1
        /\ \A j \in 1..Len(r) : r[j] = l[j + 1] /\ j + 1 \in 1..Len(l)
        /\ \A i \in 1..n : g[i] = e[i]
        /\ g[n + 1] = x
    BY NextLaid
  <1>2. x.name = l[1].name /\ x.holds = l[1].holds
    BY <1>1
  <1> HIDE DEF g, r, n
  <1>3. \A i \in 1..Len(g) : i \in 1..n \/ i = n + 1
    BY <1>1
  <1>4. Upstreamed(l) => Upstreamed(r) /\ (Upstreamed(e) => Upstreamed(g))
    BY <1>1, <1>2, <1>3 DEF Upstreamed, n
  <1>5. Synthetic(l) => Synthetic(r) /\ (Synthetic(e) => Synthetic(g))
    BY <1>1, <1>2, <1>3 DEF Synthetic, n
  <1>6. ASSUME NEW bad
        PROVE  /\ Checked(l, bad) => Checked(r, bad) /\ Head(l).holds \notin bad
               /\ Checked(e, bad) /\ Head(l).holds \notin bad => Checked(g, bad)
    BY <1>1, <1>2, <1>3 DEF Checked, n
  <1> QED  BY <1>4, <1>5, <1>6 DEF g, r

-----------------------------------------------------------------------------
\* A process goes on, and at most the directory it fills changes.
LEMMA OneMoves ==
    ASSUME FilesInv, NEW t \in Process, NEW m \in Maker(model),
           config' = config, defect' = defect, work' = work,
           tokenizer' \in {Nothing, "cut", "whole"}, tokenizer = "whole" => tokenizer' = "whole",
           maker' = [maker EXCEPT ![t] = m],
           m.at \in {"begin", "fetched"} => m.tensors = <<>> /\ m.total = 0,
           m.at = "fetched" => work[t].kind = "bridge",
           m.at = "copying" => Building(t)',
           DOMAIN disk' = Directory,
           \A d \in Directory \ {Out(t)} : disk'[d] = disk[d],
           disk'[Out(t)] # Nothing => SoundPack(disk'[Out(t)], model, defect) /\ disk'[Out(t)].inputs <= 3,
           m.at = "inputs" => disk'[Out(t)] # Nothing /\ disk'[Out(t)].inputs <= 2,
           \A u \in Process \ {t} : maker[u].at = "inputs" /\ Out(u) = Out(t) =>
             disk'[Out(t)] = disk[Out(t)] /\ m.at # "inputs"
    PROVE  FilesInv'
  <1>1. model' = model /\ \A u : Out(u)' = Out(u) /\ work[u]' = work[u]
    BY DEF model, Translated, Out
  <1>2. maker \in [Process -> Maker(model)] /\ work \in [Process -> Work] /\ config \in Configs
    BY DEF FilesInv
  <1>3. maker' \in [Process -> Maker(model)] /\ maker'[t] = m /\ \A u \in Process \ {t} : maker'[u] = maker[u]
    BY <1>2
  <1>4. \A u \in Process : Out(u) \in Directory
    BY <1>2 DEF Out, Work
  <1>5. \A d \in Directory : disk'[d] # Nothing => SoundPack(disk'[d], model', defect') /\ disk'[d].inputs <= 3
    BY <1>1 DEF FilesInv
  <1>6. ASSUME NEW u \in Process \ {t}
        PROVE  /\ maker'[u].at \in {"begin", "fetched"} => maker'[u].tensors = <<>> /\ maker'[u].total = 0
               /\ maker'[u].at = "fetched" => work'[u].kind = "bridge"
               /\ maker'[u].at = "copying" => Building(u)'
    <2>1. maker'[u] = maker[u]
      BY <1>3
    <2>2. maker[u].at = "copying" => Building(u)
      BY DEF FilesInv
    <2>3. Building(u) => Building(u)'
      BY <1>1, <2>1 DEF Building, Format
    <2> QED  BY <2>1, <2>2, <2>3 DEF FilesInv
  <1>7. ASSUME NEW u \in Process \ {t}, maker'[u].at = "inputs"
        PROVE  /\ disk'[Out(u)] # Nothing /\ disk'[Out(u)].inputs <= 2
               /\ \A v \in Process : maker'[v].at = "inputs" /\ Out(v) = Out(u) => v = u
    <2>1. maker[u].at = "inputs"
      BY <1>3, <1>7
    <2>2. /\ disk[Out(u)] # Nothing /\ disk[Out(u)].inputs <= 2
          /\ \A v \in Process : maker[v].at = "inputs" /\ Out(v) = Out(u) => v = u
      BY <2>1 DEF FilesInv
    <2>3. disk'[Out(u)] = disk[Out(u)]
      BY <1>4, <2>1
    <2>4. \A v \in Process \ {t} : maker'[v].at = maker[v].at
      BY <1>3
    <2>5. maker'[t].at = "inputs" => Out(t) # Out(u)
      BY <1>3, <2>1
    <2> QED  BY <2>2, <2>3, <2>4, <2>5
  <1>8. ASSUME maker'[t].at = "inputs"
        PROVE  \A v \in Process : maker'[v].at = "inputs" /\ Out(v) = Out(t) => v = t
    BY <1>3, <1>8
  <1>9. ASSUME NEW u \in Process
        PROVE  /\ maker'[u].at \in {"begin", "fetched"} => maker'[u].tensors = <<>> /\ maker'[u].total = 0
               /\ maker'[u].at = "fetched" => work'[u].kind = "bridge"
               /\ maker'[u].at = "copying" => Building(u)'
               /\ maker'[u].at = "inputs" =>
                    /\ disk'[Out(u)'] # Nothing /\ disk'[Out(u)'].inputs <= 2
                    /\ \A v \in Process : maker'[v].at = "inputs" /\ Out(v)' = Out(u)' => v = u
    <2>1. CASE u = t
      BY <1>1, <1>3, <1>8, <2>1
    <2>2. CASE u # t
      BY <1>1, <1>6, <1>7, <2>2
    <2> QED  BY <2>1, <2>2
  <1>10. config' \in Configs /\ work' \in [Process -> Work] /\ maker' \in [Process -> Maker(model')]
    BY <1>1, <1>2, <1>3
  <1> QED  BY <1>5, <1>9, <1>10 DEF FilesInv

\* A process that ends changes nothing else.
LEMMA EndsMoves ==
    ASSUME FilesInv, NEW t \in Process,
           NEW why \in {Nothing, "exists", "mapping", "tokenizer", "tensor", "killed"}, Ends(t, why),
           config' = config, defect' = defect, work' = work,
           tokenizer' \in {Nothing, "cut", "whole"}, tokenizer = "whole" => tokenizer' = "whole",
           DOMAIN disk' = Directory,
           \A d \in Directory \ {Out(t)} : disk'[d] = disk[d],
           disk'[Out(t)] # Nothing => SoundPack(disk'[Out(t)], model, defect) /\ disk'[Out(t)].inputs <= 3,
           \A u \in Process \ {t} : maker[u].at = "inputs" /\ Out(u) = Out(t) => disk'[Out(t)] = disk[Out(t)]
    PROVE  FilesInv'
  <1> DEFINE m == [maker[t] EXCEPT !.at = "ended", !.why = why]
  <1>1. maker \in [Process -> Maker(model)] /\ maker[t] \in Maker(model)
    BY DEF FilesInv
  <1>2. m \in Maker(model) /\ m.at = "ended"
    BY <1>1 DEF Maker
  <1>3. maker' = [maker EXCEPT ![t] = m]
    BY <1>1 DEF Ends
  <1> HIDE DEF m
  <1> QED  BY <1>2, <1>3, OneMoves

\* What is in a directory that a step leaves alone.
LEMMA DiskKept ==
    ASSUME FilesInv, NEW t \in Process, disk' = disk
    PROVE  /\ DOMAIN disk' = Directory
           /\ \A d \in Directory \ {Out(t)} : disk'[d] = disk[d]
           /\ disk'[Out(t)] # Nothing => SoundPack(disk'[Out(t)], model, defect) /\ disk'[Out(t)].inputs <= 3
           /\ \A u \in Process \ {t} : maker[u].at = "inputs" /\ Out(u) = Out(t) => disk'[Out(t)] = disk[Out(t)]
  <1>1. Out(t) \in Directory
    BY DEF FilesInv, Out, Work
  <1> QED  BY <1>1 DEF FilesInv

\* Before anything ran, the invariant holds of the empty disk.
LEMMA FilesInitially ==
    ASSUME FilesInit
    PROVE  FilesInv
  <1>1. config \in Configs /\ work \in [Process -> Work] /\ model \in Config
    BY FilesAssumption, ModelIsConfig DEF FilesInit
  <1>2. Idle \in Maker(model)
    <2>1. <<>> \in Seq(Entries(model) \cup Drafts(model)) /\ <<>> \in Seq(Entries(model))
      OBVIOUS
    <2> QED  BY <2>1, FilesAssumption DEF Idle, Maker
  <1>3. \A t \in Process : maker[t] = Idle
    BY DEF FilesInit
  <1>4. maker \in [Process -> Maker(model)]
    BY <1>2 DEF FilesInit
  <1>5. Idle.at = "begin" /\ Idle.tensors = <<>> /\ Idle.total = 0
    BY DEF Idle
  <1>6. DOMAIN disk = Directory /\ \A d \in Directory : disk[d] = Nothing
    BY DEF FilesInit
  <1>7. tokenizer = Nothing
    BY DEF FilesInit
  <1> QED  BY <1>1, <1>3, <1>4, <1>5, <1>6, <1>7 DEF FilesInv

\* Downloading the tokenizer: the file is missing, cut or whole afterwards, and no pack moved.
LEMMA DownloadsKeeps ==
    ASSUME FilesInv, NEW t \in Process, DownloadsTokenizer(t)
    PROVE  FilesInv'
  <1>1. /\ config' = config /\ defect' = defect /\ work' = work /\ disk' = disk
        /\ work[t].kind = "bridge" /\ maker[t].at = "begin"
    BY DEF DownloadsTokenizer
  <1>2. maker \in [Process -> Maker(model)] /\ tokenizer \in {Nothing, "cut", "whole"}
        /\ maker[t].tensors = <<>> /\ maker[t].total = 0
    BY <1>1 DEF FilesInv
  <1>3. CASE /\ tokenizer' = (IF tokenizer = Nothing THEN "whole" ELSE tokenizer)
             /\ maker' = [maker EXCEPT ![t].at = "fetched"]
    <2> DEFINE m == [maker[t] EXCEPT !.at = "fetched"]
    <2>1. m \in Maker(model) /\ m.at = "fetched" /\ m.tensors = <<>> /\ m.total = 0
      BY <1>2 DEF Maker
    <2>2. maker' = [maker EXCEPT ![t] = m]
      BY <1>2, <1>3
    <2>3. tokenizer' \in {Nothing, "cut", "whole"} /\ (tokenizer = "whole" => tokenizer' = "whole")
      BY <1>2, <1>3
    <2> HIDE DEF m
    <2> QED  BY <1>1, <2>1, <2>2, <2>3, DiskKept, OneMoves
  <1>4. CASE tokenizer = Nothing /\ tokenizer' = "cut" /\ Ends(t, "killed")
    BY <1>1, <1>4, DiskKept, EndsMoves, NothingAssumption
  <1> QED  BY <1>3, <1>4 DEF DownloadsTokenizer

\* A process starts to copy: nothing is done, and what is left is of one origin.
LEMMA BeginsCopying ==
    ASSUME FilesInv, NEW t \in Process, NEW m \in Maker(model), maker[t].at \in {"begin", "fetched"},
           config' = config, defect' = defect, work' = work, tokenizer' = tokenizer, disk' = disk,
           maker' = [maker EXCEPT ![t] = m],
           m.at = "copying", m.tensors = maker[t].tensors, m.total = maker[t].total,
           Remaining(m.left, <<>>, model),
           work[t].kind = "bridge" => tokenizer = "whole" /\ Upstreamed(m.left),
           work[t].kind # "bridge" => (Upstreamed(m.left) /\ Checked(m.left, defect)) \/ Synthetic(m.left)
    PROVE  FilesInv'
  <1>1. maker \in [Process -> Maker(model)] /\ maker[t].tensors = <<>> /\ maker[t].total = 0
        /\ config \in Configs /\ tokenizer \in {Nothing, "cut", "whole"}
    BY DEF FilesInv
  <1>2. maker'[t] = m
    BY <1>1
  <1>3. model' = model /\ model \in Config
    BY <1>1, ModelIsConfig DEF model, Translated
  <1>4. /\ Laid(<<>>, Format(t)', model) /\ EndOf(<<>>) = 0
        /\ Upstreamed(<<>>) /\ Synthetic(<<>>) /\ Checked(<<>>, defect)
    BY <1>3, EmptyLaid
  <1>5. Building(t)'
    BY <1>1, <1>2, <1>3, <1>4 DEF Building
  <1> QED  BY <1>1, <1>5, DiskKept, OneMoves

\* What is left becomes a field of the process.
LEMMA BeginsRecord ==
    ASSUME FilesInv, NEW t \in Process, NEW left, Remaining(left, <<>>, model)
    PROVE  LET m == [maker[t] EXCEPT !.at = "copying", !.left = left] IN
           /\ m \in Maker(model) /\ m.at = "copying" /\ m.left = left
           /\ m.tensors = maker[t].tensors /\ m.total = maker[t].total
           /\ [maker EXCEPT ![t].at = "copying", ![t].left = left] = [maker EXCEPT ![t] = m]
  <1>1. maker[t] \in Maker(model) /\ maker \in [Process -> Maker(model)]
    BY DEF FilesInv
  <1>2. left \in Seq(Entries(model) \cup Drafts(model))
    BY DEF Remaining
  <1> QED  BY <1>1, <1>2 DEF Maker

\* An export that begins to copy has every upstream tensor to copy, in the order of the names.
LEMMA BeginsExportKeeps ==
    ASSUME FilesInv, NEW t \in Process, BeginsExport(t)
    PROVE  FilesInv'
  <1>1. /\ config' = config /\ defect' = defect /\ work' = work /\ disk' = disk /\ tokenizer' = tokenizer
        /\ maker[t].at = "fetched"
    BY DEF BeginsExport
  <1>2. work[t].kind = "bridge" /\ tokenizer \in {Nothing, "cut", "whole"} /\ config \in Configs
    BY <1>1 DEF FilesInv
  <1>3. CASE Ends(t, "exists") \/ Ends(t, "mapping") \/ Ends(t, "tokenizer")
    BY <1>1, <1>2, <1>3, DiskKept, EndsMoves
  <1>4. CASE /\ Mapped(model) /\ Parses
             /\ maker' = [maker EXCEPT ![t].at = "copying", ![t].left = Tensors(model, build_mapping(model))]
    <2> DEFINE content == build_mapping(model)
               left == Tensors(model, content)
    <2>1. \A n \in expected(model) : content[n] = Upstream(n)
      BY <1>4 DEF Mapped, build_mapping
    <2>2. \A n \in expected(model) : content[n] \in Contents(model)
      BY <2>1 DEF Contents
    <2>3. model \in Config
      BY <1>2, ModelIsConfig
    <2> HIDE DEF content
    <2>4. Remaining(left, <<>>, model)
          /\ \A i \in 1..Len(left) : left[i].name \in expected(model) /\ left[i].holds = content[left[i].name]
      BY <2>2, <2>3, TensorsRemain
    <2> HIDE DEF left
    <2>5. Upstreamed(left)
      BY <2>1, <2>4 DEF Upstreamed
    <2>6. tokenizer = "whole"
      BY <1>4 DEF Parses
    <2> DEFINE m == [maker[t] EXCEPT !.at = "copying", !.left = left]
    <2>7. /\ m \in Maker(model) /\ m.at = "copying" /\ m.left = left
          /\ m.tensors = maker[t].tensors /\ m.total = maker[t].total
          /\ [maker EXCEPT ![t].at = "copying", ![t].left = left] = [maker EXCEPT ![t] = m]
      BY <2>4, BeginsRecord
    <2>8. maker' = [maker EXCEPT ![t] = m]
      BY <1>4, <2>7 DEF left, content
    <2> HIDE DEF m
    <2>9. maker[t].at \in {"begin", "fetched"} /\ work[t].kind = "bridge"
      BY <1>1, <1>2
    <2>10. /\ work[t].kind = "bridge" => tokenizer = "whole" /\ Upstreamed(left)
           /\ work[t].kind # "bridge" => (Upstreamed(left) /\ Checked(left, defect)) \/ Synthetic(left)
      BY <2>5, <2>6, <2>9
    <2>11. /\ Remaining(m.left, <<>>, model)
           /\ work[t].kind = "bridge" => tokenizer = "whole" /\ Upstreamed(m.left)
           /\ work[t].kind # "bridge" => (Upstreamed(m.left) /\ Checked(m.left, defect)) \/ Synthetic(m.left)
      BY <2>4, <2>7, <2>10
    <2>12. m \in Maker(model) /\ m.at = "copying" /\ m.tensors = maker[t].tensors /\ m.total = maker[t].total
      BY <2>7
    <2> QED  BY <1>1, <2>8, <2>9, <2>11, <2>12, BeginsCopying
  <1> QED  BY <1>3, <1>4 DEF BeginsExport

\* A quantization copies the tensors of a pack that is whole, or random ones under every name.
LEMMA BeginsQuantizeKeeps ==
    ASSUME FilesInv, NEW t \in Process, BeginsQuantize(t)
    PROVE  FilesInv'
  <1> DEFINE source == work[t].source
             random == Tensors(model, [n \in expected(model) |-> <<"random", n>>])
             copied == disk[source].tensors
  <1>1. /\ config' = config /\ defect' = defect /\ work' = work /\ disk' = disk /\ tokenizer' = tokenizer
        /\ maker[t].at = "begin" /\ work[t].kind # "bridge"
        /\ source # Nothing => disk[source] # Nothing
    BY DEF BeginsQuantize
  <1>2. /\ tokenizer \in {Nothing, "cut", "whole"} /\ config \in Configs
        /\ source \in Directory \cup {Nothing}
    BY DEF FilesInv, Work
  <1>3. model \in Config
    BY <1>2, ModelIsConfig
  <1>4. CASE Ends(t, "exists")
    BY <1>1, <1>2, <1>4, DiskKept, EndsMoves
  <1>5. CASE source = Nothing /\ maker' = [maker EXCEPT ![t].at = "copying", ![t].left = random]
    <2> DEFINE content == [n \in expected(model) |-> <<"random", n>>]
    <2>1. \A n \in expected(model) : content[n] = <<"random", n>> /\ content[n] \in Contents(model)
      BY DEF Contents
    <2>2. random = Tensors(model, content)
      OBVIOUS
    <2> HIDE DEF content, random
    <2>3. Remaining(random, <<>>, model)
          /\ \A i \in 1..Len(random) : random[i].name \in expected(model) /\ random[i].holds = content[random[i].name]
      BY <1>3, <2>1, <2>2, TensorsRemain
    <2>4. Synthetic(random)
      BY <2>1, <2>3 DEF Synthetic
    <2> DEFINE m == [maker[t] EXCEPT !.at = "copying", !.left = random]
    <2>5. /\ m \in Maker(model) /\ m.at = "copying" /\ m.left = random
          /\ m.tensors = maker[t].tensors /\ m.total = maker[t].total
          /\ [maker EXCEPT ![t].at = "copying", ![t].left = random] = [maker EXCEPT ![t] = m]
      BY <2>3, BeginsRecord
    <2>6. maker' = [maker EXCEPT ![t] = m] /\ maker[t].at \in {"begin", "fetched"}
      BY <1>1, <1>5, <2>5
    <2> HIDE DEF m
    <2>7. /\ work[t].kind = "bridge" => tokenizer = "whole" /\ Upstreamed(random)
          /\ work[t].kind # "bridge" => (Upstreamed(random) /\ Checked(random, defect)) \/ Synthetic(random)
      BY <1>1, <2>4
    <2> QED  BY <1>1, <2>3, <2>6, <2>7, <2>5, BeginsCopying
  <1>6. CASE source # Nothing /\ maker' = [maker EXCEPT ![t].at = "copying", ![t].left = copied]
    <2>1. SoundPack(disk[source], model, defect)
      BY <1>1, <1>2, <1>6 DEF FilesInv
    <2> HIDE DEF copied
    <2>2. /\ Laid(copied, disk[source].format, model) /\ Len(copied) = Len(ordered(model))
          /\ (Upstreamed(copied) /\ Checked(copied, defect)) \/ Synthetic(copied)
      BY <2>1 DEF SoundPack, copied
    <2>3. Remaining(copied, <<>>, model)
      <3>1. copied \in Seq(Entries(model)) /\ \A i \in 1..Len(copied) : copied[i].name = ordered(model)[i]
        BY <2>2 DEF Laid
      <3>2. copied \in Seq(Entries(model) \cup Drafts(model)) /\ Len(copied) \in Nat
        BY <3>1
      <3>3. Len(<<>>) = 0 /\ \A j \in 1..Len(copied) : 0 + j = j
        OBVIOUS
      <3>4. 0 + Len(copied) = Len(ordered(model))
        BY <2>2, <3>2
      <3> QED  BY <3>1, <3>2, <3>3, <3>4 DEF Remaining
    <2> DEFINE m == [maker[t] EXCEPT !.at = "copying", !.left = copied]
    <2>4. /\ m \in Maker(model) /\ m.at = "copying" /\ m.left = copied
          /\ m.tensors = maker[t].tensors /\ m.total = maker[t].total
          /\ [maker EXCEPT ![t].at = "copying", ![t].left = copied] = [maker EXCEPT ![t] = m]
      BY <2>3, BeginsRecord
    <2>5. maker' = [maker EXCEPT ![t] = m] /\ maker[t].at \in {"begin", "fetched"}
      BY <1>1, <1>6, <2>4
    <2> HIDE DEF m
    <2>6. /\ work[t].kind = "bridge" => tokenizer = "whole" /\ Upstreamed(copied)
          /\ work[t].kind # "bridge" => (Upstreamed(copied) /\ Checked(copied, defect)) \/ Synthetic(copied)
      BY <1>1, <2>2
    <2> QED  BY <1>1, <2>3, <2>5, <2>6, <2>4, BeginsCopying
  <1> QED  BY <1>4, <1>5, <1>6 DEF BeginsQuantize

\* Copying a tensor: it goes to the end of the last, in the length of its format, if it is sound.
LEMMA CopiesKeeps ==
    ASSUME FilesInv, NEW t \in Process, CopiesTensor(t)
    PROVE  FilesInv'
  <1> DEFINE l == maker[t].left
             e == maker[t].tensors
             f == Format(t)
             x == [name |-> Head(l).name, offset |-> EndOf(e),
                   length |-> Stored(shapes(model)[Head(l).name], f), holds |-> Head(l).holds]
             m == [maker[t] EXCEPT !.left = Tail(l), !.tensors = Append(e, x),
                                   !.total = maker[t].total + x.length,
                                   !.seen = maker[t].seen + Head(l).length]
  <1>1. /\ config' = config /\ defect' = defect /\ work' = work /\ disk' = disk /\ tokenizer' = tokenizer
        /\ maker[t].at = "copying" /\ l # <<>>
    BY DEF CopiesTensor
  <1>2. /\ maker \in [Process -> Maker(model)] /\ tokenizer \in {Nothing, "cut", "whole"}
        /\ config \in Configs /\ Building(t)
    BY <1>1 DEF FilesInv
  <1>3. model \in Config /\ model' = model /\ Format(t)' = f
    BY <1>1, <1>2, ModelIsConfig DEF model, Translated, Format
  <1>4. Laid(e, f, model) /\ Remaining(l, e, model) /\ maker[t].total = EndOf(e)
    BY <1>2 DEF Building
  <1>5. CASE Ends(t, "tensor")
    BY <1>1, <1>2, <1>5, DiskKept, EndsMoves
  <1>6. CASE /\ Sound(t, Head(l)) /\ Fits(t, Head(l))
             /\ maker' = [maker EXCEPT
                  ![t].left = Tail(@),
                  ![t].tensors = Append(@, [name |-> Head(l).name, offset |-> Place(t),
                                            length |-> Stored(shapes(model)[Head(l).name], f),
                                            holds |-> Head(l).holds]),
                  ![t].total = @ + Stored(shapes(model)[Head(l).name], f),
                  ![t].seen = @ + Head(l).length]
    <2>1. Place(t) = EndOf(e)
      BY <1>4 DEF Place
    <2>2. maker' = [maker EXCEPT ![t] = m]
      BY <1>2, <1>6, <2>1
    <2> HIDE DEF l, e, f, x
    <2>3. /\ Laid(Append(e, x), f, model) /\ Remaining(Tail(l), Append(e, x), model)
          /\ EndOf(Append(e, x)) = EndOf(e) + x.length /\ x.length \in Nat /\ EndOf(e) \in Nat
          /\ Head(l) \in Entries(model) \cup Drafts(model)
      BY <1>1, <1>3, <1>4, NextLaid DEF x
    <2>4. m \in Maker(model) /\ m.at = "copying"
      <3>1. Tail(l) \in Seq(Entries(model) \cup Drafts(model)) /\ Append(e, x) \in Seq(Entries(model))
        BY <2>3 DEF Laid, Remaining
      <3>2. maker[t].total + x.length \in Nat
        BY <1>4, <2>3
      <3>3. Head(l).length \in Nat /\ maker[t].seen \in 0..MaxTotal
        BY <1>2, <2>3 DEF Maker, Entries, Drafts
      <3>4. maker[t].seen + Head(l).length \in 0..MaxTotal
        BY <1>6, <3>3, FilesAssumption DEF Fits
      <3> QED  BY <1>1, <1>2, <3>1, <3>2, <3>4 DEF Maker
    <2>5. /\ m.left = Tail(l) /\ m.tensors = Append(e, x) /\ m.total = EndOf(Append(e, x))
      BY <1>2, <1>4, <2>3 DEF Maker
    <2>6. Building(t)'
      <3>1. maker'[t] = m
        BY <1>2, <2>2
      <3> HIDE DEF m
      <3>2. /\ Laid(m.tensors, Format(t)', model') /\ Remaining(m.left, m.tensors, model')
            /\ m.total = EndOf(m.tensors)
        BY <1>3, <2>3, <2>5
      <3>3. /\ Upstreamed(l) => Upstreamed(m.left) /\ (Upstreamed(e) => Upstreamed(m.tensors))
            /\ Synthetic(l) => Synthetic(m.left) /\ (Synthetic(e) => Synthetic(m.tensors))
            /\ Checked(l, defect) => Checked(m.left, defect) /\ Head(l).holds \notin defect
            /\ Checked(e, defect) /\ Head(l).holds \notin defect => Checked(m.tensors, defect)
        BY <1>1, <1>3, <1>4, <2>5, NextHolds DEF x
      <3>4. CASE work[t].kind = "bridge"
        <4>1. tokenizer = "whole" /\ Upstreamed(l) /\ Upstreamed(e) /\ Checked(e, defect)
          BY <1>2, <3>4 DEF Building, l, e
        <4>2. Head(l).holds \notin defect
          BY <1>6, <3>4 DEF Sound
        <4> QED  BY <1>1, <3>1, <3>2, <3>3, <3>4, <4>1, <4>2 DEF Building
      <3>5. CASE work[t].kind # "bridge"
        <4>1. \/ Upstreamed(l) /\ Checked(l, defect) /\ Upstreamed(e) /\ Checked(e, defect)
              \/ Synthetic(l) /\ Synthetic(e)
          BY <1>2, <3>5 DEF Building, l, e
        <4> QED  BY <1>1, <3>1, <3>2, <3>3, <3>5, <4>1 DEF Building
      <3> QED  BY <3>4, <3>5
    <2> HIDE DEF m
    <2> QED  BY <1>1, <1>2, <2>2, <2>4, <2>6, DiskKept, OneMoves
  <1> QED  BY <1>1, <1>5, <1>6 DEF CopiesTensor

\* A complete pack gets its name only if the directory is free.
LEMMA RenamesKeeps ==
    ASSUME FilesInv, NEW t \in Process, RenamesPack(t)
    PROVE  FilesInv'
  <1> DEFINE e == maker[t].tensors
             l == maker[t].left
             f == Format(t)
             p == [format |-> f, tensors |-> e, total |-> maker[t].total,
                   tokenizer |-> IF work[t].kind = "bridge" THEN tokenizer ELSE "whole", inputs |-> 0]
             m == [maker[t] EXCEPT !.at = "inputs"]
  <1>1. /\ config' = config /\ defect' = defect /\ work' = work /\ tokenizer' = tokenizer
        /\ maker[t].at = "copying" /\ l = <<>>
    BY DEF RenamesPack
  <1>2. /\ maker \in [Process -> Maker(model)] /\ tokenizer \in {Nothing, "cut", "whole"}
        /\ config \in Configs /\ Building(t) /\ DOMAIN disk = Directory /\ Out(t) \in Directory
    BY <1>1 DEF FilesInv, Out, Work
  <1>3. model \in Config /\ Nothing \notin Packs(model)
    BY <1>2, ModelIsConfig
  <1>4. CASE ~Free(Out(t))
    BY <1>1, <1>2, <1>4, DiskKept, EndsMoves DEF RenamesPack
  <1>5. CASE Free(Out(t))
    <2>1. disk' = [disk EXCEPT ![Out(t)] = p]
      BY <1>5 DEF RenamesPack
    <2>2. SoundPack(p, model, defect)
      <3>1. Laid(e, f, model) /\ Remaining(l, e, model) /\ maker[t].total = EndOf(e)
        BY <1>2 DEF Building
      <3>2. Len(e) = Len(ordered(model)) /\ e \in Seq(Entries(model)) /\ Len(e) \in Nat
        <4>1. Len(l) = 0
          BY <1>1
        <4>2. Len(e) + Len(l) = Len(ordered(model)) /\ e \in Seq(Entries(model))
          BY <3>1 DEF Remaining, Laid
        <4>3. Len(e) \in Nat
          BY <4>2
        <4> QED  BY <4>1, <4>2, <4>3
      <3>3. p.tokenizer = "whole"
        BY <1>2 DEF Building
      <3>4. (Upstreamed(e) /\ Checked(e, defect)) \/ Synthetic(e)
        BY <1>2 DEF Building
      <3>5. maker[t].total \in Nat /\ f \in {"f32", "int8"}
        BY <1>2 DEF Maker, Format
      <3>6. p.format = f /\ p.tensors = e /\ p.total = maker[t].total /\ p.inputs = 0
        OBVIOUS
      <3>7. p \in Packs(model)
        <4> HIDE DEF e, f
        <4> QED  BY <3>2, <3>3, <3>5 DEF Packs, Entries
      <3> HIDE DEF p, e, f, l
      <3> QED  BY <3>1, <3>2, <3>3, <3>4, <3>6, <3>7 DEF SoundPack
    <2>3. p.inputs = 0 /\ p # Nothing
      BY <1>3, <2>2 DEF SoundPack
    <2> HIDE DEF p
    <2>4. /\ DOMAIN disk' = Directory /\ disk'[Out(t)] = p
          /\ \A d \in Directory \ {Out(t)} : disk'[d] = disk[d]
      BY <1>2, <2>1
    <2>5. \A u \in Process \ {t} : maker[u].at = "inputs" => Out(u) # Out(t)
      BY <1>5 DEF FilesInv, Free
    <2>6. CASE work[t].kind = "tier"
      <3>1. m \in Maker(model) /\ m.at = "inputs"
        BY <1>2 DEF Maker
      <3>2. maker' = [maker EXCEPT ![t] = m]
        BY <1>2, <1>5, <2>6 DEF RenamesPack
      <3> HIDE DEF m
      <3>3. /\ disk'[Out(t)] # Nothing => SoundPack(disk'[Out(t)], model, defect) /\ disk'[Out(t)].inputs <= 3
            /\ disk'[Out(t)] # Nothing /\ disk'[Out(t)].inputs <= 2
            /\ tokenizer' \in {Nothing, "cut", "whole"} /\ (tokenizer = "whole" => tokenizer' = "whole")
        BY <1>1, <1>2, <2>2, <2>3, <2>4
      <3> QED  BY <1>1, <2>4, <2>5, <3>1, <3>2, <3>3, OneMoves
    <2>7. CASE work[t].kind # "tier"
      <3>1. Ends(t, Nothing)
        BY <1>5, <2>7 DEF RenamesPack
      <3> QED  BY <1>1, <1>2, <2>2, <2>3, <2>4, <2>5, <3>1, EndsMoves
    <2> QED  BY <2>6, <2>7
  <1> QED  BY <1>4, <1>5

\* The inputs are written into a pack that no other process writes into.
LEMMA WritesKeeps ==
    ASSUME FilesInv, NEW t \in Process, WritesInput(t)
    PROVE  FilesInv'
  <1> DEFINE p == disk[Out(t)]
             q == [p EXCEPT !.inputs = @ + 1]
  <1>1. /\ config' = config /\ defect' = defect /\ work' = work /\ tokenizer' = tokenizer
        /\ maker[t].at = "inputs" /\ disk' = [disk EXCEPT ![Out(t)] = q]
    BY DEF WritesInput
  <1>2. /\ maker \in [Process -> Maker(model)] /\ tokenizer \in {Nothing, "cut", "whole"}
        /\ config \in Configs /\ DOMAIN disk = Directory /\ Out(t) \in Directory
        /\ p # Nothing /\ p.inputs <= 2
        /\ \A u \in Process : maker[u].at = "inputs" /\ Out(u) = Out(t) => u = t
    BY <1>1 DEF FilesInv, Out, Work
  <1>3. Nothing \notin Packs(model)
    BY <1>2, ModelIsConfig
  <1>4. SoundPack(p, model, defect)
    BY <1>2 DEF FilesInv
  <1>5. /\ q \in Packs(model) /\ q.inputs = p.inputs + 1 /\ p.inputs \in Nat
        /\ q.format = p.format /\ q.tensors = p.tensors /\ q.total = p.total /\ q.tokenizer = p.tokenizer
    <2>1. p \in Packs(model)
      BY <1>4 DEF SoundPack
    <2> HIDE DEF p
    <2> QED  BY <2>1 DEF Packs
  <1> HIDE DEF p, q
  <1>6. SoundPack(q, model, defect) /\ q # Nothing /\ q.inputs <= 3
    BY <1>2, <1>3, <1>4, <1>5 DEF SoundPack
  <1>7. /\ DOMAIN disk' = Directory /\ disk'[Out(t)] = q
        /\ \A d \in Directory \ {Out(t)} : disk'[d] = disk[d]
    BY <1>1, <1>2
  <1>8. CASE p.inputs = 2
    <2>1. Ends(t, Nothing)
      BY <1>8 DEF WritesInput, p
    <2> QED  BY <1>1, <1>2, <1>6, <1>7, <2>1, EndsMoves
  <1>9. CASE p.inputs # 2
    <2>1. maker' = maker
      BY <1>9 DEF WritesInput, p
    <2>2. maker' = [maker EXCEPT ![t] = maker[t]] /\ maker[t] \in Maker(model)
      BY <1>2, <2>1
    <2>3. q.inputs <= 2
      BY <1>2, <1>5, <1>9
    <2>4. \A u \in Process \ {t} : ~(maker[u].at = "inputs" /\ Out(u) = Out(t))
      BY <1>2
    <2> QED  BY <1>1, <1>2, <1>6, <1>7, <2>2, <2>3, <2>4, OneMoves
  <1> QED  BY <1>8, <1>9

\* A maker that is killed ends, and the disk stays as it was.
LEMMA KilledKeeps ==
    ASSUME FilesInv, NEW t \in Process, Killed(t)
    PROVE  FilesInv'
  <1>1. /\ config' = config /\ defect' = defect /\ work' = work /\ tokenizer' = tokenizer /\ disk' = disk
        /\ Ends(t, "killed") /\ tokenizer \in {Nothing, "cut", "whole"}
    BY DEF Killed, FilesInv
  <1> QED  BY <1>1, DiskKept, EndsMoves

\* Every step of any maker keeps the invariant.
LEMMA FilesStep ==
    ASSUME FilesInv, [FilesNext]_filesVars
    PROVE  FilesInv'
  <1>1. ASSUME NEW t \in Process, MakerNext(t) PROVE FilesInv'
    BY <1>1, DownloadsKeeps, BeginsExportKeeps, BeginsQuantizeKeeps, CopiesKeeps, RenamesKeeps,
       WritesKeeps, KilledKeeps DEF MakerNext
  <1>2. ASSUME UNCHANGED filesVars PROVE FilesInv'
    <2>1. /\ config' = config /\ defect' = defect /\ work' = work /\ tokenizer' = tokenizer
          /\ disk' = disk /\ maker' = maker /\ model' = model
      BY <1>2 DEF filesVars, model, Translated
    <2>2. \A t : Out(t)' = Out(t) /\ (Building(t) => Building(t)')
      BY <2>1 DEF Building, Out, Format
    <2> QED  BY <2>1, <2>2 DEF FilesInv
  <1> QED  BY <1>1, <1>2 DEF FilesNext

\* FilesInv holds of every behaviour of the tools.
THEOREM FilesInvariant == FilesSpec => []FilesInv
  <1>1. FilesInit => FilesInv
    BY FilesInitially
  <1>2. FilesInv /\ [FilesNext]_filesVars => FilesInv'
    BY FilesStep
  <1> QED  BY <1>1, <1>2, PTL DEF FilesSpec

\* What the invariant says of the types.
LEMMA FilesTypes == FilesInv => FilesTypeOK
  <1> SUFFICES ASSUME FilesInv PROVE FilesTypeOK
    OBVIOUS
  <1>1. \A d \in Directory : disk[d] # Nothing => disk[d] \in Packs(model) /\ disk[d].inputs <= 3
    BY DEF FilesInv, SoundPack
  <1>2. \A d \in Directory :
          disk[d] # Nothing => disk[d].format \in {"f32", "int8"} /\ disk[d].inputs \in 0..3
    BY <1>1 DEF Packs
  <1>3. \A t \in Process : maker[t] \in Maker(model)
    BY DEF FilesInv
  <1>4. \A t \in Process :
          /\ maker[t].at \in {"begin", "fetched", "copying", "inputs", "ended"}
          /\ maker[t].why \in {Nothing, "exists", "mapping", "tokenizer", "tensor", "killed"}
          /\ maker[t].seen \in 0..MaxTotal
    BY <1>3 DEF Maker
  <1> QED  BY <1>2, <1>4 DEF FilesTypeOK, FilesInv

\* The types of what the tools leave behind.
THEOREM FilesTypeCorrect == FilesSpec => []FilesTypeOK
  BY FilesTypes, FilesInvariant, PTL

\* PacksAreSound: what a loader finds under a name is a whole pack, each tensor of the loader
\* once and at the end of the last, and each of them holds the sound upstream tensor of its own
\* or its own synthetic one, whichever tools ran at once, were killed or converted it.
THEOREM PacksSound == FilesSpec => []PacksAreSound
  <1>1. ASSUME FilesInv PROVE PacksAreSound
    <2> SUFFICES ASSUME NEW d \in Directory, disk[d] # Nothing
                 PROVE  LET entry == disk[d].tensors IN
                        /\ Len(entry) = Len(ordered(model)) /\ {entry[i].name : i \in DOMAIN entry} = expected(model)
                        /\ \A i \in DOMAIN entry :
                             /\ entry[i].offset = (IF i = 1 THEN 0 ELSE entry[i - 1].offset + entry[i - 1].length)
                             /\ entry[i].length = Stored(shapes(model)[entry[i].name], disk[d].format)
                        /\ disk[d].total = entry[Len(entry)].offset + entry[Len(entry)].length
                        /\ disk[d].tokenizer = "whole"
                        /\ \/ \A i \in DOMAIN entry :
                                entry[i].holds = Upstream(entry[i].name) /\ entry[i].holds \notin defect
                           \/ \A i \in DOMAIN entry : entry[i].holds = <<"random", entry[i].name>>
                        /\ \A i, j \in DOMAIN entry : entry[i].holds = entry[j].holds => i = j
      BY DEF PacksAreSound, PacksAreWhole, WeightsAreInPlace
    <2> DEFINE e == disk[d].tensors
               O == ordered(model)
    <2>1. SoundPack(disk[d], model, defect) /\ model \in Config
      BY <1>1, ModelIsConfig DEF FilesInv
    <2>2. /\ Laid(e, disk[d].format, model) /\ Len(e) = Len(O) /\ disk[d].total = EndOf(e)
          /\ disk[d].tokenizer = "whole"
          /\ (Upstreamed(e) /\ Checked(e, defect)) \/ Synthetic(e)
      BY <2>1 DEF SoundPack
    <2> HIDE DEF e, O
    <2>3. e \in Seq(Entries(model)) /\ DOMAIN e = 1..Len(e) /\ Len(e) \in Nat \ {0}
      <3>1. e \in Seq(Entries(model))
        BY <2>2 DEF Laid
      <3>2. Len(O) \in Nat \ {0}
        BY <2>1, OrderedExpected DEF O
      <3> QED  BY <2>2, <3>1, <3>2
    <2>4. \A i \in 1..Len(e) :
            /\ e[i].name = O[i] /\ e[i].length = Stored(shapes(model)[e[i].name], disk[d].format)
            /\ e[i].offset = (IF i = 1 THEN 0 ELSE e[i - 1].offset + e[i - 1].length)
      BY <2>2 DEF Laid, O
    <2>5. /\ expected(model) \subseteq Word \X Nat \X Word
          /\ \A n \in expected(model) : <<n[1], n[2]>> \in Grouped
          /\ \A i \in 1..Len(O) : O[i] \in expected(model)
          /\ \A n \in expected(model) : \E i \in 1..Len(O) : n = O[i]
      BY <2>1, OrderedExpected DEF O
    <2>6. \A i, j \in 1..Len(O) : O[i] = O[j] => i = j
      BY <2>1, OrderedNames DEF O, NamesWithin
    <2>7. {e[i].name : i \in DOMAIN e} = expected(model)
      BY <2>2, <2>3, <2>4, <2>5
    <2>8. disk[d].total = e[Len(e)].offset + e[Len(e)].length
      BY <2>2, <2>3 DEF EndOf
    <2>9. \/ \A i \in DOMAIN e : e[i].holds = Upstream(e[i].name) /\ e[i].holds \notin defect
          \/ \A i \in DOMAIN e : e[i].holds = <<"random", e[i].name>>
      BY <2>2, <2>3 DEF Upstreamed, Checked, Synthetic
    <2>10. ASSUME NEW i \in DOMAIN e, NEW j \in DOMAIN e, e[i].holds = e[j].holds PROVE i = j
      <3>1. /\ e[i].name = O[i] /\ e[j].name = O[j] /\ i \in 1..Len(O) /\ j \in 1..Len(O)
            /\ e[i].name \in expected(model) /\ e[j].name \in expected(model)
        BY <2>2, <2>3, <2>4, <2>5
      <3>2. CASE \A k \in DOMAIN e : e[k].holds = Upstream(e[k].name) /\ e[k].holds \notin defect
        <4>1. Upstream(e[i].name) = Upstream(e[j].name)
          BY <2>10, <3>2
        <4>2. e[i].name = e[j].name
          BY <2>5, <3>1, <4>1, UpstreamApart
        <4> QED  BY <2>6, <3>1, <4>2
      <3>3. CASE \A k \in DOMAIN e : e[k].holds = <<"random", e[k].name>>
        <4>1. <<"random", e[i].name>> = <<"random", e[j].name>>
          BY <2>10, <3>3
        <4>2. e[i].name = e[j].name
          BY <4>1
        <4> QED  BY <2>6, <3>1, <4>2
      <3> QED  BY <2>9, <3>2, <3>3
    <2>11. Len(e) = Len(ordered(model))
      BY <2>2 DEF O
    <2> QED  BY <2>2, <2>3, <2>4, <2>7, <2>8, <2>9, <2>10, <2>11 DEF e
  <1> QED  BY <1>1, FilesInvariant, PTL

-----------------------------------------------------------------------------
(***************************************************************************)
(* The components side by side, as they are model-checked.                 *)
(***************************************************************************)

\* The component that runs keeps its invariant, the others their types.
ApartInv ==
    /\ CallsInv /\ QueryTypeOK /\ FilesTypeOK /\ TriageTypeOK
    /\ live = "query" => SessionInv
    /\ live = "files" => FilesInv
    /\ live = "triage" => TriageInv

\* What is at rest has its types.
LEMMA RestTypes ==
    /\ QueryAtRest => QueryTypeOK
    /\ FilesAtRest => FilesTypeOK
    /\ TriageAtRest => TriageTypeOK
  <1>1. ASSUME QueryAtRest PROVE QueryTypeOK
    <2>1. asked \in Asked /\ hot = Unset
      BY <1>1, RestAssumption DEF QueryAtRest
    <2> DEFINE progress == [done |-> TRUE, completed |-> 32, total |-> 32, bundle |-> Benchmarked, by |-> {Benchmarked}]
    <2>2. progress \in Continuation /\ progress.completed = 32 /\ progress.total = 32
      BY SessionAssumption DEF Continuation
    <2>3. session = [progress |-> progress, cap |-> 16, bundle |-> Benchmarked, steps |-> 1]
      BY <1>1 DEF QueryAtRest
    <2> HIDE DEF progress
    <2>4. session.progress.completed \in 0..session.progress.total
      BY <2>2, <2>3
    <2>5. session \in [progress : Continuation \cup {Unset}, cap : 1..16, bundle : Bundle \cup {Unset}, steps : 1..16]
      BY <2>2, <2>3, SessionAssumption
    <2>6. call \in [at : {"idle", "calling", "raised", "invalid"}, attempts : 0..Retries, failed : Nat, refused : 2..17]
      BY <1>1, SessionAssumption DEF QueryAtRest
    <2> QED  BY <2>1, <2>4, <2>5, <2>6 DEF QueryTypeOK
  <1>2. ASSUME FilesAtRest PROVE FilesTypeOK
    <2>1. \A t \in Process : maker[t] = [Idle EXCEPT !.at = "ended"]
      BY <1>2 DEF FilesAtRest
    <2> QED  BY <1>2, <2>1, FilesAssumption DEF FilesAtRest, FilesTypeOK, Idle
  <1>3. ASSUME TriageAtRest PROVE TriageTypeOK
    BY <1>3, RestAssumption DEF TriageAtRest, TriageTypeOK, NoAdvice
  <1> QED  BY <1>1, <1>2, <1>3

\* Every step is one of the component that runs.
LEMMA ApartStep == ApartInv /\ [ApartNext]_apartVars => ApartInv'
  <1> SUFFICES ASSUME ApartInv, [ApartNext]_apartVars PROVE ApartInv'
    OBVIOUS
  <1>1. live' = live
    BY DEF ApartNext, apartVars
  <1>2. [CallsNext]_callsVars /\ [live = "query" /\ QueryNext]_queryVars
        /\ [live = "files" /\ FilesNext]_filesVars /\ [live = "triage" /\ TriageNext]_triageVars
    BY DEF ApartNext, apartVars
  <1>3. CallsInv'
    BY <1>2, CallsStepHolds DEF ApartInv
  <1>4. QueryTypeOK' /\ (live = "query" => SessionInv')
    <2>1. CASE live = "query"
      <3>1. SessionInv'
        BY <1>2, <2>1, StartInv, FailsInv, AnsweredInv, OwnerInv, StutterInv DEF ApartInv, QueryNext, SessionStep
      <3> QED  BY <3>1 DEF SessionInv
    <2>2. CASE live # "query"
      BY <1>2, <2>2 DEF ApartInv, queryVars, QueryTypeOK, beginning
    <2> QED  BY <2>1, <2>2
  <1>5. FilesTypeOK' /\ (live = "files" => FilesInv')
    <2>1. CASE live = "files"
      <3>1. FilesInv'
        BY <1>2, <2>1, FilesStep DEF ApartInv
      <3>2. FilesInv' => FilesTypeOK'
        BY FilesTypes, PTL
      <3> QED  BY <3>1, <3>2
    <2>2. CASE live # "files"
      BY <1>2, <2>2 DEF ApartInv, filesVars, FilesTypeOK
    <2> QED  BY <2>1, <2>2
  <1>6. TriageTypeOK' /\ (live = "triage" => TriageInv')
    <2>1. CASE live = "triage"
      <3>1. TriageInv'
        BY <1>2, <2>1, TriageStepHolds DEF ApartInv
      <3>2. TriageInv' => TriageTypeOK'
        BY TriageTypes, PTL
      <3> QED  BY <3>1, <3>2
    <2>2. CASE live # "triage"
      BY <1>2, <2>2 DEF ApartInv, triageVars, TriageTypeOK
    <2> QED  BY <2>1, <2>2
  <1> QED  BY <1>1, <1>3, <1>4, <1>5, <1>6 DEF ApartInv

\* Ledger, session, makers and triage keep their types, whichever of them runs.
THEOREM ApartTypesCorrect == ApartSpec => []TypesOK
  <1>1. ApartInit => ApartInv
    <2> SUFFICES ASSUME ApartInit PROVE ApartInv
      OBVIOUS
    <2>1. CallsInv
      BY CallsInitHolds DEF ApartInit
    <2>2. QueryTypeOK /\ (live = "query" => SessionInv)
      BY InitInv, RestTypes DEF ApartInit, SessionInv
    <2>3. FilesTypeOK /\ (live = "files" => FilesInv)
      BY FilesInitially, FilesTypes, RestTypes DEF ApartInit
    <2>4. TriageTypeOK /\ (live = "triage" => TriageInv)
      BY TriageInitially, TriageTypes, RestTypes DEF ApartInit
    <2> QED  BY <2>1, <2>2, <2>3, <2>4 DEF ApartInv
  <1>2. ApartInv => TypesOK
    BY DEF ApartInv, CallsInv, LedgerInv, TypesOK
  <1> QED  BY <1>1, <1>2, ApartStep, PTL DEF ApartSpec
=============================================================================
