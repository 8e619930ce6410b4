------------------------- MODULE HarnessPromotions -------------------------
(***************************************************************************)
(* Champion and challengers of one agent harness: scenarios derived from   *)
(* the estate, offline evaluations, rollback drills, and the promotions    *)
(* one person proposes and another decides (immune_system.py, migrations   *)
(* 059 and 062).                                                           *)
(*                                                                         *)
(* The gate is computed when a promotion is proposed, the champion's       *)
(* version is read after it, and the promotion inserted after that, in     *)
(* transactions of their own; deciding it looks at the promotion alone.    *)
(* The feature flags are on: switched off, they only refuse scenarios,     *)
(* evaluations and proposals.                                              *)
(***************************************************************************)
EXTENDS Integers, FiniteSets

CONSTANTS
    Actors,          \* people who propose and decide
    Versions,        \* versions of the harness
    Scenarios,       \* adversarial scenarios the estate may supply
    ClassOf,         \* the scenario_class of each
    MaxWatermark,    \* bound: watermarks of the estate
    MaxEvaluations,  \* bound: rows of harness_evaluation
    MaxPromotions    \* bound: rows of harness_promotion

EvaluationRows == 1 .. MaxEvaluations
PromotionRows == 1 .. MaxPromotions
Nobody == "nobody"
NoVersion == "no version"
NoEvaluation == 0
NoPromotion == 0
NotDerived == 0
ASSUME HarnessAssumption ==
    /\ MaxEvaluations \in Nat /\ MaxPromotions \in Nat /\ MaxWatermark \in Nat
    /\ NoVersion \notin Versions /\ Nobody \notin Actors

VARIABLES
    derived,     \* adversarial_scenario: the watermark each was first derived at
    evaluation,  \* harness_evaluation, by id, with its results; what is not passed has failed or
                 \* is inconclusive
    vouched,     \* evaluations begun before a ROLLBACK drill that passed
    desk,        \* the proposal whose gate was computed, the outcome, and the champion's version
                 \* once that is read; bound: one at a time
    promotion,   \* harness_promotion, by id; of a REFUSED one only the status
    champion     \* harness_champion

harnessVars == <<derived, evaluation, vouched, desk, promotion, champion>>

NotBegun == [status |-> "NONE", version |-> NoVersion, selected |-> {}, passed |-> {}, failed |-> {}]
NotProposed == [status |-> "NONE", version |-> NoVersion, incumbent |-> NoVersion,
                evaluation |-> NoEvaluation, by |-> Nobody]
Refusal == [NotProposed EXCEPT !.status = "REFUSED"]
NoChampion == [version |-> NoVersion, previous |-> NoVersion, promotion |-> NoPromotion]
NoProposal == [pc |-> "none", by |-> Nobody, evaluation |-> NoEvaluation, clear |-> FALSE,
               incumbent |-> NoVersion]
\* Rows are taken in order.
NextEvaluation(e) == \A d \in EvaluationRows : evaluation[d].status = "NONE" <=> d >= e
NextPromotion(i) == \A j \in PromotionRows : promotion[j].status = "NONE" <=> j >= i
Derived == {s \in Scenarios : derived[s] # NotDerived}

-----------------------------------------------------------------------------
(* Scenarios, evaluations and drills.                                      *)

\* _persist_candidates: a scenario derived again keeps its row and its watermark.
DeriveScenario(s, watermark) ==
    /\ s \notin Derived
    /\ \A other \in Derived : derived[other] <= watermark
    /\ derived' = [derived EXCEPT ![s] = watermark]
    /\ UNCHANGED <<evaluation, vouched, desk, promotion, champion>>

\* start_harness_evaluation: scenarios of one watermark
StartEvaluation(e, v, selected) ==
    /\ NextEvaluation(e)
    /\ selected # {} /\ selected \subseteq Derived
    /\ \A s, t \in selected : derived[s] = derived[t]
    /\ evaluation' = [evaluation EXCEPT ![e] =
                         [NotBegun EXCEPT !.status = "RUNNING", !.version = v, !.selected = selected]]
    /\ UNCHANGED <<derived, vouched, desk, promotion, champion>>

Recorded(e) == evaluation[e].passed \cup evaluation[e].failed

\* record_harness_evaluation_result
RecordResult(e, s, passed) ==
    /\ evaluation[e].status = "RUNNING"
    /\ s \in evaluation[e].selected \ Recorded(e)
    /\ evaluation' = IF passed THEN [evaluation EXCEPT ![e].passed = @ \cup {s}]
                     ELSE [evaluation EXCEPT ![e].failed = @ \cup {s}]
    /\ UNCHANGED <<derived, vouched, desk, promotion, champion>>

\* complete_harness_evaluation
FinishEvaluation(e, status) ==
    /\ evaluation[e].status = "RUNNING"
    /\ status = "COMPLETED" => Recorded(e) = evaluation[e].selected
    /\ evaluation' = [evaluation EXCEPT ![e].status = status]
    /\ UNCHANGED <<derived, vouched, desk, promotion, champion>>

\* run_agent_control_drill, for a ROLLBACK drill that passes; the others vouch for nothing.
PassRollbackDrill ==
    /\ vouched' = {e \in EvaluationRows : evaluation[e].status # "NONE"}
    /\ UNCHANGED <<derived, evaluation, desk, promotion, champion>>

-----------------------------------------------------------------------------
(* Promotions.                                                             *)

\* Every class that has been derived, and every scenario of the champion's evaluation
Covers(e) ==
    /\ \A s \in Derived : \E t \in evaluation[e].selected : ClassOf[t] = ClassOf[s]
    /\ champion # NoChampion =>
           evaluation[promotion[champion.promotion].evaluation].selected \subseteq evaluation[e].selected

\* Fault: what failed or was inconclusive is not looked at.
GateOfAnswers(e) ==
    /\ evaluation[e].status = "COMPLETED"
    /\ Covers(e)
    /\ champion.version # evaluation[e].version
    /\ e \in vouched

\* _evaluation_gate, for the version the evaluation covers and the newest passed drill
GateClear(e) ==
    /\ evaluation[e].status = "COMPLETED"
    /\ Recorded(e) = evaluation[e].selected
    /\ evaluation[e].failed = {}
    /\ Covers(e)
    /\ champion.version # evaluation[e].version
    /\ e \in vouched

\* propose_harness_promotion computes the gate ...
ProposeGates(a, e) ==
    /\ desk = NoProposal /\ evaluation[e].status # "NONE"
    /\ desk' = [NoProposal EXCEPT !.pc = "gated", !.by = a, !.evaluation = e, !.clear = GateClear(e)]
    /\ UNCHANGED <<derived, evaluation, vouched, promotion, champion>>

\* ... reads the champion's version ...
ProposeReads ==
    /\ desk.pc = "gated"
    /\ desk' = [desk EXCEPT !.pc = "read", !.incumbent = champion.version]
    /\ UNCHANGED <<derived, evaluation, vouched, promotion, champion>>

\* ... and inserts the promotion.
ProposeInserts(i) ==
    /\ desk.pc = "read" /\ NextPromotion(i)
    /\ desk' = NoProposal
    /\ promotion' = [promotion EXCEPT ![i] =
           IF desk.clear
           THEN [status |-> "PENDING", version |-> evaluation[desk.evaluation].version,
                 incumbent |-> desk.incumbent, evaluation |-> desk.evaluation, by |-> desk.by]
           ELSE Refusal]
    /\ UNCHANGED <<derived, evaluation, vouched, champion>>

\* The row of harness_champion after a promotion; its previous_version is what ran before,
\* or the proposal's incumbent when nothing runs.
Installed(i) ==
    [version |-> promotion[i].version, promotion |-> i,
     previous |-> IF champion = NoChampion THEN promotion[i].incumbent ELSE champion.version]

\* decide_harness_promotion; a check of the table refuses a version that replaces itself.
Decide(a, i, decision) ==
    /\ promotion[i].status = "PENDING" /\ promotion[i].by # a
    /\ promotion' = [promotion EXCEPT ![i].status = decision, ![i].by = Nobody]
    /\ IF decision = "PROMOTED"
       THEN Installed(i).version # Installed(i).previous /\ champion' = Installed(i)
       ELSE UNCHANGED champion
    /\ UNCHANGED <<derived, evaluation, vouched, desk>>

Runs(i) == promotion[i].status = "PROMOTED" /\ champion.promotion = i

\* roll_back_harness_promotion
RollBack(i) ==
    /\ Runs(i)
    /\ promotion' = [promotion EXCEPT ![i].status = "ROLLED_BACK"]
    /\ champion' = IF promotion[i].incumbent = NoVersion THEN NoChampion
                   ELSE [champion EXCEPT !.version = promotion[i].incumbent, !.previous = NoVersion]
    /\ UNCHANGED <<derived, evaluation, vouched, desk>>

HarnessInit ==
    /\ derived = [s \in Scenarios |-> NotDerived]
    /\ evaluation = [e \in EvaluationRows |-> NotBegun]
    /\ vouched = {}
    /\ desk = NoProposal
    /\ promotion = [i \in PromotionRows |-> NotProposed]
    /\ champion = NoChampion

HarnessNext ==
    \/ \E s \in Scenarios, w \in 1 .. MaxWatermark : DeriveScenario(s, w)
    \/ \E e \in EvaluationRows :
           \/ \E v \in Versions, selected \in SUBSET Scenarios : StartEvaluation(e, v, selected)
           \/ \E s \in Scenarios, passed \in BOOLEAN : RecordResult(e, s, passed)
           \/ \E status \in {"COMPLETED", "ABANDONED"} : FinishEvaluation(e, status)
           \/ \E a \in Actors : ProposeGates(a, e)
    \/ PassRollbackDrill \/ ProposeReads
    \/ \E i \in PromotionRows :
           \/ ProposeInserts(i)
           \/ \E a \in Actors, decision \in {"PROMOTED", "REJECTED"} : Decide(a, i, decision)
           \/ RollBack(i)

HarnessSpec == HarnessInit /\ [][HarnessNext]_harnessVars
-----------------------------------------------------------------------------
(* Properties.                                                             *)

\* The columns stay within their types.
HarnessTypeOK ==
    /\ derived \in [Scenarios -> 0 .. MaxWatermark]
    /\ evaluation \in [EvaluationRows ->
            [status : {"NONE", "RUNNING", "COMPLETED", "ABANDONED"}, version : Versions \cup {NoVersion},
             selected : SUBSET Scenarios, passed : SUBSET Scenarios, failed : SUBSET Scenarios]]
    /\ vouched \subseteq EvaluationRows
    /\ desk \in [pc : {"none", "gated", "read"}, by : Actors \cup {Nobody},
                 evaluation : EvaluationRows \cup {NoEvaluation}, clear : BOOLEAN,
                 incumbent : Versions \cup {NoVersion}]
    /\ promotion \in [PromotionRows ->
            [status : {"NONE", "PENDING", "PROMOTED", "REJECTED", "ROLLED_BACK", "REFUSED"},
             version : Versions \cup {NoVersion}, incumbent : Versions \cup {NoVersion},
             evaluation : EvaluationRows \cup {NoEvaluation}, by : Actors \cup {Nobody}]]
    /\ champion \in [version : Versions \cup {NoVersion}, previous : Versions \cup {NoVersion},
                     promotion : PromotionRows \cup {NoPromotion}]

\* Migration 062: offline evaluation and rollback are proven.  Whatever runs passed every
\* scenario of a completed evaluation of that very version, which a later drill vouches for:
\* after proposals made on an older gate, decided in any order, and after a rollback.
ChampionIsProven ==
    champion # NoChampion =>
        \E e \in vouched : /\ evaluation[e].version = champion.version
                           /\ evaluation[e].status = "COMPLETED"
                           /\ evaluation[e].passed = evaluation[e].selected

\* Migration 062: a rollback restores what was actually running, the version kept beside the
\* champion, rather than one taken from the promotion's history.
RollbackRestores ==
    [][\A i \in PromotionRows :
           promotion[i].status = "PROMOTED" /\ promotion'[i].status = "ROLLED_BACK" =>
               champion'.version = champion.previous]_harnessVars
=============================================================================
