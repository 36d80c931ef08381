---------------------------- MODULE LearningEvidence ---------------------------
(***************************************************************************)
(* From a finished cycle to trusted knowledge (P47 to P55), the handoff of *)
(* P128 and its composition for an operation (P138, P139). A paper here    *)
(* names the cycle it is about, how that cycle ended, what is said of its  *)
(* outcome, and the verdict of the boundary that issued it.                *)
(***************************************************************************)
EXTENDS Papers

CONSTANTS Completed, Blocked,   \* the cycles that ended, by their last state
          Outcomes,   \* WIN, LOSS, DRAW
          Gains,      \* values of financial_result
          NoGain,     \* financial_result is None
          Reports     \* bound: what callers record and what observations say

ASSUME EvidenceAssumption ==
    /\ NoGain \notin Gains /\ Completed \cap Blocked = {}
    /\ Reports \subseteq [outcome : Outcomes \cup {"UNKNOWN"}, gain : Gains \cup {NoGain}]

Ended == Completed \cup Blocked

CyclePaper(cycle, ending) ==
    [kind |-> "AutomationClosure", id |-> cycle, ending |-> ending,
     outcome |-> "UNKNOWN", gain |-> NoGain, verdict |-> "CLOSED"]

(* AutomationClosureBoundary.close takes the terminal states of P46 only.  *)
CloseAutomation ==
    \E cycle \in Ended :
       Issues({}, CyclePaper(cycle, IF cycle \in Blocked THEN "BLOCKED" ELSE "COMPLETED"))

(* AutomationOutcomeBoundary.record. The instants are the caller's: one
   that precedes the closure is refused, and no paper is made.             *)
Recordable(closure, report) ==
    /\ report.outcome = "UNKNOWN" => report.gain = NoGain
    /\ closure.ending = "BLOCKED" => report.outcome = "UNKNOWN"

OutcomeOf(closure, report) ==
    [Becomes(closure, "AutomationOutcome", "RECORDED")
        EXCEPT !.outcome = report.outcome, !.gain = report.gain]

(* OutcomeReconciliationBoundary.reconcile, for an external observation of
   a cycle; without one the outcome is UNVERIFIED.                         *)
Comparison(outcome, cycle, report) ==
    IF cycle = outcome.id /\ report.outcome = outcome.outcome /\ report.gain = outcome.gain
    THEN "MATCHED" ELSE "MISMATCHED"

(* The reconciliation names the cycle and the state, and nothing else.     *)
ReconciliationOf(outcome, state) ==
    [CyclePaper(outcome.id, "UNKNOWN") EXCEPT !.kind = "OutcomeReconciliation", !.verdict = state]

(* What was recorded of a cycle, and what an observation that agreed with
   it said. A blocked cycle has no outcome to remember.                    *)
Recorded(cycle, report) == {x \in {<<"RECORDED", cycle, report>>} : cycle \notin Blocked}

Observed(state, cycle, report) ==
    {x \in {<<cycle, report>>} : state = "MATCHED" /\ cycle \notin Blocked}

Establishes(findings) == established' = established \cup findings

RecordOutcome ==
    \E closure \in Held("AutomationClosure"), report \in Reports :
       /\ Recordable(closure, report)
       /\ Issue({}, OutcomeOf(closure, report))
       /\ Establishes(Recorded(closure.id, report))

Reconcile ==
    \E outcome \in Held("AutomationOutcome") :
       \/ Issues({}, ReconciliationOf(outcome, "UNVERIFIED"))
       \/ \E cycle \in Ended, report \in Reports :
             LET state == Comparison(outcome, cycle, report) IN
             /\ Issue({}, ReconciliationOf(outcome, state))
             /\ Establishes(Observed(state, cycle, report))

-----------------------------------------------------------------------------

(* Mutant: the reconciliation is not asked which cycle it is about.        *)
ComposableAcross(closure, outcome, reconciliation) ==
    /\ outcome.id = closure.id /\ outcome.ending = closure.ending
    /\ reconciliation.verdict = "MATCHED" => outcome.outcome # "UNKNOWN"

(* AutomationResultSnapshotBoundary.compose                                *)
Composable(closure, outcome, reconciliation) ==
    /\ outcome.id = closure.id /\ reconciliation.id = closure.id
    /\ outcome.ending = closure.ending
    /\ reconciliation.verdict = "MATCHED" => outcome.outcome # "UNKNOWN"

SnapshotOf(outcome, state) == Becomes(outcome, "AutomationResultSnapshot", state)

ComposeSnapshot ==
    \E closure \in Held("AutomationClosure"), outcome \in Held("AutomationOutcome"),
       reconciliation \in Held("OutcomeReconciliation") :
          /\ Composable(closure, outcome, reconciliation)
          /\ Issues({closure, outcome, reconciliation}, SnapshotOf(outcome, reconciliation.verdict))

(* LearningIngestionBoundary.ingest                                        *)
Eligibility(snapshot) == IF snapshot.verdict = "MATCHED" THEN "VERIFIED" ELSE snapshot.verdict

Ingest ==
    \E snapshot \in Held("AutomationResultSnapshot") :
       Issues({snapshot}, Becomes(snapshot, "LearningIngestionRecord", Eligibility(snapshot)))

(* LearningEvidenceBoundary.build                                          *)
BuildEvidence ==
    \E record \in Held("LearningIngestionRecord") :
       /\ record.verdict = "VERIFIED"
       /\ Issues({record}, Becomes(record, "LearningEvidence", "FACTUAL"))

(* OperationLearningHandoffBoundary.build takes a note of the same outcome
   or one of NOT_EXECUTED, and a note has no UNKNOWN; the bridge P138 takes
   the outcome of the snapshot, which is the first of the two.             *)
HandoffOf(snapshot) ==
    Becomes(snapshot, "OperationLearningHandoff",
            IF Eligibility(snapshot) = "VERIFIED" THEN "FACTUAL" ELSE "NO EVIDENCE")

Notes(snapshot) == {"NOT_EXECUTED"} \cup (Outcomes \cap {snapshot.outcome})

HandOff ==
    \E snapshot \in Held("AutomationResultSnapshot") :
       Notes(snapshot) # {} /\ Issues({snapshot}, HandoffOf(snapshot))

(* PostDemoLearningBoundary.process: outcome, reconciliation, snapshot and
   handoff of one closure in one call, which raises as a whole.            *)
LearnFromOperation ==
    \E closure \in Held("AutomationClosure"), report \in Reports :
       /\ Recordable(closure, report) /\ report.outcome \in Outcomes
       /\ LET outcome == OutcomeOf(closure, report)
              HandsOver(state) ==
                 Becomes(HandoffOf(SnapshotOf(outcome, state)), "PostDemoLearningResult",
                         HandoffOf(SnapshotOf(outcome, state)).verdict)
          IN \/ /\ Issue({closure}, HandsOver("UNVERIFIED"))
                /\ Establishes(Recorded(closure.id, report))
             \/ \E cycle \in Ended, seen \in Reports :
                   LET state == Comparison(outcome, cycle, seen) IN
                   /\ Composable(closure, outcome, ReconciliationOf(outcome, state))
                   /\ Issue({closure}, HandsOver(state))
                   /\ Establishes(Recorded(closure.id, report) \cup Observed(state, cycle, seen))

-----------------------------------------------------------------------------

Factual == {x \in papers : x.verdict = "FACTUAL"}

(* LearningHypothesisBoundary.propose keeps the cycle, and not its outcome. *)
HypothesisOf(evidence) ==
    Becomes(CyclePaper(evidence.id, evidence.ending), "LearningHypothesis", "NOT VALIDATED")

ProposeHypothesis ==
    \E evidence \in Factual : Issues({evidence}, HypothesisOf(evidence))

(* LearningValidationBoundary.validate                                     *)
ValidateHypothesis ==
    \E hypothesis \in Held("LearningHypothesis"),
       status \in {"VALIDATED", "REJECTED", "INCONCLUSIVE"} :
          Issues({hypothesis}, Becomes(hypothesis, "LearningValidation", status))

(* TrustedKnowledgeBoundary.promote                                        *)
PromoteKnowledge ==
    \E validation \in Held("LearningValidation") :
       /\ validation.verdict = "VALIDATED"
       /\ Issues({validation}, Becomes(validation, "TrustedKnowledge", "TRUSTED"))

EvidenceNext ==
    \/ CloseAutomation \/ RecordOutcome \/ Reconcile \/ ComposeSnapshot \/ Ingest
    \/ BuildEvidence \/ HandOff \/ LearnFromOperation
    \/ ProposeHypothesis \/ ValidateHypothesis \/ PromoteKnowledge
    \/ Forget

-----------------------------------------------------------------------------

OneOutcome(cycle) ==
    \A r1, r2 \in Reports :
       Recorded(cycle, r1) \cup Recorded(cycle, r2) \subseteq established => r1 = r2

(* Nothing is learned of a cycle that was blocked or that no observation
   from outside agreed with on anything, however the papers are mixed; and
   what a factual paper says, outcome and gain, is what an observation said.
   P139 ensures that by itself. Of papers composed one by one it holds as
   long as one outcome was recorded of the cycle: a reconciliation names
   the cycle and no outcome (p50_automation_result_snapshot.py:34), so
   where a second one was recorded the code takes the agreement with the
   one for an agreement with the other, although only reconciled facts are
   to be eligible (P51_PLAN.md:10).                                        *)
EvidenceIsCorroborated ==
    /\ \A x \in Factual \cup Held("LearningHypothesis") \cup Held("TrustedKnowledge") :
          /\ x.id \notin Blocked
          /\ \E report \in Reports : <<x.id, report>> \in established
    /\ \A x \in Factual :
          x.kind = "PostDemoLearningResult" \/ OneOutcome(x.id) =>
             <<x.id, [outcome |-> x.outcome, gain |-> x.gain]>> \in established
=============================================================================
