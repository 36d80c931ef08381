---------------------------- MODULE KnowledgeGates ----------------------------
(***************************************************************************)
(* From the context of a cycle to knowledge in controlled use (P77 to P95) *)
(* and the validation of an integrated reading (P128). A paper's source is *)
(* the hypothesis it is about; id is the authorization_id from P88 on.     *)
(***************************************************************************)
EXTENDS Papers

(* What AdaptationGates ends with, and what was found out by then.         *)
TakeContext ==
    \E id \in GivenIds :
       /\ Issue({}, Paper("NextCycleContext", id, id, "CREATED"))
       /\ established' = established \cup ({"APPROVED", "ELIGIBLE", "VERIFIED"} \X {id})

AuditContext == Passes("NextCycleContext", {"CREATED"}, "ContextAudit", {"AUDITABLE", "BLOCKED"})

(* HypothesisPreparationBoundary.prepare                                   *)
Auditable(x) == x.verdict = "AUDITABLE"

PrepareHypothesis ==
    \E x \in Held("ContextAudit"), h \in PaperIds :
       /\ Auditable(x)
       /\ Issues({x}, Paper("PreparedHypothesis", h, h, "NOT_VALIDATED"))

AdmitValidation ==
    Passes("PreparedHypothesis", {"NOT_VALIDATED"}, "ValidationAdmission", {"ADMITTED"})

SpecifyValidation ==
    Passes("ValidationAdmission", {"ADMITTED"}, "ValidationSpecification", {"SPECIFIED"})

RecordValidationRun == Passes("ValidationSpecification", {"SPECIFIED"}, "ValidationRun", {"RUN"})

Results == {"POSITIVE", "NEGATIVE", "INCONCLUSIVE"}

ConcludeValidation == Finds("ValidationRun", {"RUN"}, "ValidationResult", Results, "POSITIVE")

(* Mutant: the caller's decision stands.                                   *)
DecisionsAtWill(result) == {"VALIDATED", "REJECTED", "INCONCLUSIVE"}

(* ValidationDecisionBoundary.decide and the one of P110: the decision the
   result calls for, and no other.                                         *)
DecisionsFor(result) ==
    {CASE result = "POSITIVE" -> "VALIDATED"
       [] result = "NEGATIVE" -> "REJECTED"
       [] OTHER -> "INCONCLUSIVE"}

DecideValidation ==
    \E x \in Held("ValidationResult") : \E decision \in DecisionsFor(x.verdict) :
       Issues({x}, Becomes(x, "ValidationDecision", decision))

(* IntegratedLearningValidationBoundary.prepare: P78 to P81 in one call for
   a reading that is SUPPORTED; another makes a candidate without a run.   *)
PrepareCandidate ==
    \E x \in Held("ContextAudit"), h \in PaperIds :
       \/ Auditable(x) /\ Issues({x}, Paper("IntegratedLearningCandidate", h, h, "RUN"))
       \/ Issues({x}, Paper("IntegratedLearningCandidate", h, h, "NO_RUN"))

(* conclude: P82 and P83 in one call.                                      *)
ConcludeCandidate ==
    \E x \in Held("IntegratedLearningCandidate"), result \in Results :
       /\ x.verdict = "RUN"
       /\ \E decision \in DecisionsFor(result) :
             Issue({x}, Becomes(x, "ValidationDecision", decision))
       /\ established' = established \cup {f \in {<<"POSITIVE", x.source>>} : result = "POSITIVE"}

-----------------------------------------------------------------------------

AdmitPromotion ==
    Passes("ValidationDecision", {"VALIDATED"}, "KnowledgePromotionAdmission", {"ADMITTED"})

ReleaseKnowledge ==
    Passes("KnowledgePromotionAdmission", {"ADMITTED"}, "TrustedKnowledgeRelease", {"RELEASED"})

(* KnowledgeReleaseAuditBoundary.audit: what P85 released is complete.     *)
AuditRelease == Passes("TrustedKnowledgeRelease", {"RELEASED"}, "KnowledgeReleaseAudit", {"VERIFIED"})

InterpretKnowledge ==
    Passes("KnowledgeReleaseAudit", {"VERIFIED"}, "ControlledKnowledgeInterpretation", {"INTERPRETED"})

AuthorizeControlledUse ==
    \E x \in Held("ControlledKnowledgeInterpretation"), id \in PaperIds :
       Issues({x}, Paper("ControlledUseAuthorization", id, x.source, "AUTHORIZED"))

CloseGovernance ==
    \E x \in Held("ControlledUseAuthorization") :
       /\ x.verdict = "AUTHORIZED"
       /\ Issue({}, Becomes(x, "KnowledgeGovernanceClosure", "CLOSED"))
       /\ established' = established \cup {<<"CLOSED", x.id>>}

(* The knowledge is that of the authorization, whatever was closed under
   the same authorization_id.                                              *)
RequestUse ==
    \E x \in Held("ControlledUseAuthorization"), closure \in Held("KnowledgeGovernanceClosure") :
       /\ x.verdict = "AUTHORIZED" /\ closure.verdict = "CLOSED" /\ closure.id = x.id
       /\ Issues({x, closure}, Becomes(x, "ControlledKnowledgeUse", "REQUESTED"))

ObserveUse == Passes("ControlledKnowledgeUse", {"REQUESTED"}, "KnowledgeUseObservation", {"SEEN"})

UseEvaluations == {"SUPPORTED", "NOT_SUPPORTED", "INCONCLUSIVE"}

EvaluateUse ==
    Passes("KnowledgeUseObservation", {"SEEN"}, "KnowledgeUseEvaluation", UseEvaluations)

(* KnowledgeUseDispositionBoundary.decide: whatever the evaluation was.    *)
DisposeOfUse ==
    Finds("KnowledgeUseEvaluation", UseEvaluations, "UseDispositionRecord",
          {"RETAIN", "REVIEW", "RETIRE"}, "RETAIN")

AdmitOperation ==
    Passes("UseDispositionRecord", {"RETAIN"}, "ControlledOperationalAdmission", {"ADMITTED"})

CloseOperation ==
    Passes("ControlledOperationalAdmission", {"ADMITTED"}, "ControlledOperationalClosure", {"CLOSED"})

KnowledgeNext ==
    \/ TakeContext \/ AuditContext \/ PrepareHypothesis \/ AdmitValidation \/ SpecifyValidation
    \/ RecordValidationRun \/ ConcludeValidation \/ DecideValidation
    \/ PrepareCandidate \/ ConcludeCandidate
    \/ AdmitPromotion \/ ReleaseKnowledge \/ AuditRelease \/ InterpretKnowledge
    \/ AuthorizeControlledUse \/ CloseGovernance \/ RequestUse \/ ObserveUse \/ EvaluateUse
    \/ DisposeOfUse \/ AdmitOperation \/ CloseOperation
    \/ Forget

-----------------------------------------------------------------------------

Promoted == {"KnowledgePromotionAdmission", "TrustedKnowledgeRelease", "KnowledgeReleaseAudit",
             "ControlledKnowledgeInterpretation", "ControlledUseAuthorization",
             "ControlledKnowledgeUse", "ControlledOperationalClosure"}

(* Knowledge is promoted, authorized and used only of a hypothesis with a
   positive result, by either way through the validation; it is used only
   under an authorization whose governance was closed
   (p90_controlled_knowledge_use.py:27), and operated only when retained.  *)
KnowledgeWasValidated ==
    \A x \in papers :
       /\ x.kind \in Promoted => <<"POSITIVE", x.source>> \in established
       /\ x.kind = "ControlledKnowledgeUse" => <<"CLOSED", x.id>> \in established
       /\ x.kind = "ControlledOperationalClosure" =>
             {<<"CLOSED", x.id>>, <<"RETAIN", x.source>>} \subseteq established
=============================================================================
