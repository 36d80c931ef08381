---------------------------- MODULE AdaptationGates ---------------------------
(***************************************************************************)
(* From trusted knowledge to the context of the next cycle (P56 to P76):   *)
(* memory, laboratory, a proposal that is evaluated and applied, what was  *)
(* observed of it, and the closing, archiving and handing over of the      *)
(* cycle. Of a paper, id is the memory_id until P59 and the proposal_id    *)
(* from P60 on.                                                            *)
(***************************************************************************)
EXTENDS LearningEvidence

(* What LearningEvidence ends with, of a cycle an observation agreed with;
   what it said plays no part from here on.                                *)
TakeKnowledge ==
    \E cycle \in Completed :
       /\ Issue({}, Paper("TrustedKnowledge", cycle, cycle, "TRUSTED"))
       /\ Establishes(Observed("MATCHED", cycle, CHOOSE report \in Reports : TRUE))

(* ControlledKnowledgeUseBoundary.authorize: nothing asks for its paper. The
   class of the paper is named ControlledKnowledgeUse, as that of P90 is.  *)
AuthorizeUse == Passes("TrustedKnowledge", {"TRUSTED"}, "TrustedKnowledgeUse", {"AUTHORIZED"})

RecordMemory ==
    \E x \in Held("TrustedKnowledge"), id \in PaperIds :
       Issues({x}, Paper("KnowledgeMemoryRecord", id, id, "RECORDED"))

(* MemoryAuditBoundary.audit: what P57 recorded is complete.               *)
AuditMemory ==
    \E x \in Held("KnowledgeMemoryRecord") :
       Issues({}, Becomes(x, "MemoryAuditDecision", "AUDITABLE"))

RunLab ==
    \E audit \in Held("MemoryAuditDecision"), record \in Held("KnowledgeMemoryRecord") :
       /\ audit.verdict = "AUDITABLE" /\ audit.id = record.id
       /\ Issues({audit, record}, Becomes(record, "KnowledgeLabRun", "RUN"))

ProposeAdaptation ==
    \E x \in Held("KnowledgeLabRun"), id \in PaperIds :
       Issues({x}, Paper("AdaptationProposal", id, id, "NOT_APPLIED"))

EvaluateProposal ==
    \E x \in Held("AdaptationProposal"), status \in {"APPROVED", "REJECTED", "NEEDS_REVIEW"} :
       /\ Issue({}, Becomes(x, "AdaptationEvaluation", status))
       /\ established' = established \cup {f \in {<<"APPROVED", x.id>>} : status = "APPROVED"}

(* Mutant: an evaluation is enough, whatever it says.                      *)
ApplyEvaluated ==
    \E proposal \in Held("AdaptationProposal"), evaluation \in Held("AdaptationEvaluation") :
       /\ evaluation.id = proposal.id /\ proposal.verdict = "NOT_APPLIED"
       /\ Issues({proposal}, Becomes(proposal, "AppliedAdaptation", "APPLIED"))

(* Nothing sets applied on the proposal, which may be applied again.       *)
ApplyAdaptation ==
    \E proposal \in Held("AdaptationProposal"), evaluation \in Held("AdaptationEvaluation") :
       /\ evaluation.id = proposal.id /\ evaluation.verdict = "APPROVED"
       /\ proposal.verdict = "NOT_APPLIED"
       /\ Issues({proposal}, Becomes(proposal, "AppliedAdaptation", "APPLIED"))

(* AdaptationCycleAuditBoundary.close does not ask what the evaluation was. *)
AuditAdaptation ==
    \E evaluation \in Held("AdaptationEvaluation"), application \in Held("AppliedAdaptation") :
       /\ evaluation.id = application.id
       /\ Issues({evaluation}, Becomes(application, "AdaptationCycleAudit", "COMPLETE"))

ActivateAdaptation == Passes("AppliedAdaptation", {"APPLIED"}, "AdaptationActivation", {"ACTIVE"})

ObserveAdaptation == Passes("AdaptationActivation", {"ACTIVE"}, "AdaptationObservation", {"SEEN"})

EvaluateObservation ==
    Passes("AdaptationObservation", {"SEEN"}, "PostAdaptationEvaluation",
           {"SUPPORTED", "NOT_SUPPORTED", "INCONCLUSIVE"})

(* AdaptationCycleBoundary.consolidate copies the status; what is decided
   next does not depend on it.                                             *)
ConsolidateCycle ==
    Passes("PostAdaptationEvaluation", {"SUPPORTED", "NOT_SUPPORTED", "INCONCLUSIVE"},
           "AdaptationCycleRecord", {"CONSOLIDATED"})

Dispositions == {"RETAIN", "REVIEW", "RETIRE"}

DisposeOfAdaptation ==
    Passes("AdaptationCycleRecord", {"CONSOLIDATED"}, "AdaptationDisposition", Dispositions)

Eligibilities == {"ELIGIBLE", "NOT_ELIGIBLE", "REVIEW_REQUIRED"}

(* NextCycleEligibilityBoundary.evaluate: of a RETIRE, too.                *)
JudgeEligibility ==
    Finds("AdaptationDisposition", Dispositions, "NextCycleEligibility", Eligibilities, "ELIGIBLE")

CloseAdaptationCycle ==
    \E x \in Held("NextCycleEligibility") :
       Issues({x}, Becomes(x, "AdaptationCycleClosure", x.verdict))

(* CycleClosureAuditBoundary.audit: a BLOCKED audit leads nowhere; the one
   that is VERIFIED hands on the eligibility.                              *)
AuditClosure ==
    \E x \in Held("AdaptationCycleClosure"), status \in {"VERIFIED", "BLOCKED"} :
       /\ Issue({x}, Becomes(x, "CycleClosureAudit",
                             IF status = "VERIFIED" THEN x.verdict ELSE "BLOCKED"))
       /\ established' = established \cup {f \in {<<"VERIFIED", x.id>>} : status = "VERIFIED"}

ArchiveCycle ==
    \E x \in Held("CycleClosureAudit") :
       x.verdict # "BLOCKED" /\ Issues({x}, Becomes(x, "CycleArchiveRecord", x.verdict))

(* Mutant: a cycle that needs review is admitted.                          *)
AdmitNotRefused ==
    Passes("CycleArchiveRecord", {"ELIGIBLE", "REVIEW_REQUIRED"}, "NextCycleAdmission", {"ADMITTED"})

AdmitNextCycle ==
    Passes("CycleArchiveRecord", {"ELIGIBLE"}, "NextCycleAdmission", {"ADMITTED"})

HandOverCycle == Passes("NextCycleAdmission", {"ADMITTED"}, "NextCycleHandoff", {"HANDED"})

ValidateHandoff ==
    Passes("NextCycleHandoff", {"HANDED"}, "HandoffValidation", {"VERIFIED", "BLOCKED"})

CreateContext == Passes("HandoffValidation", {"VERIFIED"}, "NextCycleContext", {"CREATED"})

AdaptationNext ==
    \/ TakeKnowledge \/ AuthorizeUse \/ RecordMemory \/ AuditMemory \/ RunLab
    \/ ProposeAdaptation \/ EvaluateProposal \/ ApplyAdaptation \/ AuditAdaptation
    \/ ActivateAdaptation \/ ObserveAdaptation \/ EvaluateObservation \/ ConsolidateCycle
    \/ DisposeOfAdaptation \/ JudgeEligibility \/ CloseAdaptationCycle \/ AuditClosure
    \/ ArchiveCycle \/ AdmitNextCycle \/ HandOverCycle \/ ValidateHandoff \/ CreateContext
    \/ Forget

-----------------------------------------------------------------------------

Applied == {"AppliedAdaptation", "AdaptationActivation", "AdaptationObservation",
            "AdaptationCycleRecord", "CycleArchiveRecord", "NextCycleContext"}

(* An adaptation is only ever in use when its proposal was approved, and it
   reaches the context of the next cycle only when, besides, the cycle was
   found eligible and its closure verified, whichever papers were brought
   together on the way (p62_controlled_adaptation.py:21).                  *)
NextCycleWasEarned ==
    /\ \A x \in papers : x.kind \in Applied => <<"APPROVED", x.id>> \in established
    /\ \A x \in Held("NextCycleContext") :
          {<<"ELIGIBLE", x.id>>, <<"VERIFIED", x.id>>} \subseteq established
=============================================================================
