----------------------------- MODULE FeedbackGates ----------------------------
(***************************************************************************)
(* What is observed of knowledge in operation, to the hypothesis of the    *)
(* next operational cycle and its validation (P96 to P110), and the steps  *)
(* to the release of REAL execution that rest on it (P111 to P119). Those  *)
(* take flags: the callers hand over what the papers they hold say, and    *)
(* flags no paper stands for are free.                                     *)
(***************************************************************************)
EXTENDS KnowledgeGates

(* What KnowledgeGates ends with, and what was found out by then.          *)
TakeOperation ==
    \E id \in GivenIds :
       /\ Issue({}, Paper("ControlledOperationalClosure", id, id, "CLOSED"))
       /\ established' = established \cup ({"POSITIVE", "CLOSED", "RETAIN"} \X {id})

ObserveOperation ==
    Passes("ControlledOperationalClosure", {"CLOSED"}, "OperationalObservation", {"SEEN"})

AssessOperation ==
    Passes("OperationalObservation", {"SEEN"}, "OperationalAssessment", UseEvaluations)

OperationalDispositions == {"RETAIN", "REVIEW", "RETIRE"}

DisposeOfOperation ==
    Passes("OperationalAssessment", UseEvaluations, "OperationalDispositionRecord",
           OperationalDispositions)

(* The disposition is copied and not asked for again: a RETIRE leads to the
   next cycle as a RETAIN does.                                            *)
CloseFeedback ==
    Passes("OperationalDispositionRecord", OperationalDispositions, "OperationalFeedbackClosure",
           {"CLOSED"})

AuditFeedback ==
    Passes("OperationalFeedbackClosure", {"CLOSED"}, "OperationalFeedbackAudit", {"VERIFIED"})

ArchiveFeedback ==
    Passes("OperationalFeedbackAudit", {"VERIFIED"}, "OperationalFeedbackArchive", {"ARCHIVED"})

AssessReadiness ==
    Passes("OperationalFeedbackArchive", {"ARCHIVED"}, "NextOperationalCycleReadiness", {"READY"})

CreateOperationalContext ==
    Passes("NextOperationalCycleReadiness", {"READY"}, "NextOperationalCycleContext", {"CREATED"})

PrepareOperationalHypothesis ==
    \E x \in Held("NextOperationalCycleContext"), h \in PaperIds :
       Issues({x}, Paper("OperationalHypothesisPreparation", h, h, "NOT VALIDATED"))

AdmitOperationalHypothesis ==
    Passes("OperationalHypothesisPreparation", {"NOT VALIDATED"}, "OperationalHypothesisAdmission",
           {"ADMITTED"})

AuditOperationalHypothesis ==
    Passes("OperationalHypothesisAdmission", {"ADMITTED"}, "OperationalHypothesisAudit", {"VERIFIED"})

SpecifyOperationalValidation ==
    Passes("OperationalHypothesisAudit", {"VERIFIED"}, "OperationalValidationSpecification",
           {"SPECIFIED"})

RecordOperationalRun ==
    Passes("OperationalValidationSpecification", {"SPECIFIED"}, "OperationalValidationRun", {"RUN"})

(* A positive result of this validation is not that of the first.          *)
ConcludeOperationalValidation ==
    \E x \in Held("OperationalValidationRun"), result \in Results :
       /\ x.verdict = "RUN"
       /\ Issue({x}, Becomes(x, "OperationalValidationResult", result))
       /\ established' = established \cup {f \in {<<"OPERATED", x.source>>} : result = "POSITIVE"}

DecideOperationalValidation ==
    \E x \in Held("OperationalValidationResult") : \E decision \in DecisionsFor(x.verdict) :
       Issues({x}, Becomes(x, "OperationalValidationDecision", decision))

-----------------------------------------------------------------------------

Verified(good) == IF good THEN "VERIFIED" ELSE "BLOCKED"

AuditBeforeReal ==
    \E x \in Held("OperationalValidationDecision"), rest \in BOOLEAN :
       Issues({x}, Becomes(x, "PreRealAudit", Verified(x.verdict = "VALIDATED" /\ rest)))

(* RealExecutionAuthorization is active when enabled and allowed; nothing
   compares its audit_id.                                                  *)
GrantAuthorization ==
    \E id \in PaperIds, state \in {"ACTIVE", "INACTIVE"} :
       Issues({}, Paper("RealExecutionAuthorization", id, id, state))

EvaluateRealSafety ==
    \E x \in Held("RealExecutionAuthorization"), rest \in BOOLEAN :
       Issues({}, Becomes(x, "RealSafetyReport", Verified(x.verdict = "ACTIVE" /\ rest)))

ValidateShadow ==
    \E x \in Held("RealSafetyReport"), rest \in BOOLEAN :
       Issues({x}, Becomes(x, "ShadowValidationResult", Verified(x.verdict = "VERIFIED" /\ rest)))

(* Mutant: the first audit is not asked for.                               *)
AuditReleaseWithoutPreReal ==
    \E audit \in Held("PreRealAudit"), shadow \in Held("ShadowValidationResult"), rest \in BOOLEAN :
       Issues({audit, shadow}, Becomes(audit, "RealReleaseAudit",
                                      Verified(shadow.verdict = "VERIFIED" /\ rest)))

(* A shadow validation that passed has seen the safety report READY.       *)
AuditRealRelease ==
    \E audit \in Held("PreRealAudit"), shadow \in Held("ShadowValidationResult"), rest \in BOOLEAN :
       Issues({audit, shadow},
              Becomes(audit, "RealReleaseAudit",
                      Verified(audit.verdict = "VERIFIED" /\ shadow.verdict = "VERIFIED" /\ rest)))

(* RealAdmissionBoundary.admit: authorization and safety are flags of any
   report, the audit_id is any.                                            *)
AdmitReal ==
    \E audit \in Held("RealReleaseAudit"), safety \in Held("RealSafetyReport"), rest \in BOOLEAN :
       Issues({safety}, Becomes(audit, "RealAdmission",
                 IF audit.verdict = "VERIFIED" /\ safety.verdict = "VERIFIED" /\ rest
                 THEN "ADMITTED" ELSE "BLOCKED"))

CloseRelease ==
    \E audit \in Held("RealReleaseAudit"), admission \in Held("RealAdmission"), rest \in BOOLEAN :
       Issues({audit, admission}, Becomes(audit, "RealReleaseClosure",
                 IF audit.verdict = "VERIFIED" /\ admission.verdict = "ADMITTED" /\ rest
                 THEN "RELEASED" ELSE "BLOCKED"))

FeedbackNext ==
    \/ TakeOperation \/ ObserveOperation \/ AssessOperation \/ DisposeOfOperation
    \/ CloseFeedback \/ AuditFeedback \/ ArchiveFeedback \/ AssessReadiness
    \/ CreateOperationalContext \/ PrepareOperationalHypothesis \/ AdmitOperationalHypothesis
    \/ AuditOperationalHypothesis \/ SpecifyOperationalValidation \/ RecordOperationalRun
    \/ ConcludeOperationalValidation \/ DecideOperationalValidation
    \/ AuditBeforeReal \/ GrantAuthorization \/ EvaluateRealSafety \/ ValidateShadow
    \/ AuditRealRelease \/ AdmitReal \/ CloseRelease
    \/ Forget

-----------------------------------------------------------------------------

(* REAL execution is released only on a hypothesis whose operational
   validation was positive, through seven boundaries that see no more of
   each other than a verdict (p119_release_closure.py:24).                 *)
ReleaseWasValidated ==
    \A x \in papers :
       \/ x.kind = "OperationalValidationDecision" /\ x.verdict = "VALIDATED"
       \/ x.kind = "PreRealAudit" /\ x.verdict = "VERIFIED"
       \/ x.kind = "RealReleaseClosure" /\ x.verdict = "RELEASED"
       => <<"OPERATED", x.source>> \in established
=============================================================================
