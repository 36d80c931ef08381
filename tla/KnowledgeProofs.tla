---------------------------- MODULE KnowledgeProofs -----------------------------
(***************************************************************************)
(* What holds of KnowledgeGates and FeedbackGates for any ids and any      *)
(* number of papers, however their holders mix them: what is used was      *)
(* validated, and what is released was validated in operation.             *)
(***************************************************************************)
EXTENDS FeedbackGates, TLAPS

KnowledgeSpec == PapersInit /\ [][KnowledgeNext]_paperVars

Fields == {"kind", "id", "source", "verdict"}

(* The papers of a use of knowledge, and all those of validated knowledge. *)
OfUse ==
    {"ControlledKnowledgeUse", "KnowledgeUseObservation", "KnowledgeUseEvaluation",
     "UseDispositionRecord", "ControlledOperationalAdmission", "ControlledOperationalClosure"}

OfKnowledge ==
    OfUse \cup {"KnowledgePromotionAdmission", "TrustedKnowledgeRelease", "KnowledgeReleaseAudit",
                "ControlledKnowledgeInterpretation", "ControlledUseAuthorization"}

Operated == {"ControlledOperationalAdmission", "ControlledOperationalClosure"}

(* What a paper's kind and verdict say has been found out. The property
   asks this of the last kinds alone; each boundary hands it to the next.  *)
Founded(x, findings) ==
    /\ DOMAIN x = Fields
    /\ x.kind = "ValidationResult" /\ x.verdict = "POSITIVE" => <<"POSITIVE", x.source>> \in findings
    /\ x.kind = "ValidationDecision" /\ x.verdict = "VALIDATED" =>
          <<"POSITIVE", x.source>> \in findings
    /\ x.kind \in OfKnowledge => <<"POSITIVE", x.source>> \in findings
    /\ x.kind \in OfUse \cup {"KnowledgeGovernanceClosure"} => <<"CLOSED", x.id>> \in findings
    /\ x.kind = "UseDispositionRecord" /\ x.verdict = "RETAIN" => <<"RETAIN", x.source>> \in findings
    /\ x.kind \in Operated => <<"RETAIN", x.source>> \in findings

FoundedInv == \A x \in papers : Founded(x, established)

(* A new paper keeps the invariant when it is founded itself.              *)
LEMMA IssueKeeps ==
    ASSUME FoundedInv, NEW used, NEW paper, Issue(used, paper),
           established \subseteq established', Founded(paper, established')
    PROVE  FoundedInv'
  <1>1. ASSUME NEW x \in papers' PROVE x \in papers \/ x = paper
    BY DEF Issue
  <1>2. ASSUME NEW x \in papers PROVE Founded(x, established')
    BY DEF FoundedInv, Founded
  <1> QED
    BY <1>1, <1>2 DEF FoundedInv, Founded

LEMMA IssuesKeeps ==
    ASSUME FoundedInv, NEW used, NEW paper, Issues(used, paper), Founded(paper, established)
    PROVE  FoundedInv'
  BY IssueKeeps DEF Issues

(* A paper an action of its own writes.                                    *)
LEMMA PaperFields ==
    ASSUME NEW kind, NEW id, NEW source, NEW verdict
    PROVE  LET x == Paper(kind, id, source, verdict) IN
           DOMAIN x = Fields /\ x.kind = kind /\ x.id = id /\ x.source = source /\ x.verdict = verdict
  BY DEF Paper, Fields

(* What a boundary copies, and what it sets.                               *)
LEMMA BecomesFields ==
    ASSUME FoundedInv, NEW x \in papers, NEW kind, NEW verdict
    PROVE  LET y == Becomes(x, kind, verdict) IN
           /\ DOMAIN y = Fields /\ y.kind = kind /\ y.verdict = verdict
           /\ y.id = x.id /\ y.source = x.source
  BY DEF FoundedInv, Founded, Becomes, Fields

(* A boundary with one input keeps the invariant when every paper it may
   issue is founded by its input.                                          *)
LEMMA PassesKeeps ==
    ASSUME FoundedInv, NEW before, NEW accepted, NEW after, NEW verdicts,
           Passes(before, accepted, after, verdicts),
           \A x \in Held(before), verdict \in verdicts :
              x.verdict \in accepted => Founded(Becomes(x, after, verdict), established)
    PROVE  FoundedInv'
  BY IssuesKeeps DEF Passes, Held

(* The same where a verdict is a finding about the work.                   *)
LEMMA FindsKeeps ==
    ASSUME FoundedInv, NEW before, NEW accepted, NEW after, NEW verdicts, NEW finding,
           Finds(before, accepted, after, verdicts, finding),
           \A x \in Held(before), verdict \in verdicts :
              x.verdict \in accepted =>
              Founded(Becomes(x, after, verdict),
                      established \cup {f \in {<<finding, x.source>>} : verdict = finding})
    PROVE  FoundedInv'
  <1>1. PICK x \in Held(before), verdict \in verdicts :
           /\ x.verdict \in accepted
           /\ Issue({x}, Becomes(x, after, verdict))
           /\ established' = established \cup {f \in {<<finding, x.source>>} : verdict = finding}
    BY DEF Finds
  <1>2. Founded(Becomes(x, after, verdict), established')
    BY <1>1
  <1> QED
    BY <1>1, <1>2, IssueKeeps

-----------------------------------------------------------------------------

LEMMA StepKeeps ==
    ASSUME FoundedInv, KnowledgeNext
    PROVE  FoundedInv'
  <1>1. CASE TakeContext
    <2>1. PICK id \in GivenIds :
             /\ Issue({}, Paper("NextCycleContext", id, id, "CREATED"))
             /\ established \subseteq established'
      BY <1>1 DEF TakeContext
    <2>2. Founded(Paper("NextCycleContext", id, id, "CREATED"), established')
      BY PaperFields DEF Founded, OfKnowledge, OfUse, Operated
    <2> QED
      BY <2>1, <2>2, IssueKeeps
  <1>2. CASE AuditContext
    <2>1. \A x \in Held("NextCycleContext"), verdict \in {"AUDITABLE", "BLOCKED"} :
             x.verdict \in {"CREATED"} =>
             Founded(Becomes(x, "ContextAudit", verdict),
                     established)
      BY BecomesFields
      DEF FoundedInv, Held, Founded, OfKnowledge, OfUse, Operated
    <2>2. Passes("NextCycleContext", {"CREATED"}, "ContextAudit",
          {"AUDITABLE", "BLOCKED"})
      BY <1>2 DEF AuditContext
    <2> QED
      BY <2>1, <2>2, PassesKeeps
  <1>3. CASE PrepareHypothesis
    <2>1. PICK x \in Held("ContextAudit"), h \in PaperIds :
             Issues({x}, Paper("PreparedHypothesis", h, h, "NOT_VALIDATED"))
      BY <1>3 DEF PrepareHypothesis
    <2>2. Founded(Paper("PreparedHypothesis", h, h, "NOT_VALIDATED"), established)
      BY <2>1, PaperFields
      DEF FoundedInv, Held, Founded, OfKnowledge, OfUse, Operated
    <2> QED
      BY <2>1, <2>2, IssuesKeeps
  <1>4. CASE AdmitValidation
    <2>1. \A x \in Held("PreparedHypothesis"), verdict \in {"ADMITTED"} :
             x.verdict \in {"NOT_VALIDATED"} =>
             Founded(Becomes(x, "ValidationAdmission", verdict),
                     established)
      BY BecomesFields
      DEF FoundedInv, Held, Founded, OfKnowledge, OfUse, Operated
    <2>2. Passes("PreparedHypothesis", {"NOT_VALIDATED"}, "ValidationAdmission",
          {"ADMITTED"})
      BY <1>4 DEF AdmitValidation
    <2> QED
      BY <2>1, <2>2, PassesKeeps
  <1>5. CASE SpecifyValidation
    <2>1. \A x \in Held("ValidationAdmission"), verdict \in {"SPECIFIED"} :
             x.verdict \in {"ADMITTED"} =>
             Founded(Becomes(x, "ValidationSpecification", verdict),
                     established)
      BY BecomesFields
      DEF FoundedInv, Held, Founded, OfKnowledge, OfUse, Operated
    <2>2. Passes("ValidationAdmission", {"ADMITTED"}, "ValidationSpecification",
          {"SPECIFIED"})
      BY <1>5 DEF SpecifyValidation
    <2> QED
      BY <2>1, <2>2, PassesKeeps
  <1>6. CASE RecordValidationRun
    <2>1. \A x \in Held("ValidationSpecification"), verdict \in {"RUN"} :
             x.verdict \in {"SPECIFIED"} =>
             Founded(Becomes(x, "ValidationRun", verdict),
                     established)
      BY BecomesFields
      DEF FoundedInv, Held, Founded, OfKnowledge, OfUse, Operated
    <2>2. Passes("ValidationSpecification", {"SPECIFIED"}, "ValidationRun",
          {"RUN"})
      BY <1>6 DEF RecordValidationRun
    <2> QED
      BY <2>1, <2>2, PassesKeeps
  <1>7. CASE ConcludeValidation
    <2>1. \A x \in Held("ValidationRun"), verdict \in Results :
             x.verdict \in {"RUN"} =>
             Founded(Becomes(x, "ValidationResult", verdict),
                     established \cup {f \in {<<"POSITIVE", x.source>>} : verdict = "POSITIVE"})
      BY BecomesFields
      DEF FoundedInv, Held, Founded, OfKnowledge, OfUse, Operated
    <2>2. Finds("ValidationRun", {"RUN"}, "ValidationResult",
          Results, "POSITIVE")
      BY <1>7 DEF ConcludeValidation
    <2> QED
      BY <2>1, <2>2, FindsKeeps
  <1>8. CASE DecideValidation
    <2>1. PICK x \in Held("ValidationResult") : \E decision \in DecisionsFor(x.verdict) :
             Issues({x}, Becomes(x, "ValidationDecision", decision))
      BY <1>8 DEF DecideValidation
    <2>2. PICK decision \in DecisionsFor(x.verdict) :
             Issues({x}, Becomes(x, "ValidationDecision", decision))
      BY <2>1
    <2>3. decision = "VALIDATED" => x.verdict = "POSITIVE"
      BY DEF DecisionsFor
    <2>4. Founded(Becomes(x, "ValidationDecision", decision), established)
      BY <2>3, BecomesFields
      DEF FoundedInv, Held, Founded, OfKnowledge, OfUse, Operated
    <2> QED
      BY <2>2, <2>4, IssuesKeeps
  <1>9. CASE PrepareCandidate
    <2>1. PICK x \in Held("ContextAudit"), h \in PaperIds, verdict \in {"RUN", "NO_RUN"} :
             Issues({x}, Paper("IntegratedLearningCandidate", h, h, verdict))
      BY <1>9 DEF PrepareCandidate
    <2>2. Founded(Paper("IntegratedLearningCandidate", h, h, verdict), established)
      BY PaperFields DEF Founded, OfKnowledge, OfUse, Operated
    <2> QED
      BY <2>1, <2>2, IssuesKeeps
  <1>10. CASE ConcludeCandidate
    <2> DEFINE Found(x, result) == established \cup
                  {f \in {<<"POSITIVE", x.source>>} : result = "POSITIVE"}
    <2>0. PICK x \in Held("IntegratedLearningCandidate"), result \in Results :
             /\ \E decision \in DecisionsFor(result) :
                   Issue({x}, Becomes(x, "ValidationDecision", decision))
             /\ established' = Found(x, result)
      BY <1>10 DEF ConcludeCandidate
    <2>1. PICK decision \in DecisionsFor(result) :
             Issue({x}, Becomes(x, "ValidationDecision", decision))
      BY <2>0
    <2>2. decision = "VALIDATED" => result = "POSITIVE"
      BY DEF DecisionsFor, Results
    <2>3. Founded(Becomes(x, "ValidationDecision", decision), established')
      BY <2>0, <2>2, BecomesFields
      DEF FoundedInv, Held, Founded, OfKnowledge, OfUse, Operated
    <2> QED
      BY <2>0, <2>1, <2>3, IssueKeeps
  <1>11. CASE AdmitPromotion
    <2>1. \A x \in Held("ValidationDecision"), verdict \in {"ADMITTED"} :
             x.verdict \in {"VALIDATED"} =>
             Founded(Becomes(x, "KnowledgePromotionAdmission", verdict),
                     established)
      BY BecomesFields
      DEF FoundedInv, Held, Founded, OfKnowledge, OfUse, Operated
    <2>2. Passes("ValidationDecision", {"VALIDATED"}, "KnowledgePromotionAdmission",
          {"ADMITTED"})
      BY <1>11 DEF AdmitPromotion
    <2> QED
      BY <2>1, <2>2, PassesKeeps
  <1>12. CASE ReleaseKnowledge
    <2>1. \A x \in Held("KnowledgePromotionAdmission"), verdict \in {"RELEASED"} :
             x.verdict \in {"ADMITTED"} =>
             Founded(Becomes(x, "TrustedKnowledgeRelease", verdict),
                     established)
      BY BecomesFields
      DEF FoundedInv, Held, Founded, OfKnowledge, OfUse, Operated
    <2>2. Passes("KnowledgePromotionAdmission", {"ADMITTED"}, "TrustedKnowledgeRelease",
          {"RELEASED"})
      BY <1>12 DEF ReleaseKnowledge
    <2> QED
      BY <2>1, <2>2, PassesKeeps
  <1>13. CASE AuditRelease
    <2>1. \A x \in Held("TrustedKnowledgeRelease"), verdict \in {"VERIFIED"} :
             x.verdict \in {"RELEASED"} =>
             Founded(Becomes(x, "KnowledgeReleaseAudit", verdict),
                     established)
      BY BecomesFields
      DEF FoundedInv, Held, Founded, OfKnowledge, OfUse, Operated
    <2>2. Passes("TrustedKnowledgeRelease", {"RELEASED"}, "KnowledgeReleaseAudit",
          {"VERIFIED"})
      BY <1>13 DEF AuditRelease
    <2> QED
      BY <2>1, <2>2, PassesKeeps
  <1>14. CASE InterpretKnowledge
    <2>1. \A x \in Held("KnowledgeReleaseAudit"), verdict \in {"INTERPRETED"} :
             x.verdict \in {"VERIFIED"} =>
             Founded(Becomes(x, "ControlledKnowledgeInterpretation", verdict),
                     established)
      BY BecomesFields
      DEF FoundedInv, Held, Founded, OfKnowledge, OfUse, Operated
    <2>2. Passes("KnowledgeReleaseAudit", {"VERIFIED"}, "ControlledKnowledgeInterpretation",
          {"INTERPRETED"})
      BY <1>14 DEF InterpretKnowledge
    <2> QED
      BY <2>1, <2>2, PassesKeeps
  <1>15. CASE AuthorizeControlledUse
    <2>1. PICK x \in Held("ControlledKnowledgeInterpretation"), id \in PaperIds :
             Issues({x}, Paper("ControlledUseAuthorization", id, x.source, "AUTHORIZED"))
      BY <1>15 DEF AuthorizeControlledUse
    <2>2. <<"POSITIVE", x.source>> \in established
      BY <2>1 DEF FoundedInv, Held, Founded, OfKnowledge
    <2>3. Founded(Paper("ControlledUseAuthorization", id, x.source, "AUTHORIZED"), established)
      BY <2>2, <2>1, PaperFields DEF Held, Founded, OfKnowledge, OfUse, Operated
    <2> QED
      BY <2>1, <2>3, IssuesKeeps
  <1>16. CASE CloseGovernance
    <2>1. PICK x \in Held("ControlledUseAuthorization") :
             /\ Issue({}, Becomes(x, "KnowledgeGovernanceClosure", "CLOSED"))
             /\ established' = established \cup {<<"CLOSED", x.id>>}
      BY <1>16 DEF CloseGovernance
    <2>2. Founded(Becomes(x, "KnowledgeGovernanceClosure", "CLOSED"), established')
      BY <2>1, BecomesFields
      DEF FoundedInv, Held, Founded, OfKnowledge, OfUse, Operated
    <2> QED
      BY <2>1, <2>2, IssueKeeps
  <1>17. CASE RequestUse
    <2>1. PICK x \in Held("ControlledUseAuthorization"),
               closure \in Held("KnowledgeGovernanceClosure") :
             /\ closure.id = x.id
             /\ Issues({x, closure}, Becomes(x, "ControlledKnowledgeUse", "REQUESTED"))
      BY <1>17 DEF RequestUse
    <2>2. <<"POSITIVE", x.source>> \in established /\ <<"CLOSED", x.id>> \in established
      BY <2>1 DEF FoundedInv, Held, Founded, OfKnowledge
    <2>3. Founded(Becomes(x, "ControlledKnowledgeUse", "REQUESTED"), established)
      BY <2>2, <2>1, BecomesFields DEF Held, Founded, OfKnowledge, OfUse, Operated
    <2> QED
      BY <2>1, <2>3, IssuesKeeps
  <1>18. CASE ObserveUse
    <2>1. \A x \in Held("ControlledKnowledgeUse"), verdict \in {"SEEN"} :
             x.verdict \in {"REQUESTED"} =>
             Founded(Becomes(x, "KnowledgeUseObservation", verdict),
                     established)
      BY BecomesFields
      DEF FoundedInv, Held, Founded, OfKnowledge, OfUse, Operated
    <2>2. Passes("ControlledKnowledgeUse", {"REQUESTED"}, "KnowledgeUseObservation",
          {"SEEN"})
      BY <1>18 DEF ObserveUse
    <2> QED
      BY <2>1, <2>2, PassesKeeps
  <1>19. CASE EvaluateUse
    <2>1. \A x \in Held("KnowledgeUseObservation"), verdict \in UseEvaluations :
             x.verdict \in {"SEEN"} =>
             Founded(Becomes(x, "KnowledgeUseEvaluation", verdict),
                     established)
      BY BecomesFields
      DEF FoundedInv, Held, Founded, OfKnowledge, OfUse, Operated
    <2>2. Passes("KnowledgeUseObservation", {"SEEN"}, "KnowledgeUseEvaluation",
          UseEvaluations)
      BY <1>19 DEF EvaluateUse
    <2> QED
      BY <2>1, <2>2, PassesKeeps
  <1>20. CASE DisposeOfUse
    <2>1. PICK x \in Held("KnowledgeUseEvaluation"), verdict \in {"RETAIN", "REVIEW", "RETIRE"} :
             /\ Issue({x}, Becomes(x, "UseDispositionRecord", verdict))
             /\ established' = established \cup
                   {f \in {<<"RETAIN", x.source>>} : verdict = "RETAIN"}
      BY <1>20 DEF DisposeOfUse, Finds
    <2>2. Founded(Becomes(x, "UseDispositionRecord", verdict), established')
      BY <2>1, BecomesFields
      DEF FoundedInv, Held, Founded, OfKnowledge, OfUse, Operated
    <2> QED
      BY <2>1, <2>2, IssueKeeps
  <1>21. CASE AdmitOperation
    <2>1. \A x \in Held("UseDispositionRecord"), verdict \in {"ADMITTED"} :
             x.verdict \in {"RETAIN"} =>
             Founded(Becomes(x, "ControlledOperationalAdmission", verdict),
                     established)
      BY BecomesFields
      DEF FoundedInv, Held, Founded, OfKnowledge, OfUse, Operated
    <2>2. Passes("UseDispositionRecord", {"RETAIN"}, "ControlledOperationalAdmission",
          {"ADMITTED"})
      BY <1>21 DEF AdmitOperation
    <2> QED
      BY <2>1, <2>2, PassesKeeps
  <1>22. CASE CloseOperation
    <2>1. \A x \in Held("ControlledOperationalAdmission"), verdict \in {"CLOSED"} :
             x.verdict \in {"ADMITTED"} =>
             Founded(Becomes(x, "ControlledOperationalClosure", verdict),
                     established)
      BY BecomesFields
      DEF FoundedInv, Held, Founded, OfKnowledge, OfUse, Operated
    <2>2. Passes("ControlledOperationalAdmission", {"ADMITTED"}, "ControlledOperationalClosure",
          {"CLOSED"})
      BY <1>22 DEF CloseOperation
    <2> QED
      BY <2>1, <2>2, PassesKeeps
  <1>23. CASE Forget
    BY <1>23 DEF Forget, FoundedInv, Founded
  <1> QED
    BY <1>1, <1>2, <1>3, <1>4, <1>5, <1>6, <1>7, <1>8, <1>9, <1>10, <1>11, <1>12,
       <1>13, <1>14, <1>15, <1>16, <1>17, <1>18, <1>19, <1>20, <1>21, <1>22, <1>23
    DEF KnowledgeNext

(* Knowledge is promoted, used and operated only of a hypothesis with a
   positive result, for any ids and papers: see KnowledgeWasValidated.     *)
THEOREM UsedKnowledgeWasValidated == KnowledgeSpec => []KnowledgeWasValidated
  <1>1. PapersInit => FoundedInv
    BY DEF PapersInit, FoundedInv
  <1>2. FoundedInv /\ [KnowledgeNext]_paperVars => FoundedInv'
    <2>1. FoundedInv /\ UNCHANGED paperVars => FoundedInv'
      BY DEF paperVars, FoundedInv, Founded
    <2> QED
      BY <2>1, StepKeeps
  <1>3. FoundedInv => KnowledgeWasValidated
    BY DEF FoundedInv, Founded, KnowledgeWasValidated, Promoted, OfKnowledge, OfUse, Operated
  <1> QED
    BY <1>1, <1>2, <1>3, PTL DEF KnowledgeSpec

-----------------------------------------------------------------------------
(* The same of FeedbackGates: what is released was validated in operation. *)

FeedbackSpec == PapersInit /\ [][FeedbackNext]_paperVars

(* The papers on the way to a release that speak for a hypothesis, and the
   verdicts with which they do.                                            *)
OfRelease == {"OperationalValidationResult", "OperationalValidationDecision", "PreRealAudit",
              "RealReleaseAudit", "RealReleaseClosure"}

Good == {"POSITIVE", "VALIDATED", "VERIFIED", "RELEASED"}

(* The property names three of the five kinds; the two between them hand on
   the verdict, and the closure is made of the audit alone.                *)
Backed(x, findings) ==
    /\ DOMAIN x = Fields
    /\ x.kind \in OfRelease /\ x.verdict \in Good => <<"OPERATED", x.source>> \in findings

BackedInv == \A x \in papers : Backed(x, established)

LEMMA IssueBacks ==
    ASSUME BackedInv, NEW used, NEW paper, Issue(used, paper),
           established \subseteq established', Backed(paper, established')
    PROVE  BackedInv'
  <1>1. ASSUME NEW x \in papers' PROVE x \in papers \/ x = paper
    BY DEF Issue
  <1>2. ASSUME NEW x \in papers PROVE Backed(x, established')
    BY DEF BackedInv, Backed
  <1> QED
    BY <1>1, <1>2 DEF BackedInv, Backed

LEMMA IssuesBacks ==
    ASSUME BackedInv, NEW used, NEW paper, Issues(used, paper), Backed(paper, established)
    PROVE  BackedInv'
  BY IssueBacks DEF Issues

LEMMA CopiedFields ==
    ASSUME BackedInv, NEW x \in papers, NEW kind, NEW verdict
    PROVE  LET y == Becomes(x, kind, verdict) IN
           /\ DOMAIN y = Fields /\ y.kind = kind /\ y.verdict = verdict
           /\ y.id = x.id /\ y.source = x.source
  BY DEF BackedInv, Backed, Becomes, Fields

(* A paper of another kind needs nothing to back it.                       *)
LEMMA PlainPaper ==
    ASSUME BackedInv, NEW x \in papers, NEW kind, kind \notin OfRelease, NEW verdict,
           NEW used, Issues(used, Becomes(x, kind, verdict))
    PROVE  BackedInv'
  <1>1. Backed(Becomes(x, kind, verdict), established)
    BY CopiedFields DEF Backed
  <1> QED
    BY <1>1, IssuesBacks

LEMMA PlainPasses ==
    ASSUME BackedInv, NEW before, NEW accepted, NEW after, NEW verdicts,
           Passes(before, accepted, after, verdicts), after \notin OfRelease
    PROVE  BackedInv'
  BY PlainPaper DEF Passes, Held

LEMMA NewPaper ==
    ASSUME BackedInv, NEW kind, kind \notin OfRelease, NEW id, NEW source, NEW verdict,
           NEW used, Issues(used, Paper(kind, id, source, verdict))
    PROVE  BackedInv'
  <1>1. Backed(Paper(kind, id, source, verdict), established)
    BY PaperFields DEF Backed
  <1> QED
    BY <1>1, IssuesBacks

(* A paper that bears a good verdict only when one it is made of does.     *)
LEMMA BackedPaper ==
    ASSUME BackedInv, NEW x \in papers, x.kind \in OfRelease, NEW kind, NEW verdict,
           verdict \in Good => x.verdict \in Good,
           NEW used, Issues(used, Becomes(x, kind, verdict))
    PROVE  BackedInv'
  <1>1. Backed(Becomes(x, kind, verdict), established)
    BY CopiedFields DEF BackedInv, Backed
  <1> QED
    BY <1>1, IssuesBacks

LEMMA FeedbackKeeps ==
    ASSUME BackedInv, FeedbackNext
    PROVE  BackedInv'
  <1>1. CASE TakeOperation
    <2>1. PICK id \in GivenIds :
             /\ Issue({}, Paper("ControlledOperationalClosure", id, id, "CLOSED"))
             /\ established \subseteq established'
      BY <1>1 DEF TakeOperation
    <2>2. Backed(Paper("ControlledOperationalClosure", id, id, "CLOSED"), established')
      BY PaperFields DEF Backed, OfRelease
    <2> QED
      BY <2>1, <2>2, IssueBacks
  <1>2. CASE ObserveOperation \/ AssessOperation \/ DisposeOfOperation
    BY <1>2, PlainPasses DEF ObserveOperation, AssessOperation, DisposeOfOperation, OfRelease
  <1>3. CASE CloseFeedback \/ AuditFeedback \/ ArchiveFeedback
    BY <1>3, PlainPasses DEF CloseFeedback, AuditFeedback, ArchiveFeedback, OfRelease
  <1>4. CASE AssessReadiness \/ CreateOperationalContext \/ AdmitOperationalHypothesis
    BY <1>4, PlainPasses
    DEF AssessReadiness, CreateOperationalContext, AdmitOperationalHypothesis, OfRelease
  <1>5. CASE AuditOperationalHypothesis \/ SpecifyOperationalValidation \/ RecordOperationalRun
    BY <1>5, PlainPasses
    DEF AuditOperationalHypothesis, SpecifyOperationalValidation, RecordOperationalRun, OfRelease
  <1>6. CASE PrepareOperationalHypothesis \/ GrantAuthorization
    BY <1>6, NewPaper DEF PrepareOperationalHypothesis, GrantAuthorization, OfRelease
  <1>7. CASE ConcludeOperationalValidation
    <2>1. PICK x \in Held("OperationalValidationRun"), verdict \in Results :
             /\ Issue({x}, Becomes(x, "OperationalValidationResult", verdict))
             /\ established' = established \cup
                   {f \in {<<"OPERATED", x.source>>} : verdict = "POSITIVE"}
      BY <1>7 DEF ConcludeOperationalValidation
    <2>2. Backed(Becomes(x, "OperationalValidationResult", verdict), established')
      BY <2>1, CopiedFields DEF Held, Backed, Results, Good
    <2>3. established \subseteq established'
      BY <2>1
    <2> QED
      BY <2>1, <2>2, <2>3, IssueBacks
  <1>8. CASE DecideOperationalValidation
    <2>1. PICK x \in Held("OperationalValidationResult") :
             \E decision \in DecisionsFor(x.verdict) :
                Issues({x}, Becomes(x, "OperationalValidationDecision", decision))
      BY <1>8 DEF DecideOperationalValidation
    <2>2. PICK decision \in DecisionsFor(x.verdict) :
             Issues({x}, Becomes(x, "OperationalValidationDecision", decision))
      BY <2>1
    <2>3. decision \in Good => x.verdict \in Good
      BY DEF DecisionsFor, Good
    <2> QED
      BY <2>2, <2>3, BackedPaper DEF Held, OfRelease
  <1>9. CASE AuditBeforeReal
    <2>1. PICK x \in Held("OperationalValidationDecision"), rest \in BOOLEAN :
             Issues({x}, Becomes(x, "PreRealAudit", Verified(x.verdict = "VALIDATED" /\ rest)))
      BY <1>9 DEF AuditBeforeReal
    <2>2. Verified(x.verdict = "VALIDATED" /\ rest) \in Good => x.verdict \in Good
      BY DEF Verified, Good
    <2> QED
      BY <2>1, <2>2, BackedPaper DEF Held, OfRelease
  <1>10. CASE EvaluateRealSafety \/ ValidateShadow
    BY <1>10, PlainPaper DEF EvaluateRealSafety, ValidateShadow, Held, OfRelease
  <1>11. CASE AuditRealRelease
    <2>1. PICK audit \in Held("PreRealAudit"), shadow \in Held("ShadowValidationResult"),
               rest \in BOOLEAN :
             Issues({audit, shadow}, Becomes(audit, "RealReleaseAudit",
                Verified(audit.verdict = "VERIFIED" /\ shadow.verdict = "VERIFIED" /\ rest)))
      BY <1>11 DEF AuditRealRelease
    <2>2. Verified(audit.verdict = "VERIFIED" /\ shadow.verdict = "VERIFIED" /\ rest) \in Good
             => audit.verdict \in Good
      BY DEF Verified, Good
    <2> QED
      BY <2>1, <2>2, BackedPaper DEF Held, OfRelease
  <1>12. CASE AdmitReal
    BY <1>12, PlainPaper DEF AdmitReal, Held, OfRelease
  <1>13. CASE CloseRelease
    <2>1. PICK audit \in Held("RealReleaseAudit"), admission \in Held("RealAdmission"),
               rest \in BOOLEAN :
             Issues({audit, admission}, Becomes(audit, "RealReleaseClosure",
                IF audit.verdict = "VERIFIED" /\ admission.verdict = "ADMITTED" /\ rest
                THEN "RELEASED" ELSE "BLOCKED"))
      BY <1>13 DEF CloseRelease
    <2>2. (IF audit.verdict = "VERIFIED" /\ admission.verdict = "ADMITTED" /\ rest
           THEN "RELEASED" ELSE "BLOCKED") \in Good => audit.verdict \in Good
      BY DEF Good
    <2> QED
      BY <2>1, <2>2, BackedPaper DEF Held, OfRelease
  <1>14. CASE Forget
    BY <1>14 DEF Forget, BackedInv, Backed
  <1> QED
    BY <1>1, <1>2, <1>3, <1>4, <1>5, <1>6, <1>7, <1>8, <1>9, <1>10, <1>11, <1>12, <1>13, <1>14
    DEF FeedbackNext

(* REAL execution is released only on a hypothesis with a positive result in
   operation, for any ids and however many papers of however many
   hypotheses are mixed: see ReleaseWasValidated.                          *)
THEOREM ReleasesWereValidated == FeedbackSpec => []ReleaseWasValidated
  <1>1. PapersInit => BackedInv
    BY DEF PapersInit, BackedInv
  <1>2. BackedInv /\ [FeedbackNext]_paperVars => BackedInv'
    <2>1. BackedInv /\ UNCHANGED paperVars => BackedInv'
      BY DEF paperVars, BackedInv, Backed
    <2> QED
      BY <2>1, FeedbackKeeps
  <1>3. BackedInv => ReleaseWasValidated
    BY DEF BackedInv, Backed, ReleaseWasValidated, OfRelease, Good
  <1> QED
    BY <1>1, <1>2, <1>3, PTL DEF FeedbackSpec

=============================================================================
