---------------------------- MODULE AdaptationProofs ---------------------------
(***************************************************************************)
(* What holds of AdaptationGates and LearningEvidence for any ids and any  *)
(* number of papers, however their holders mix them: what reaches the next *)
(* cycle was earned, and what is learned was corroborated.                 *)
(***************************************************************************)
EXTENDS AdaptationGates, TLAPS

AdaptationSpec == PapersInit /\ [][AdaptationNext]_paperVars

Fields == {"kind", "id", "source", "verdict"}

(* The papers that are about an adaptation somebody applied.               *)
AboutApplied ==
    {"AppliedAdaptation", "AdaptationCycleAudit", "AdaptationActivation", "AdaptationObservation",
     "PostAdaptationEvaluation", "AdaptationCycleRecord", "AdaptationDisposition",
     "NextCycleEligibility", "AdaptationCycleClosure", "CycleClosureAudit", "CycleArchiveRecord",
     "NextCycleAdmission", "NextCycleHandoff", "HandoffValidation", "NextCycleContext"}

Judged == {"NextCycleEligibility", "AdaptationCycleClosure", "CycleClosureAudit", "CycleArchiveRecord"}

Audited == {"CycleClosureAudit", "CycleArchiveRecord"}

Admission == {"NextCycleAdmission", "NextCycleHandoff", "HandoffValidation", "NextCycleContext"}

(* What a paper's kind and verdict say has been found out of its proposal.
   The property asks this of some kinds alone; each boundary hands it from
   one kind to the next.                                                   *)
Earned(x, findings) ==
    /\ DOMAIN x = Fields /\ x.source = x.id
    /\ x.kind \in AboutApplied => <<"APPROVED", x.id>> \in findings
    /\ x.kind = "AdaptationEvaluation" /\ x.verdict = "APPROVED" => <<"APPROVED", x.id>> \in findings
    /\ x.kind \in Judged /\ x.verdict = "ELIGIBLE" => <<"ELIGIBLE", x.id>> \in findings
    /\ x.kind \in Audited /\ x.verdict # "BLOCKED" => <<"VERIFIED", x.id>> \in findings
    /\ x.kind \in Admission => {<<"ELIGIBLE", x.id>>, <<"VERIFIED", x.id>>} \subseteq findings

EarnedInv == \A x \in papers : Earned(x, established)

(* A new paper keeps the invariant when it is earned itself: the others lose
   nothing by what is found out.                                           *)
LEMMA IssueKeeps ==
    ASSUME EarnedInv, NEW used, NEW paper, Issue(used, paper),
           established \subseteq established', Earned(paper, established')
    PROVE  EarnedInv'
  <1>1. ASSUME NEW x \in papers' PROVE x \in papers \/ x = paper
    BY DEF Issue
  <1>2. ASSUME NEW x \in papers PROVE Earned(x, established')
    BY DEF EarnedInv, Earned
  <1> QED
    BY <1>1, <1>2 DEF EarnedInv, Earned

(* The same where nothing is found out.                                    *)
LEMMA IssuesKeeps ==
    ASSUME EarnedInv, NEW used, NEW paper, Issues(used, paper), Earned(paper, established)
    PROVE  EarnedInv'
  BY IssueKeeps DEF Issues

(* A paper an action of its own writes.                                    *)
LEMMA PaperFields ==
    ASSUME NEW kind, NEW id, NEW verdict
    PROVE  LET x == Paper(kind, id, id, verdict) IN
           DOMAIN x = Fields /\ x.kind = kind /\ x.id = id /\ x.source = id /\ x.verdict = verdict
  BY DEF Paper, Fields

(* What a boundary copies, and what it sets.                               *)
LEMMA BecomesFields ==
    ASSUME EarnedInv, NEW x \in papers, NEW kind, NEW verdict
    PROVE  LET y == Becomes(x, kind, verdict) IN
           /\ DOMAIN y = Fields /\ y.kind = kind /\ y.verdict = verdict
           /\ y.id = x.id /\ y.source = x.id
  BY DEF EarnedInv, Earned, Becomes, Fields

(* A boundary with one input keeps the invariant when every paper it may
   issue is earned by its input.                                           *)
LEMMA PassesKeeps ==
    ASSUME EarnedInv, NEW before, NEW accepted, NEW after, NEW verdicts,
           Passes(before, accepted, after, verdicts),
           \A x \in Held(before), verdict \in verdicts :
              x.verdict \in accepted => Earned(Becomes(x, after, verdict), established)
    PROVE  EarnedInv'
  BY IssuesKeeps DEF Passes, Held

-----------------------------------------------------------------------------

LEMMA StepKeeps ==
    ASSUME EarnedInv, AdaptationNext
    PROVE  EarnedInv'
  <1>1. CASE TakeKnowledge
    <2>1. PICK cycle \in Completed :
             /\ Issue({}, Paper("TrustedKnowledge", cycle, cycle, "TRUSTED"))
             /\ Establishes(Observed("MATCHED", cycle, CHOOSE report \in Reports : TRUE))
      BY <1>1 DEF TakeKnowledge
    <2>2. Earned(Paper("TrustedKnowledge", cycle, cycle, "TRUSTED"), established')
      BY PaperFields DEF Earned, AboutApplied, Judged, Audited, Admission
    <2>3. established \subseteq established'
      BY <2>1 DEF Establishes
    <2> QED
      BY <2>1, <2>2, <2>3, IssueKeeps
  <1>2. CASE AuthorizeUse
    <2>1. \A x \in Held("TrustedKnowledge"), verdict \in {"AUTHORIZED"} :
             x.verdict \in {"TRUSTED"}
                => Earned(Becomes(x, "TrustedKnowledgeUse", verdict), established)
      BY BecomesFields DEF EarnedInv, Held, Earned, AboutApplied, Judged, Audited, Admission
    <2>2. Passes("TrustedKnowledge", {"TRUSTED"}, "TrustedKnowledgeUse", {"AUTHORIZED"})
      BY <1>2 DEF AuthorizeUse
    <2> QED
      BY <2>1, <2>2, PassesKeeps
  <1>3. CASE RecordMemory
    <2>1. PICK x \in Held("TrustedKnowledge"), id \in PaperIds :
             Issues({x}, Paper("KnowledgeMemoryRecord", id, id, "RECORDED"))
      BY <1>3 DEF RecordMemory
    <2>2. Earned(Paper("KnowledgeMemoryRecord", id, id, "RECORDED"), established)
      BY PaperFields DEF Earned, AboutApplied, Judged, Audited, Admission
    <2> QED
      BY <2>1, <2>2, IssuesKeeps
  <1>4. CASE AuditMemory
    <2>1. PICK x \in Held("KnowledgeMemoryRecord") :
             Issues({}, Becomes(x, "MemoryAuditDecision", "AUDITABLE"))
      BY <1>4 DEF AuditMemory
    <2>2. Earned(Becomes(x, "MemoryAuditDecision", "AUDITABLE"), established)
      BY <2>1, BecomesFields
      DEF EarnedInv, Held, Earned, AboutApplied, Judged, Audited, Admission
    <2> QED
      BY <2>1, <2>2, IssuesKeeps
  <1>5. CASE RunLab
    <2>1. PICK audit \in Held("MemoryAuditDecision"), record \in Held("KnowledgeMemoryRecord") :
             Issues({audit, record}, Becomes(record, "KnowledgeLabRun", "RUN"))
      BY <1>5 DEF RunLab
    <2>2. Earned(Becomes(record, "KnowledgeLabRun", "RUN"), established)
      BY BecomesFields DEF EarnedInv, Held, Earned, AboutApplied, Judged, Audited, Admission
    <2> QED
      BY <2>1, <2>2, IssuesKeeps
  <1>6. CASE ProposeAdaptation
    <2>1. PICK x \in Held("KnowledgeLabRun"), id \in PaperIds :
             Issues({x}, Paper("AdaptationProposal", id, id, "NOT_APPLIED"))
      BY <1>6 DEF ProposeAdaptation
    <2>2. Earned(Paper("AdaptationProposal", id, id, "NOT_APPLIED"), established)
      BY PaperFields DEF Earned, AboutApplied, Judged, Audited, Admission
    <2> QED
      BY <2>1, <2>2, IssuesKeeps
  <1>7. CASE EvaluateProposal
    <2>1. PICK x \in Held("AdaptationProposal"), status \in {"APPROVED", "REJECTED", "NEEDS_REVIEW"} :
             /\ Issue({}, Becomes(x, "AdaptationEvaluation", status))
             /\ established' = established \cup {f \in {<<"APPROVED", x.id>>} : status = "APPROVED"}
      BY <1>7 DEF EvaluateProposal
    <2>2. Earned(Becomes(x, "AdaptationEvaluation", status), established')
      BY <2>1, BecomesFields
      DEF EarnedInv, Held, Earned, AboutApplied, Judged, Audited, Admission
    <2> QED
      BY <2>1, <2>2, IssueKeeps
  <1>8. CASE ApplyAdaptation
    <2>1. PICK proposal \in Held("AdaptationProposal"), evaluation \in Held("AdaptationEvaluation") :
             /\ evaluation.id = proposal.id /\ evaluation.verdict = "APPROVED"
             /\ Issues({proposal}, Becomes(proposal, "AppliedAdaptation", "APPLIED"))
      BY <1>8 DEF ApplyAdaptation
    <2>2. <<"APPROVED", proposal.id>> \in established
      BY <2>1 DEF EarnedInv, Earned, Held
    <2>3. Earned(Becomes(proposal, "AppliedAdaptation", "APPLIED"), established)
      BY <2>2, BecomesFields DEF Held, Earned, AboutApplied, Judged, Audited, Admission
    <2> QED
      BY <2>1, <2>3, IssuesKeeps
  <1>9. CASE AuditAdaptation
    <2>1. PICK evaluation \in Held("AdaptationEvaluation"), application \in Held("AppliedAdaptation") :
             Issues({evaluation}, Becomes(application, "AdaptationCycleAudit", "COMPLETE"))
      BY <1>9 DEF AuditAdaptation
    <2>2. Earned(Becomes(application, "AdaptationCycleAudit", "COMPLETE"), established)
      BY BecomesFields DEF EarnedInv, Held, Earned, AboutApplied, Judged, Audited, Admission
    <2> QED
      BY <2>1, <2>2, IssuesKeeps
  <1>10. CASE ActivateAdaptation
    <2>1. \A x \in Held("AppliedAdaptation"), verdict \in {"ACTIVE"} :
             x.verdict \in {"APPLIED"}
                => Earned(Becomes(x, "AdaptationActivation", verdict), established)
      BY BecomesFields DEF EarnedInv, Held, Earned, AboutApplied, Judged, Audited, Admission
    <2>2. Passes("AppliedAdaptation", {"APPLIED"}, "AdaptationActivation", {"ACTIVE"})
      BY <1>10 DEF ActivateAdaptation
    <2> QED
      BY <2>1, <2>2, PassesKeeps
  <1>11. CASE ObserveAdaptation
    <2>1. \A x \in Held("AdaptationActivation"), verdict \in {"SEEN"} :
             x.verdict \in {"ACTIVE"}
                => Earned(Becomes(x, "AdaptationObservation", verdict), established)
      BY BecomesFields DEF EarnedInv, Held, Earned, AboutApplied, Judged, Audited, Admission
    <2>2. Passes("AdaptationActivation", {"ACTIVE"}, "AdaptationObservation", {"SEEN"})
      BY <1>11 DEF ObserveAdaptation
    <2> QED
      BY <2>1, <2>2, PassesKeeps
  <1>12. CASE EvaluateObservation
    <2>1. \A x \in Held("AdaptationObservation"), verdict \in {"SUPPORTED", "NOT_SUPPORTED", "INCONCLUSIVE"} :
             x.verdict \in {"SEEN"}
                => Earned(Becomes(x, "PostAdaptationEvaluation", verdict), established)
      BY BecomesFields DEF EarnedInv, Held, Earned, AboutApplied, Judged, Audited, Admission
    <2>2. Passes("AdaptationObservation", {"SEEN"},
                 "PostAdaptationEvaluation", {"SUPPORTED", "NOT_SUPPORTED", "INCONCLUSIVE"})
      BY <1>12 DEF EvaluateObservation
    <2> QED
      BY <2>1, <2>2, PassesKeeps
  <1>13. CASE ConsolidateCycle
    <2>1. \A x \in Held("PostAdaptationEvaluation"), verdict \in {"CONSOLIDATED"} :
             x.verdict \in {"SUPPORTED", "NOT_SUPPORTED", "INCONCLUSIVE"}
                => Earned(Becomes(x, "AdaptationCycleRecord", verdict), established)
      BY BecomesFields DEF EarnedInv, Held, Earned, AboutApplied, Judged, Audited, Admission
    <2>2. Passes("PostAdaptationEvaluation", {"SUPPORTED", "NOT_SUPPORTED", "INCONCLUSIVE"},
                 "AdaptationCycleRecord", {"CONSOLIDATED"})
      BY <1>13 DEF ConsolidateCycle
    <2> QED
      BY <2>1, <2>2, PassesKeeps
  <1>14. CASE DisposeOfAdaptation
    <2>1. \A x \in Held("AdaptationCycleRecord"), verdict \in Dispositions :
             x.verdict \in {"CONSOLIDATED"}
                => Earned(Becomes(x, "AdaptationDisposition", verdict), established)
      BY BecomesFields DEF EarnedInv, Held, Earned, AboutApplied, Judged, Audited, Admission
    <2>2. Passes("AdaptationCycleRecord", {"CONSOLIDATED"},
                 "AdaptationDisposition", Dispositions)
      BY <1>14 DEF DisposeOfAdaptation
    <2> QED
      BY <2>1, <2>2, PassesKeeps
  <1>15. CASE JudgeEligibility
    <2>1. PICK x \in Held("AdaptationDisposition"), verdict \in Eligibilities :
             /\ Issue({x}, Becomes(x, "NextCycleEligibility", verdict))
             /\ established' = established \cup {f \in {<<"ELIGIBLE", x.source>>} : verdict = "ELIGIBLE"}
      BY <1>15 DEF JudgeEligibility, Finds
    <2>2. Earned(Becomes(x, "NextCycleEligibility", verdict), established')
      BY <2>1, BecomesFields
      DEF EarnedInv, Held, Earned, AboutApplied, Judged, Audited, Admission
    <2> QED
      BY <2>1, <2>2, IssueKeeps
  <1>16. CASE CloseAdaptationCycle
    <2>1. PICK x \in Held("NextCycleEligibility") :
             Issues({x}, Becomes(x, "AdaptationCycleClosure", x.verdict))
      BY <1>16 DEF CloseAdaptationCycle
    <2>2. Earned(Becomes(x, "AdaptationCycleClosure", x.verdict), established)
      BY <2>1, BecomesFields
      DEF EarnedInv, Held, Earned, AboutApplied, Judged, Audited, Admission
    <2> QED
      BY <2>1, <2>2, IssuesKeeps
  <1>17. CASE AuditClosure
    <2>1. PICK x \in Held("AdaptationCycleClosure"), status \in {"VERIFIED", "BLOCKED"} :
             /\ Issue({x}, Becomes(x, "CycleClosureAudit",
                                   IF status = "VERIFIED" THEN x.verdict ELSE "BLOCKED"))
             /\ established' = established \cup {f \in {<<"VERIFIED", x.id>>} : status = "VERIFIED"}
      BY <1>17 DEF AuditClosure
    <2>2. CASE status = "VERIFIED"
      <3>1. Earned(Becomes(x, "CycleClosureAudit", x.verdict), established')
        BY <2>1, <2>2, BecomesFields
        DEF EarnedInv, Held, Earned, AboutApplied, Judged, Audited, Admission
      <3> QED
        BY <2>1, <2>2, <3>1, IssueKeeps
    <2>3. CASE status = "BLOCKED"
      <3>1. Earned(Becomes(x, "CycleClosureAudit", "BLOCKED"), established')
        BY <2>1, <2>3, BecomesFields
        DEF EarnedInv, Held, Earned, AboutApplied, Judged, Audited, Admission
      <3> QED
        BY <2>1, <2>3, <3>1, IssueKeeps
    <2> QED
      BY <2>1, <2>2, <2>3
  <1>18. CASE ArchiveCycle
    <2>1. PICK x \in Held("CycleClosureAudit") :
             Issues({x}, Becomes(x, "CycleArchiveRecord", x.verdict)) /\ x.verdict # "BLOCKED"
      BY <1>18 DEF ArchiveCycle
    <2>2. Earned(Becomes(x, "CycleArchiveRecord", x.verdict), established)
      BY <2>1, BecomesFields
      DEF EarnedInv, Held, Earned, AboutApplied, Judged, Audited, Admission
    <2> QED
      BY <2>1, <2>2, IssuesKeeps
  <1>19. CASE AdmitNextCycle
    <2>1. \A x \in Held("CycleArchiveRecord"), verdict \in {"ADMITTED"} :
             x.verdict \in {"ELIGIBLE"}
                => Earned(Becomes(x, "NextCycleAdmission", verdict), established)
      BY BecomesFields DEF EarnedInv, Held, Earned, AboutApplied, Judged, Audited, Admission
    <2>2. Passes("CycleArchiveRecord", {"ELIGIBLE"}, "NextCycleAdmission", {"ADMITTED"})
      BY <1>19 DEF AdmitNextCycle
    <2> QED
      BY <2>1, <2>2, PassesKeeps
  <1>20. CASE HandOverCycle
    <2>1. \A x \in Held("NextCycleAdmission"), verdict \in {"HANDED"} :
             x.verdict \in {"ADMITTED"}
                => Earned(Becomes(x, "NextCycleHandoff", verdict), established)
      BY BecomesFields DEF EarnedInv, Held, Earned, AboutApplied, Judged, Audited, Admission
    <2>2. Passes("NextCycleAdmission", {"ADMITTED"}, "NextCycleHandoff", {"HANDED"})
      BY <1>20 DEF HandOverCycle
    <2> QED
      BY <2>1, <2>2, PassesKeeps
  <1>21. CASE ValidateHandoff
    <2>1. \A x \in Held("NextCycleHandoff"), verdict \in {"VERIFIED", "BLOCKED"} :
             x.verdict \in {"HANDED"}
                => Earned(Becomes(x, "HandoffValidation", verdict), established)
      BY BecomesFields DEF EarnedInv, Held, Earned, AboutApplied, Judged, Audited, Admission
    <2>2. Passes("NextCycleHandoff", {"HANDED"},
                 "HandoffValidation", {"VERIFIED", "BLOCKED"})
      BY <1>21 DEF ValidateHandoff
    <2> QED
      BY <2>1, <2>2, PassesKeeps
  <1>22. CASE CreateContext
    <2>1. \A x \in Held("HandoffValidation"), verdict \in {"CREATED"} :
             x.verdict \in {"VERIFIED"}
                => Earned(Becomes(x, "NextCycleContext", verdict), established)
      BY BecomesFields DEF EarnedInv, Held, Earned, AboutApplied, Judged, Audited, Admission
    <2>2. Passes("HandoffValidation", {"VERIFIED"}, "NextCycleContext", {"CREATED"})
      BY <1>22 DEF CreateContext
    <2> QED
      BY <2>1, <2>2, PassesKeeps
  <1>23. CASE Forget
    BY <1>23 DEF Forget, EarnedInv, Earned
  <1> QED
    BY <1>1, <1>2, <1>3, <1>4, <1>5, <1>6, <1>7, <1>8, <1>9, <1>10, <1>11, <1>12,
       <1>13, <1>14, <1>15, <1>16, <1>17, <1>18, <1>19, <1>20, <1>21, <1>22, <1>23
    DEF AdaptationNext

(* What reaches the next cycle was approved, eligible and verified, for any
   ids and papers: see NextCycleWasEarned.                                 *)
THEOREM AdaptationsAreEarned == AdaptationSpec => []NextCycleWasEarned
  <1>1. PapersInit => EarnedInv
    BY DEF PapersInit, EarnedInv
  <1>2. EarnedInv /\ [AdaptationNext]_paperVars => EarnedInv'
    <2>1. EarnedInv /\ UNCHANGED paperVars => EarnedInv'
      BY DEF paperVars, EarnedInv, Earned
    <2> QED
      BY <2>1, StepKeeps
  <1>3. EarnedInv => NextCycleWasEarned
    BY DEF EarnedInv, Earned, NextCycleWasEarned, Applied, AboutApplied, Admission, Held
  <1> QED
    BY <1>1, <1>2, <1>3, PTL DEF AdaptationSpec

-----------------------------------------------------------------------------
(* The same of LearningEvidence, where the papers come from: knowledge is
   learned of cycles an observation from outside agreed with.              *)

EvidenceSpec == PapersInit /\ [][EvidenceNext]_paperVars

CycleFields == {"kind", "id", "ending", "outcome", "gain", "verdict"}

(* What an observation from outside has told of a cycle that was not blocked. *)
Corroborated(cycle, findings) ==
    /\ cycle \notin Blocked
    /\ \E report \in Reports : <<cycle, report>> \in findings

(* Whether one outcome at most was recorded of a cycle; whether an
   observation said what a paper says; and that it did if nothing else was
   recorded.                                                               *)
OneRecorded(cycle, findings) ==
    \A r1, r2 \in Reports :
       <<"RECORDED", cycle, r1>> \in findings /\ <<"RECORDED", cycle, r2>> \in findings => r1 = r2

ReportOf(x) == [outcome |-> x.outcome, gain |-> x.gain]

Confirmed(x, findings) == <<x.id, ReportOf(x)>> \in findings

ConfirmedIfAlone(x, findings) == OneRecorded(x.id, findings) => Confirmed(x, findings)

(* The papers of what is learned of a cycle; the verdicts a reconciliation
   gives, and the two that say an observation agreed.                      *)
OfLearning == {"LearningHypothesis", "LearningValidation", "TrustedKnowledge"}

Compared == {"OutcomeReconciliation", "AutomationResultSnapshot"}

States == {"MATCHED", "MISMATCHED", "UNVERIFIED"}

Agreed == {"AutomationResultSnapshot", "LearningIngestionRecord"}

(* What a paper's kind and verdict say of its cycle. The reconciliation
   alone does not exclude a blocked cycle and names no outcome, only one
   that was recorded; the outcome alone says nothing but that it was
   recorded, and nothing at all of a blocked cycle: it is the snapshot that
   puts the two together.                                                  *)
Sound(x, findings) ==
    /\ DOMAIN x = CycleFields
    /\ x.kind = "AutomationClosure" /\ x.id \in Blocked => x.ending = "BLOCKED"
    /\ x.kind = "AutomationOutcome" =>
          IF x.id \in Blocked THEN x.outcome = "UNKNOWN"
          ELSE ReportOf(x) \in Reports /\ <<"RECORDED", x.id, ReportOf(x)>> \in findings
    /\ x.kind \in Compared => x.verdict \in States
    /\ x.kind = "LearningIngestionRecord" => x.verdict \in States \cup {"VERIFIED"}
    /\ x.kind = "OutcomeReconciliation" /\ x.verdict = "MATCHED" /\ x.id \notin Blocked =>
          \E r \in Reports : <<x.id, r>> \in findings /\ <<"RECORDED", x.id, r>> \in findings
    /\ x.kind \in Agreed /\ x.verdict \in {"MATCHED", "VERIFIED"} =>
          Corroborated(x.id, findings) /\ ConfirmedIfAlone(x, findings)
    /\ x.kind \in OfLearning => Corroborated(x.id, findings) /\ x.verdict # "FACTUAL"
    /\ x.verdict = "FACTUAL" => Corroborated(x.id, findings) /\ ConfirmedIfAlone(x, findings)
    /\ x.kind = "PostDemoLearningResult" /\ x.verdict = "FACTUAL" => Confirmed(x, findings)

SoundInv == \A x \in papers : Sound(x, established)

(* More findings confirm no less, and leave no more cycles with one outcome. *)
LEMMA SoundStays ==
    ASSUME NEW x, NEW findings, NEW later, findings \subseteq later, Sound(x, findings)
    PROVE  Sound(x, later)
  <1>1. Corroborated(x.id, findings) => Corroborated(x.id, later)
    BY DEF Corroborated
  <1>2. ConfirmedIfAlone(x, findings) => ConfirmedIfAlone(x, later)
    BY DEF ConfirmedIfAlone, OneRecorded, Confirmed
  <1>3. Confirmed(x, findings) => Confirmed(x, later)
    BY DEF Confirmed
  <1> QED
    BY <1>1, <1>2, <1>3 DEF Sound

LEMMA IssueIsSound ==
    ASSUME SoundInv, NEW used, NEW paper, Issue(used, paper),
           established \subseteq established', Sound(paper, established')
    PROVE  SoundInv'
  <1>1. ASSUME NEW x \in papers' PROVE x \in papers \/ x = paper
    BY DEF Issue
  <1>2. ASSUME NEW x \in papers PROVE Sound(x, established')
    BY SoundStays DEF SoundInv
  <1> QED
    BY <1>1, <1>2 DEF SoundInv

LEMMA IssuesAreSound ==
    ASSUME SoundInv, NEW used, NEW paper, Issues(used, paper), Sound(paper, established)
    PROVE  SoundInv'
  BY IssueIsSound DEF Issues

(* What each constructor of a paper sets, and what it copies.              *)
LEMMA CycleFieldsOf ==
    ASSUME NEW cycle, NEW ending
    PROVE  LET y == CyclePaper(cycle, ending) IN
           /\ DOMAIN y = CycleFields /\ y.kind = "AutomationClosure" /\ y.id = cycle
           /\ y.ending = ending /\ y.outcome = "UNKNOWN" /\ y.gain = NoGain /\ y.verdict = "CLOSED"
  BY DEF CyclePaper, CycleFields

LEMMA BecomesKeepsFields ==
    ASSUME NEW x, DOMAIN x = CycleFields, NEW kind, NEW verdict
    PROVE  LET y == Becomes(x, kind, verdict) IN
           /\ DOMAIN y = CycleFields /\ y.kind = kind /\ y.verdict = verdict
           /\ y.id = x.id /\ y.ending = x.ending /\ y.outcome = x.outcome /\ y.gain = x.gain
  BY DEF Becomes, CycleFields

LEMMA OutcomeFields ==
    ASSUME NEW closure, DOMAIN closure = CycleFields, NEW report
    PROVE  LET y == OutcomeOf(closure, report) IN
           /\ DOMAIN y = CycleFields /\ y.kind = "AutomationOutcome" /\ y.verdict = "RECORDED"
           /\ y.id = closure.id /\ y.ending = closure.ending
           /\ y.outcome = report.outcome /\ y.gain = report.gain
  BY DEF OutcomeOf, Becomes, CycleFields

LEMMA ReconciliationFields ==
    ASSUME NEW outcome, NEW state
    PROVE  LET y == ReconciliationOf(outcome, state) IN
           /\ DOMAIN y = CycleFields /\ y.kind = "OutcomeReconciliation"
           /\ y.verdict = state /\ y.id = outcome.id
  BY DEF ReconciliationOf, CyclePaper, CycleFields

LEMMA ReportIsItsFields ==
    ASSUME NEW report \in Reports
    PROVE  report = [outcome |-> report.outcome, gain |-> report.gain]
  BY EvidenceAssumption

(* An observation agrees when it names the cycle and says what the outcome
   says; what it said is then established.                                 *)
LEMMA AgreementIsEstablished ==
    ASSUME NEW outcome, NEW cycle, NEW report \in Reports, NEW state,
           state = Comparison(outcome, cycle, report),
           NEW findings, Observed(state, cycle, report) \subseteq findings
    PROVE  /\ state \in States
           /\ state = "MATCHED" =>
                 /\ report = ReportOf(outcome)
                 /\ outcome.id \notin Blocked => <<outcome.id, report>> \in findings
  BY ReportIsItsFields DEF Comparison, Observed, States, ReportOf

(* A blocked cycle's outcome is unknown, as the closure it is made of says. *)
LEMMA RecordedOutcome ==
    ASSUME SoundInv, NEW closure \in Held("AutomationClosure"), NEW report,
           Recordable(closure, report)
    PROVE  closure.id \in Blocked => report.outcome = "UNKNOWN"
  BY DEF SoundInv, Sound, Held, Recordable

LEMMA HandedFields ==
    ASSUME NEW x, DOMAIN x = CycleFields, NEW y,
           y = Becomes(x, "PostDemoLearningResult", x.verdict)
    PROVE  /\ DOMAIN y = CycleFields /\ y.kind = "PostDemoLearningResult"
           /\ y.id = x.id /\ y.outcome = x.outcome /\ y.gain = x.gain
           /\ y.verdict = x.verdict
  <1>1. PICK verdict : verdict = x.verdict
    OBVIOUS
  <1> QED
    BY <1>1, BecomesKeepsFields

LEMMA HandoffFields ==
    ASSUME NEW x, DOMAIN x = CycleFields, NEW y, y = HandoffOf(x)
    PROVE  /\ DOMAIN y = CycleFields /\ y.kind = "OperationLearningHandoff"
           /\ y.id = x.id /\ y.outcome = x.outcome /\ y.gain = x.gain
           /\ y.verdict = (IF Eligibility(x) = "VERIFIED" THEN "FACTUAL" ELSE "NO EVIDENCE")
  <1>1. PICK verdict : verdict = IF Eligibility(x) = "VERIFIED" THEN "FACTUAL" ELSE "NO EVIDENCE"
    OBVIOUS
  <1>2. y = Becomes(x, "OperationLearningHandoff", verdict)
    BY <1>1 DEF HandoffOf
  <1>3. /\ DOMAIN y = CycleFields /\ y.kind = "OperationLearningHandoff"
        /\ y.id = x.id /\ y.outcome = x.outcome /\ y.gain = x.gain /\ y.verdict = verdict
    BY <1>2, BecomesKeepsFields
  <1> QED
    BY <1>1, <1>3

(* P139 issues one paper for the four boundaries; its verdict is FACTUAL
   only where the outcome of a cycle that was not blocked agreed.           *)
LEMMA LearnedIsSound ==
    ASSUME SoundInv, NEW closure \in Held("AutomationClosure"), NEW report \in Reports,
           Recordable(closure, report), NEW cycle, NEW seen \in Reports, NEW state,
           state = Comparison(OutcomeOf(closure, report), cycle, seen),
           Establishes(Recorded(closure.id, report) \cup Observed(state, cycle, seen)),
           Composable(closure, OutcomeOf(closure, report),
                      ReconciliationOf(OutcomeOf(closure, report), state)),
           NEW handed, handed = HandoffOf(SnapshotOf(OutcomeOf(closure, report), state)),
           NEW paper, paper = Becomes(handed, "PostDemoLearningResult", handed.verdict),
           Issue({closure}, paper)
    PROVE  SoundInv'
  <1>1. PICK outcome : outcome = OutcomeOf(closure, report)
    OBVIOUS
  <1>2. DOMAIN closure = CycleFields
    BY DEF SoundInv, Sound, Held
  <1>3. /\ DOMAIN outcome = CycleFields /\ outcome.id = closure.id
        /\ outcome.outcome = report.outcome /\ outcome.gain = report.gain
    BY <1>1, <1>2, OutcomeFields
  <1>4. /\ DOMAIN handed = CycleFields /\ handed.id = closure.id
        /\ handed.outcome = report.outcome /\ handed.gain = report.gain
        /\ handed.verdict = (IF state = "MATCHED" THEN "FACTUAL" ELSE "NO EVIDENCE")
    <2>1. PICK snapshot : snapshot = SnapshotOf(outcome, state)
      OBVIOUS
    <2>2. /\ DOMAIN snapshot = CycleFields /\ snapshot.id = closure.id
          /\ snapshot.outcome = report.outcome /\ snapshot.gain = report.gain
          /\ snapshot.verdict = state
      BY <1>3, <2>1, BecomesKeepsFields DEF SnapshotOf
    <2>3. Eligibility(snapshot) = "VERIFIED" <=> state = "MATCHED"
      BY <2>2 DEF Eligibility, Comparison
    <2> QED
      BY ZenonT(30), <1>1, <2>1, <2>2, <2>3, HandoffFields
  <1>5. /\ DOMAIN paper = CycleFields /\ paper.kind = "PostDemoLearningResult"
        /\ paper.id = closure.id /\ paper.outcome = report.outcome /\ paper.gain = report.gain
        /\ paper.verdict = (IF state = "MATCHED" THEN "FACTUAL" ELSE "NO EVIDENCE")
    <2>1. /\ DOMAIN paper = CycleFields /\ paper.kind = "PostDemoLearningResult"
          /\ paper.id = handed.id /\ paper.outcome = handed.outcome /\ paper.gain = handed.gain
          /\ paper.verdict = handed.verdict
      BY ZenonT(30), <1>4, HandedFields
    <2> QED
      BY <1>4, <2>1
  <1>6. /\ established \subseteq established'
        /\ state = "MATCHED" =>
              /\ seen = report
              /\ closure.id \notin Blocked => <<closure.id, seen>> \in established'
    <2>1. established \subseteq established' /\ Observed(state, cycle, seen) \subseteq established'
      BY DEF Establishes
    <2>2. ReportOf(outcome) = report
      BY <1>3, ReportIsItsFields DEF ReportOf
    <2> QED
      BY <1>1, <1>3, <2>1, <2>2, AgreementIsEstablished
  <1>7. state = "MATCHED" => report.outcome # "UNKNOWN"
    <2>1. ReconciliationOf(outcome, state).verdict = state
      BY ReconciliationFields
    <2> QED
      BY <1>1, <1>3, <2>1 DEF Composable
  <1>8. state = "MATCHED" => closure.id \notin Blocked
    BY <1>7, RecordedOutcome
  <1>9. state = "MATCHED" => Corroborated(closure.id, established')
    BY <1>6, <1>8 DEF Corroborated
  <1>10. state = "MATCHED" => Confirmed(paper, established')
    BY <1>5, <1>6, <1>8, ReportIsItsFields DEF Confirmed, ReportOf
  <1>11. Sound(paper, established')
    BY <1>5, <1>9, <1>10 DEF Sound, Compared, Agreed, OfLearning, ConfirmedIfAlone
  <1> QED
    BY <1>6, <1>11, IssueIsSound

(* The same without an observation: nothing is claimed, and nothing needed. *)
LEMMA UnverifiedIsSound ==
    ASSUME SoundInv, NEW closure \in Held("AutomationClosure"), NEW report,
           NEW handed, handed = HandoffOf(SnapshotOf(OutcomeOf(closure, report), "UNVERIFIED")),
           NEW paper, paper = Becomes(handed, "PostDemoLearningResult", handed.verdict),
           Issue({closure}, paper), Establishes(Recorded(closure.id, report))
    PROVE  SoundInv'
  <1>1. DOMAIN closure = CycleFields
    BY DEF SoundInv, Sound, Held
  <1>2. PICK snapshot : snapshot = SnapshotOf(OutcomeOf(closure, report), "UNVERIFIED")
    OBVIOUS
  <1>3. DOMAIN snapshot = CycleFields /\ snapshot.verdict = "UNVERIFIED"
    BY <1>1, <1>2, OutcomeFields, BecomesKeepsFields DEF SnapshotOf
  <1>4. DOMAIN handed = CycleFields /\ handed.verdict = "NO EVIDENCE"
    BY <1>2, <1>3, HandoffFields DEF Eligibility
  <1>5. /\ DOMAIN paper = CycleFields /\ paper.kind = "PostDemoLearningResult"
        /\ paper.verdict = "NO EVIDENCE"
    BY <1>4, HandedFields
  <1>6. Sound(paper, established')
    BY <1>5 DEF Sound, Compared, Agreed, OfLearning
  <1> QED
    BY <1>6, IssueIsSound DEF Establishes

(* A paper that says what the one before said is as well confirmed.        *)
LEMMA HandedOn ==
    ASSUME NEW x, NEW y, NEW findings,
           y.id = x.id, y.outcome = x.outcome, y.gain = x.gain,
           Corroborated(x.id, findings), ConfirmedIfAlone(x, findings)
    PROVE  Corroborated(y.id, findings) /\ ConfirmedIfAlone(y, findings)
  BY DEF ConfirmedIfAlone, Confirmed, ReportOf

LEMMA EvidenceKeeps ==
    ASSUME SoundInv, EvidenceNext
    PROVE  SoundInv'
  <1>1. CASE CloseAutomation
    <2>1. PICK cycle \in Ended :
             Issues({}, CyclePaper(cycle, IF cycle \in Blocked THEN "BLOCKED" ELSE "COMPLETED"))
      BY <1>1 DEF CloseAutomation
    <2>2. PICK ending : ending = IF cycle \in Blocked THEN "BLOCKED" ELSE "COMPLETED"
      OBVIOUS
    <2>3. Sound(CyclePaper(cycle, ending), established)
      BY <2>2, CycleFieldsOf DEF Sound, Compared, Agreed, OfLearning
    <2> QED
      BY <2>1, <2>2, <2>3, IssuesAreSound
  <1>2. CASE RecordOutcome
    <2>1. PICK closure \in Held("AutomationClosure"), report \in Reports :
             /\ Recordable(closure, report) /\ Issue({}, OutcomeOf(closure, report))
             /\ Establishes(Recorded(closure.id, report))
      BY <1>2 DEF RecordOutcome
    <2>2. DOMAIN closure = CycleFields
      BY DEF SoundInv, Sound, Held
    <2>3. PICK y : y = OutcomeOf(closure, report)
      OBVIOUS
    <2>4. /\ DOMAIN y = CycleFields /\ y.kind = "AutomationOutcome" /\ y.verdict = "RECORDED"
          /\ y.id = closure.id /\ y.outcome = report.outcome /\ ReportOf(y) = report
      BY <2>2, <2>3, OutcomeFields, ReportIsItsFields DEF ReportOf
    <2>5. y.id \in Blocked => y.outcome = "UNKNOWN"
      BY <2>1, <2>4, RecordedOutcome
    <2>6. /\ established \subseteq established'
          /\ y.id \notin Blocked => <<"RECORDED", y.id, report>> \in established'
      BY <2>1, <2>4 DEF Establishes, Recorded
    <2>7. Sound(y, established')
      BY <2>4, <2>5, <2>6 DEF Sound, Compared, Agreed, OfLearning
    <2> QED
      BY <2>1, <2>3, <2>6, <2>7, IssueIsSound
  <1>3. CASE Reconcile
    <2>1. PICK outcome \in Held("AutomationOutcome") :
             \/ Issues({}, ReconciliationOf(outcome, "UNVERIFIED"))
             \/ \E cycle \in Ended, report \in Reports :
                   LET state == Comparison(outcome, cycle, report) IN
                   /\ Issue({}, ReconciliationOf(outcome, state))
                   /\ Establishes(Observed(state, cycle, report))
      BY <1>3 DEF Reconcile
    <2>2. CASE Issues({}, ReconciliationOf(outcome, "UNVERIFIED"))
      <3>1. Sound(ReconciliationOf(outcome, "UNVERIFIED"), established)
        BY ReconciliationFields DEF Sound, Compared, Agreed, OfLearning, States
      <3> QED
        BY <2>2, <3>1, IssuesAreSound
    <2>3. ASSUME NEW cycle \in Ended, NEW report \in Reports, NEW state,
                 state = Comparison(outcome, cycle, report),
                 Issue({}, ReconciliationOf(outcome, state)),
                 Establishes(Observed(state, cycle, report))
          PROVE  SoundInv'
      <3>1. /\ established \subseteq established'
            /\ Observed(state, cycle, report) \subseteq established'
        BY <2>3 DEF Establishes
      <3>2. /\ state \in States
            /\ state = "MATCHED" =>
                  /\ report = ReportOf(outcome)
                  /\ outcome.id \notin Blocked => <<outcome.id, report>> \in established'
        BY <2>3, <3>1, AgreementIsEstablished
      <3>3. outcome.id \notin Blocked => <<"RECORDED", outcome.id, ReportOf(outcome)>> \in established
        BY DEF SoundInv, Sound, Held
      <3>4. PICK y : y = ReconciliationOf(outcome, state)
        OBVIOUS
      <3>5. /\ DOMAIN y = CycleFields /\ y.kind = "OutcomeReconciliation"
            /\ y.verdict = state /\ y.id = outcome.id
        BY <3>4, ReconciliationFields
      <3>6. Sound(y, established')
        BY <3>1, <3>2, <3>3, <3>5 DEF Sound, Compared, Agreed, OfLearning, States
      <3> QED
        BY <2>3, <3>1, <3>4, <3>6, IssueIsSound
    <2> QED
      BY <2>1, <2>2, <2>3
  <1>4. CASE ComposeSnapshot
    <2>1. PICK closure \in Held("AutomationClosure"), outcome \in Held("AutomationOutcome"),
               reconciliation \in Held("OutcomeReconciliation") :
             /\ Composable(closure, outcome, reconciliation)
             /\ Issues({closure, outcome, reconciliation},
                       SnapshotOf(outcome, reconciliation.verdict))
      BY <1>4 DEF ComposeSnapshot
    <2>2. /\ DOMAIN outcome = CycleFields /\ reconciliation.verdict \in States
          /\ IF outcome.id \in Blocked THEN outcome.outcome = "UNKNOWN"
             ELSE /\ ReportOf(outcome) \in Reports
                  /\ <<"RECORDED", outcome.id, ReportOf(outcome)>> \in established
          /\ reconciliation.verdict = "MATCHED" /\ reconciliation.id \notin Blocked =>
                \E r \in Reports : /\ <<reconciliation.id, r>> \in established
                                   /\ <<"RECORDED", reconciliation.id, r>> \in established
      BY DEF SoundInv, Sound, Held, Compared
    <2>3. ASSUME reconciliation.verdict = "MATCHED"
          PROVE  Corroborated(outcome.id, established) /\ ConfirmedIfAlone(outcome, established)
      <3>1. outcome.id \notin Blocked /\ reconciliation.id = outcome.id
        BY <2>1, <2>2, <2>3 DEF Composable
      <3>2. PICK r \in Reports : /\ <<outcome.id, r>> \in established
                                 /\ <<"RECORDED", outcome.id, r>> \in established
        BY <2>2, <2>3, <3>1
      <3>3. OneRecorded(outcome.id, established) => r = ReportOf(outcome)
        BY <2>2, <3>1, <3>2 DEF OneRecorded
      <3> QED
        BY <3>1, <3>2, <3>3 DEF Corroborated, ConfirmedIfAlone, Confirmed
    <2>4. PICK y : y = SnapshotOf(outcome, reconciliation.verdict)
      OBVIOUS
    <2>5. /\ DOMAIN y = CycleFields /\ y.kind = "AutomationResultSnapshot"
          /\ y.verdict = reconciliation.verdict /\ y.id = outcome.id
          /\ y.outcome = outcome.outcome /\ y.gain = outcome.gain
      BY <2>2, <2>4, BecomesKeepsFields DEF SnapshotOf
    <2>6. ConfirmedIfAlone(outcome, established) => ConfirmedIfAlone(y, established)
      BY <2>5 DEF ConfirmedIfAlone, Confirmed, ReportOf
    <2>7. Sound(y, established)
      BY <2>2, <2>3, <2>5, <2>6 DEF Sound, Compared, Agreed, OfLearning, States
    <2> QED
      BY <2>1, <2>4, <2>7, IssuesAreSound
  <1>5. CASE Ingest
    <2>1. PICK x \in Held("AutomationResultSnapshot") :
             Issues({x}, Becomes(x, "LearningIngestionRecord", Eligibility(x)))
      BY <1>5 DEF Ingest
    <2>2. /\ DOMAIN x = CycleFields /\ x.verdict \in States
          /\ x.verdict = "MATCHED" =>
                Corroborated(x.id, established) /\ ConfirmedIfAlone(x, established)
      BY DEF SoundInv, Sound, Held, Compared, Agreed
    <2>3. PICK y : y = Becomes(x, "LearningIngestionRecord", Eligibility(x))
      OBVIOUS
    <2>4. /\ DOMAIN y = CycleFields /\ y.kind = "LearningIngestionRecord"
          /\ y.id = x.id /\ y.outcome = x.outcome /\ y.gain = x.gain
          /\ y.verdict = (IF x.verdict = "MATCHED" THEN "VERIFIED" ELSE x.verdict)
      BY <2>2, <2>3, BecomesKeepsFields DEF Eligibility
    <2>5. Sound(y, established)
      BY <2>2, <2>4, HandedOn DEF Sound, Compared, Agreed, OfLearning, States
    <2> QED
      BY <2>1, <2>3, <2>5, IssuesAreSound
  <1>6. CASE BuildEvidence
    <2>1. PICK x \in Held("LearningIngestionRecord") :
             x.verdict = "VERIFIED" /\ Issues({x}, Becomes(x, "LearningEvidence", "FACTUAL"))
      BY <1>6 DEF BuildEvidence
    <2>2. /\ DOMAIN x = CycleFields
          /\ Corroborated(x.id, established) /\ ConfirmedIfAlone(x, established)
      BY <2>1 DEF SoundInv, Sound, Held, Agreed
    <2>3. PICK y : y = Becomes(x, "LearningEvidence", "FACTUAL")
      OBVIOUS
    <2>4. /\ DOMAIN y = CycleFields /\ y.kind = "LearningEvidence" /\ y.verdict = "FACTUAL"
          /\ y.id = x.id /\ y.outcome = x.outcome /\ y.gain = x.gain
      BY <2>2, <2>3, BecomesKeepsFields
    <2>5. Sound(y, established)
      BY <2>2, <2>4, HandedOn DEF Sound, Compared, Agreed, OfLearning
    <2> QED
      BY <2>1, <2>3, <2>5, IssuesAreSound
  <1>7. CASE HandOff
    <2>1. PICK x \in Held("AutomationResultSnapshot") : Issues({x}, HandoffOf(x))
      BY <1>7 DEF HandOff
    <2>2. /\ DOMAIN x = CycleFields /\ x.verdict \in States
          /\ x.verdict = "MATCHED" =>
                Corroborated(x.id, established) /\ ConfirmedIfAlone(x, established)
      BY DEF SoundInv, Sound, Held, Compared, Agreed
    <2>3. PICK y : y = HandoffOf(x)
      OBVIOUS
    <2>4. /\ DOMAIN y = CycleFields /\ y.kind = "OperationLearningHandoff"
          /\ y.id = x.id /\ y.outcome = x.outcome /\ y.gain = x.gain
          /\ y.verdict = (IF x.verdict = "MATCHED" THEN "FACTUAL" ELSE "NO EVIDENCE")
      BY <2>2, <2>3, HandoffFields DEF Eligibility, States
    <2>5. Sound(y, established)
      BY <2>2, <2>4, HandedOn DEF Sound, Compared, Agreed, OfLearning
    <2> QED
      BY <2>1, <2>3, <2>5, IssuesAreSound
  <1>8. CASE LearnFromOperation
    <2>1. PICK closure \in Held("AutomationClosure"), report \in Reports :
             /\ Recordable(closure, report) /\ report.outcome \in Outcomes
             /\ LET outcome == OutcomeOf(closure, report)
                    HandsOver(state) ==
                       Becomes(HandoffOf(SnapshotOf(outcome, state)), "PostDemoLearningResult",
                               HandoffOf(SnapshotOf(outcome, state)).verdict)
                IN \/ /\ Issue({closure}, HandsOver("UNVERIFIED"))
                      /\ Establishes(Recorded(closure.id, report))
                   \/ \E cycle \in Ended, seen \in Reports :
                         LET state == Comparison(outcome, cycle, seen) IN
                         /\ Composable(closure, outcome, ReconciliationOf(outcome, state))
                         /\ Issue({closure}, HandsOver(state))
                         /\ Establishes(Recorded(closure.id, report)
                                        \cup Observed(state, cycle, seen))
      BY <1>8 DEF LearnFromOperation
    <2> QED
      BY <2>1, LearnedIsSound, UnverifiedIsSound
  <1>9. CASE ProposeHypothesis
    <2>1. PICK x \in Factual : Issues({x}, HypothesisOf(x))
      BY <1>9 DEF ProposeHypothesis
    <2>2. Corroborated(x.id, established)
      BY DEF Factual, SoundInv, Sound
    <2>3. Sound(HypothesisOf(x), established)
      <3>1. PICK y : y = CyclePaper(x.id, x.ending)
        OBVIOUS
      <3>2. DOMAIN y = CycleFields /\ y.id = x.id
        BY <3>1, CycleFieldsOf
      <3>3. PICK z : z = Becomes(y, "LearningHypothesis", "NOT VALIDATED")
        OBVIOUS
      <3>4. /\ DOMAIN z = CycleFields /\ z.id = x.id
            /\ z.kind = "LearningHypothesis" /\ z.verdict = "NOT VALIDATED"
        BY <3>2, <3>3 DEF Becomes, CycleFields
      <3>5. Sound(z, established)
        BY <2>2, <3>4 DEF Sound, Compared, Agreed, OfLearning
      <3> QED
        BY <3>1, <3>3, <3>5 DEF HypothesisOf
    <2> QED
      BY <2>1, <2>3, IssuesAreSound
  <1>10. CASE ValidateHypothesis
    <2>1. PICK x \in Held("LearningHypothesis"),
               status \in {"VALIDATED", "REJECTED", "INCONCLUSIVE"} :
             Issues({x}, Becomes(x, "LearningValidation", status))
      BY <1>10 DEF ValidateHypothesis
    <2>2. DOMAIN x = CycleFields /\ Corroborated(x.id, established)
      BY DEF SoundInv, Sound, Held, OfLearning
    <2>3. Sound(Becomes(x, "LearningValidation", status), established)
      BY <2>2, BecomesKeepsFields DEF Sound, Compared, Agreed, OfLearning
    <2> QED
      BY <2>1, <2>3, IssuesAreSound
  <1>11. CASE PromoteKnowledge
    <2>1. PICK x \in Held("LearningValidation") :
             Issues({x}, Becomes(x, "TrustedKnowledge", "TRUSTED"))
      BY <1>11 DEF PromoteKnowledge
    <2>2. DOMAIN x = CycleFields /\ Corroborated(x.id, established)
      BY DEF SoundInv, Sound, Held, OfLearning
    <2>3. Sound(Becomes(x, "TrustedKnowledge", "TRUSTED"), established)
      BY <2>2, BecomesKeepsFields DEF Sound, Compared, Agreed, OfLearning
    <2> QED
      BY <2>1, <2>3, IssuesAreSound
  <1>12. CASE Forget
    BY <1>12 DEF Forget, SoundInv
  <1> QED
    BY <1>1, <1>2, <1>3, <1>4, <1>5, <1>6, <1>7, <1>8, <1>9, <1>10, <1>11, <1>12
    DEF EvidenceNext

(* Whatever is learned is about a cycle that was not blocked and that an
   observation from outside agreed with; and what a factual paper says, an
   observation said, unless several outcomes were recorded of the cycle and
   the paper is none of P139's: see EvidenceIsCorroborated.                *)
THEOREM EvidenceWasCorroborated == EvidenceSpec => []EvidenceIsCorroborated
  <1>1. PapersInit => SoundInv
    BY DEF PapersInit, SoundInv
  <1>2. SoundInv /\ [EvidenceNext]_paperVars => SoundInv'
    <2>1. SoundInv /\ UNCHANGED paperVars => SoundInv'
      BY DEF paperVars, SoundInv
    <2> QED
      BY <2>1, EvidenceKeeps
  <1>3. SoundInv => EvidenceIsCorroborated
    <2> SUFFICES ASSUME SoundInv PROVE EvidenceIsCorroborated
      OBVIOUS
    <2>1. ASSUME NEW x \in Factual \cup Held("LearningHypothesis") \cup Held("TrustedKnowledge")
          PROVE  Corroborated(x.id, established)
      BY DEF SoundInv, Sound, Factual, OfLearning, Held
    <2>2. ASSUME NEW x \in Factual, x.kind = "PostDemoLearningResult" \/ OneOutcome(x.id)
          PROVE  <<x.id, [outcome |-> x.outcome, gain |-> x.gain]>> \in established
      <3>1. x.id \notin Blocked
        BY <2>1 DEF Corroborated
      <3>2. OneOutcome(x.id) => OneRecorded(x.id, established)
        BY <3>1 DEF OneOutcome, OneRecorded, Recorded
      <3>3. Confirmed(x, established)
        BY <2>2, <3>2 DEF SoundInv, Sound, Factual, ConfirmedIfAlone
      <3> QED
        BY <3>3 DEF Confirmed, ReportOf
    <2> QED
      BY <2>1, <2>2 DEF EvidenceIsCorroborated, Corroborated
  <1> QED
    BY <1>1, <1>2, <1>3, PTL DEF EvidenceSpec

=============================================================================
