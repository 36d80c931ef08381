---- MODULE MCServices ----
(* One run for the components beside the order's own path.  They share no    *)
(* state with each other as they are modelled, so a behaviour chooses the    *)
(* part it exercises and the other parts stay where they began: the state    *)
(* space is the sum of the parts', not their product.                        *)
EXTENDS AutomationCycle, OperationRecords, MarketReport, LearningEvidence, AdaptationGates,
        FeedbackGates, EcosystemState, RateLimit, LearningLibrary, Alerts

VARIABLE part   \* the component this behaviour exercises

ServicesInit ==
  /\ part \in {"automation", "records", "market", "evidence", "adaptation", "knowledge",
               "feedback", "state", "guard", "library", "alerts"}
  /\ AutomationInit /\ RecordsInit /\ MarketInit /\ PapersInit
  /\ StateInit /\ GuardInit /\ LibraryInit /\ AlertsInit

ServicesNext ==
  \/ /\ part = "automation" /\ AutomationNext
     /\ UNCHANGED <<part, recordVars, marketVars, paperVars, stateVars, guardVars, libraryVars,
                    alertVars>>
  \/ /\ part = "records" /\ RecordsNext
     /\ UNCHANGED <<part, automationVars, marketVars, paperVars, stateVars, guardVars, libraryVars,
                    alertVars>>
  \/ /\ part = "market" /\ MarketNext
     /\ UNCHANGED <<part, automationVars, recordVars, paperVars, stateVars, guardVars, libraryVars,
                    alertVars>>
  \/ /\ \/ part = "evidence" /\ EvidenceNext
        \/ part = "adaptation" /\ AdaptationNext
        \/ part = "knowledge" /\ KnowledgeNext
        \/ part = "feedback" /\ FeedbackNext
     /\ UNCHANGED <<part, automationVars, recordVars, marketVars, stateVars, guardVars, libraryVars,
                    alertVars>>
  \/ /\ part = "state" /\ StateNext
     /\ UNCHANGED <<part, automationVars, recordVars, marketVars, paperVars, guardVars, libraryVars,
                    alertVars>>
  \/ /\ part = "guard" /\ GuardNext
     /\ UNCHANGED <<part, automationVars, recordVars, marketVars, paperVars, stateVars, libraryVars,
                    alertVars>>
  \/ /\ part = "library" /\ LibraryNext
     /\ UNCHANGED <<part, automationVars, recordVars, marketVars, paperVars, stateVars, guardVars,
                    alertVars>>
  \/ /\ part = "alerts" /\ AlertsNext
     /\ UNCHANGED <<part, automationVars, recordVars, marketVars, paperVars, stateVars, guardVars,
                    libraryVars>>

servicesVars == <<part, automationVars, recordVars, marketVars, paperVars, stateVars, guardVars,
                  libraryVars, alertVars>>

Spec == ServicesInit /\ [][ServicesNext]_servicesVars

\* The automation alone, for the run that questions it.
AutomationSpec == ServicesInit /\ part = "automation" /\ [][ServicesNext]_servicesVars

\* The limits risk_manager.py leaves at zero are no limits, and the policy of P39 and P40.
Limits == [dailyLoss |-> 0, operations |-> 0, streak |-> 1]
Policy == [orderVolume |-> 1, totalVolume |-> 1, lossPerOperation |-> 1, dailyLoss |-> 2,
           operations |-> 2]

\* A win with its gain, a loss without, and what nobody knows.
SomeReports == [outcome : {"WIN"}, gain : Gains] \cup [outcome : {"LOSS", "UNKNOWN"}, gain : {NoGain}]

Symmetric == Permutations(AutomationThreads) \cup Permutations(AutomationCycles)
====
