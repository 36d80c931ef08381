--------------------------- MODULE OperationRecords ---------------------------
(***************************************************************************)
(* PersistentOperationalRecorder: the audit of decisions, the memory of    *)
(* operations and the kill switch, which the threads of the gateway and    *)
(* the operator's tools share, and the two files they are saved in. A      *)
(* record is named by the time of its cycle, which is taken before the     *)
(* market is read. The execution audit of the safety file, which only      *)
(* tests write, and settle_operation, which nothing calls, are left out.   *)
(***************************************************************************)
EXTENDS ReplacedFile, Naturals, FiniteSets, Sequences, SequencesExt

CONSTANTS RecordWorkers,     \* threads inside ExecutionGateway.execute
          RecordOperators,   \* threads that throw or reset the kill switch, perhaps the same
          MaxRecords,        \* bound: cycles, and so times, of a behaviour
          MaxRecordFaults    \* bound: failed file operations and restarts

ASSUME RecordsAssumption == MaxRecords \in Nat /\ MaxRecordFaults \in Nat

VARIABLES
    clock,          \* the time of the last cycle
    audit,          \* DecisionAudit: times of the decisions
    memory,         \* OperationMemory: times of the operations
    switch,         \* KillSwitch: TRUE is active
    safetyFile,     \* the file of OperationalSafetyStore
    memoryFile,     \* the file of OperationMemoryStore
    call,           \* the call of each thread
    acknowledged,   \* an activation returned and no deactivation began since it did
    calm,           \* no two saves of one file overlapped
    recordFaults

recordVars == <<clock, audit, memory, switch, safetyFile, memoryFile, call, acknowledged, calm,
                recordFaults>>

RecordThreads == RecordWorkers \cup RecordOperators

Times == 1..MaxRecords

NoRecordCall == [pc |-> "idle", at |-> 0, switch |-> FALSE, then |-> "idle"]

RecordsInit ==
    /\ clock = 0
    /\ audit = <<>> /\ memory = <<>> /\ switch = FALSE
    /\ safetyFile = NewFile([audit |-> <<>>, switch |-> FALSE])
    /\ memoryFile = NewFile(<<>>)
    /\ call = [t \in RecordThreads |-> NoRecordCall]
    /\ acknowledged = FALSE /\ calm = TRUE /\ recordFaults = 0

Moves(t, pc) == call' = [call EXCEPT ![t].pc = pc]

Leaves(t) == call' = [call EXCEPT ![t] = NoRecordCall]

RecordFault == recordFaults < MaxRecordFaults /\ recordFaults' = recordFaults + 1

(* Mutant: a record is taken at any time.                                  *)
AnyOrder(records, at) == records = <<>> \/ Last(records) <= MaxRecords

(* append of DecisionAudit and of OperationMemory: times never go back.    *)
Chronological(records, at) == records = <<>> \/ Last(records) <= at

-----------------------------------------------------------------------------

(* TradingOrchestrator.evaluate takes the time of the cycle and then reads
   the market, so that cycles may reach the gateway in another order.      *)
BeginCycle(w) ==
    /\ call[w].pc = "idle" /\ clock < MaxRecords
    /\ clock' = clock + 1
    /\ call' = [call EXCEPT ![w].pc = "decide", ![w].at = clock']
    /\ UNCHANGED <<audit, memory, switch, safetyFile, memoryFile, acknowledged, calm, recordFaults>>

(* Mutant: the decision is kept and not saved.                             *)
RecordDecisionUnsaved(w) ==
    /\ call[w].pc = "decide"
    /\ IF Chronological(audit, call[w].at)
       THEN /\ audit' = Append(audit, call[w].at)
            /\ Moves(w, "gate")
       ELSE Leaves(w) /\ UNCHANGED audit
    /\ UNCHANGED <<clock, memory, switch, safetyFile, memoryFile, acknowledged, calm, recordFaults>>

(* record_decision: the audit comes first, and a decision older than the
   last one stops the request with an exception.                           *)
RecordDecision(w) ==
    /\ call[w].pc = "decide"
    /\ IF Chronological(audit, call[w].at)
       THEN /\ audit' = Append(audit, call[w].at)
            /\ call' = [call EXCEPT ![w].pc = "state", ![w].then = "gate"]
       ELSE Leaves(w) /\ UNCHANGED audit
    /\ UNCHANGED <<clock, memory, switch, safetyFile, memoryFile, acknowledged, calm, recordFaults>>

(* The gateway looks at the switch; it, or a later check of DemoExecution,
   may refuse, and otherwise the broker accepts the order.                 *)
PassGate(w) ==
    /\ call[w].pc = "gate"
    /\ \/ Leaves(w)
       \/ ~switch /\ Moves(w, "operate")
    /\ UNCHANGED <<clock, audit, memory, switch, safetyFile, memoryFile, acknowledged, calm,
                   recordFaults>>

(* record_operation with the audit record of the decision                  *)
RecordOperation(w) ==
    /\ call[w].pc = "operate"
    /\ IF Chronological(memory, call[w].at)
       THEN /\ memory' = Append(memory, call[w].at)
            /\ Moves(w, "compose")
       ELSE Leaves(w) /\ UNCHANGED memory
    /\ UNCHANGED <<clock, audit, switch, safetyFile, memoryFile, acknowledged, calm, recordFaults>>

(* activate_kill_switch and deactivate_kill_switch                         *)
Throw(o) ==
    /\ call[o].pc = "idle"
    /\ switch' = TRUE
    /\ call' = [call EXCEPT ![o].pc = "state", ![o].then = "acknowledge"]
    /\ UNCHANGED <<clock, audit, memory, safetyFile, memoryFile, acknowledged, calm, recordFaults>>

(* An activation that has not returned yet is overtaken: its answer is old. *)
Overtaken(c) == IF c.then = "acknowledge" THEN [c EXCEPT !.then = "idle"] ELSE c

ResetSwitch(o) ==
    /\ call[o].pc = "idle"
    /\ switch' = FALSE /\ acknowledged' = FALSE
    /\ call' = [u \in RecordThreads |->
                  IF u = o THEN [call[o] EXCEPT !.pc = "state", !.then = "idle"]
                  ELSE Overtaken(call[u])]
    /\ UNCHANGED <<clock, audit, memory, safetyFile, memoryFile, calm, recordFaults>>

Acknowledge(o) ==
    /\ call[o].pc = "acknowledge"
    /\ acknowledged' = (acknowledged \/ call[o].then = "acknowledge")
    /\ Leaves(o)
    /\ UNCHANGED <<clock, audit, memory, switch, safetyFile, memoryFile, calm, recordFaults>>

-----------------------------------------------------------------------------

SavingSafety(t) == call[t].pc \in {"payload", "replace safety"}

(* OperationalSafetyStore.save takes the state of the switch, then reads
   the file, and only then the audit.                                      *)
TakeSwitch(t) ==
    /\ call[t].pc = "state"
    /\ call' = [call EXCEPT ![t].pc = "payload", ![t].switch = switch]
    /\ calm' = (calm /\ \A u \in RecordThreads : ~SavingSafety(u))
    /\ UNCHANGED <<clock, audit, memory, switch, safetyFile, memoryFile, acknowledged, recordFaults>>

WriteSafety(t) ==
    /\ call[t].pc = "payload"
    /\ safetyFile' = Written(safetyFile, [audit |-> audit, switch |-> call[t].switch])
    /\ Moves(t, "replace safety")
    /\ UNCHANGED <<clock, audit, memory, switch, memoryFile, acknowledged, calm, recordFaults>>

ReplaceSafety(t) ==
    /\ call[t].pc = "replace safety" /\ CanReplace(safetyFile)
    /\ safetyFile' = Replaced(safetyFile)
    /\ IF call[t].then = "idle" THEN Leaves(t) ELSE Moves(t, call[t].then)
    /\ UNCHANGED <<clock, audit, memory, switch, memoryFile, acknowledged, calm, recordFaults>>

(* OperationMemoryStore.save writes all operations there are.              *)
WriteMemory(t) ==
    /\ call[t].pc = "compose"
    /\ memoryFile' = Written(memoryFile, memory)
    /\ Moves(t, "replace memory")
    /\ calm' = (calm /\ \A u \in RecordThreads : call[u].pc # "replace memory")
    /\ UNCHANGED <<clock, audit, memory, switch, safetyFile, acknowledged, recordFaults>>

(* record_operation saves the memory and then the safety state.            *)
ReplaceMemory(t) ==
    /\ call[t].pc = "replace memory" /\ CanReplace(memoryFile)
    /\ memoryFile' = Replaced(memoryFile)
    /\ call' = [call EXCEPT ![t].pc = "state", ![t].then = "idle"]
    /\ UNCHANGED <<clock, audit, memory, switch, safetyFile, acknowledged, calm, recordFaults>>

(* A save raises: the state in memory stays as it is, the caller is told.  *)
RecordSaveFails(t) ==
    /\ \/ call[t].pc = "replace safety" /\ ~CanReplace(safetyFile) /\ UNCHANGED recordFaults
       \/ call[t].pc = "replace memory" /\ ~CanReplace(memoryFile) /\ UNCHANGED recordFaults
       \/ call[t].pc \in {"payload", "replace safety", "compose", "replace memory"} /\ RecordFault
    /\ Leaves(t)
    /\ UNCHANGED <<clock, audit, memory, switch, safetyFile, memoryFile, acknowledged, calm>>

(* Mutant: the process starts with the switch off, whatever the file says. *)
RestartSwitchedOff ==
    /\ RecordFault
    /\ audit' = safetyFile.saved.audit /\ switch' = FALSE /\ memory' = memoryFile.saved
    /\ call' = [t \in RecordThreads |-> NoRecordCall]
    /\ UNCHANGED <<clock, safetyFile, memoryFile, acknowledged, calm>>

(* Mutant: the process starts with an empty memory.                        *)
RestartForgetful ==
    /\ RecordFault
    /\ audit' = safetyFile.saved.audit /\ switch' = safetyFile.saved.switch /\ memory' = <<>>
    /\ call' = [t \in RecordThreads |-> NoRecordCall]
    /\ UNCHANGED <<clock, safetyFile, memoryFile, acknowledged, calm>>

(* from_path: audit, switch and memory are what the files have.            *)
RecordsRestart ==
    /\ RecordFault
    /\ audit' = safetyFile.saved.audit
    /\ switch' = safetyFile.saved.switch
    /\ memory' = memoryFile.saved
    /\ call' = [t \in RecordThreads |-> NoRecordCall]
    /\ UNCHANGED <<clock, safetyFile, memoryFile, acknowledged, calm>>

RecordsNext ==
    \/ \E w \in RecordWorkers :
          BeginCycle(w) \/ RecordDecision(w) \/ PassGate(w) \/ RecordOperation(w)
          \/ WriteMemory(w) \/ ReplaceMemory(w)
    \/ \E o \in RecordOperators : Throw(o) \/ ResetSwitch(o) \/ Acknowledge(o)
    \/ \E t \in RecordThreads :
          TakeSwitch(t) \/ WriteSafety(t) \/ ReplaceSafety(t) \/ RecordSaveFails(t)
    \/ RecordsRestart

-----------------------------------------------------------------------------

(* Type invariant of the records: files and memory hold times of cycles in
   the order of time, and a call is at one of its steps.                   *)
RecordsTypeOK ==
    LET Records == {r \in SeqOf(Times, MaxRecords) :
                       \A i \in 1..(Len(r) - 1) : r[i] < r[i + 1]} IN
    /\ clock \in 0..MaxRecords
    /\ audit \in Records /\ memory \in Records /\ memoryFile.saved \in Records
    /\ safetyFile.saved \in [audit : Records, switch : BOOLEAN]
    /\ \A t \in RecordThreads : call[t].at \in 0..clock
    /\ switch \in BOOLEAN /\ acknowledged \in BOOLEAN /\ calm \in BOOLEAN
    /\ recordFaults \in 0..MaxRecordFaults

(* An activation of the kill switch that returned is in force, in memory
   and in the file, until it is reset: through failed saves, and through a
   restart (P15_PLAN.md:12). Only a save that overlapped another may lose
   it: it had taken the switch before (operational_safety_store.py:99).    *)
ActivationSurvives ==
    calm /\ acknowledged => switch /\ safetyFile.saved.switch

(* No operation is in the saved memory whose decision the saved audit does
   not have: two files, written at different times
   (p4_operational_recorder.py:38, persistent_operational_recorder.py:57). *)
OperationsAreAudited ==
    calm => /\ Range(memoryFile.saved) \subseteq Range(safetyFile.saved.audit)
            /\ Range(memory) \subseteq Range(audit)

(* What is saved is only ever added to, by a process that starts again too. *)
SavedRecordsOnlyGrow ==
    [][calm' => /\ IsPrefix(memoryFile.saved, memoryFile'.saved)
                /\ IsPrefix(safetyFile.saved.audit, safetyFile'.saved.audit)]_recordVars
=============================================================================
