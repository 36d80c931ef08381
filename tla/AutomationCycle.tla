---------------------------- MODULE AutomationCycle ---------------------------
(***************************************************************************)
(* ControlledAutomationService and the part of TradingRuntime.run around   *)
(* it: request threads read the account, evaluate the market, have the     *)
(* cycle admitted, mark it as dispatched and hand its order to the         *)
(* gateway. The states of the cycles are kept in a dictionary all threads  *)
(* share and in one file (AutomationLifecycleStore). The steps inside the  *)
(* gateway are those of DemoExecution; here it answers in one step.        *)
(***************************************************************************)
EXTENDS RiskLimits, ReplacedFile

CONSTANTS AutomationThreads,    \* threads that serve POST /api/runtime/cycle
          AutomationCycles,     \* cycle_ids that uuid4 may give out
          NoCycle,
          MaxAutomationFaults,  \* bound: failed file operations and restarts
          MaxTrades,            \* bound: closed trades of the account
          MaxLoss               \* bound: what one of them loses

ASSUME NoCycleAssumption == NoCycle \notin AutomationCycles

VARIABLES
    account,        \* what read_operational_state would report now
    cycles,         \* ControlledAutomationService._cycles
    cycleFile,      \* the file of AutomationLifecycleStore
    run,            \* the run of each thread
    reservedFor,    \* the cycle that reserved runtime-000001 in the ledger
    orders,         \* the orders sent: their cycle, and the account its run read as it was then
    duplicates,     \* the cycles the gateway answered DUPLICATE
    undisturbed,    \* no save read a file that was being replaced, or none of it
    automationFaults

automationVars == <<account, cycles, cycleFile, run, reservedFor, orders, duplicates,
                    undisturbed, automationFaults>>

-----------------------------------------------------------------------------

LifecycleStates == {"ADMITTED", "DISPATCHED", "COMPLETED", "BLOCKED"}

Unborn == "CREATED"

(* _ALLOWED of core/p46_automation_lifecycle.py                            *)
AllowedTransitions == {<<Unborn, "ADMITTED">>, <<Unborn, "BLOCKED">>,
                       <<"ADMITTED", "DISPATCHED">>, <<"ADMITTED", "BLOCKED">>,
                       <<"DISPATCHED", "COMPLETED">>, <<"DISPATCHED", "BLOCKED">>}

NoCycles == [c \in AutomationCycles |-> Unborn]

(* history_deals_get and positions_get may each answer None.               *)
Observations(a) ==
    {a, [a EXCEPT !.volume = Unknown],
     [a EXCEPT !.trades = Unknown, !.streak = Unknown, !.loss = Unknown]}

(* seen is what was read of the account, began (a history) what it was then. *)
NoRun == [pc |-> "idle", cycle |-> NoCycle, seen |-> {}, began |-> {}, copy |-> NoCycles,
          after |-> "idle"]

AutomationInit ==
    /\ account = [trades |-> 0, streak |-> 0, loss |-> 0, volume |-> 0]
    /\ cycles = NoCycles
    /\ cycleFile = NewFile(NoCycles)
    /\ run = [t \in AutomationThreads |-> NoRun]
    /\ reservedFor = NoCycle
    /\ orders = {} /\ duplicates = {}
    /\ undisturbed = TRUE /\ automationFaults = 0

Goes(t, r) == run' = [run EXCEPT ![t] = r]

Ends(t) == Goes(t, NoRun)

(* An exception leaves run: the request is answered with an error.         *)
Faulty == automationFaults < MaxAutomationFaults /\ automationFaults' = automationFaults + 1

Fresh == {c \in AutomationCycles : cycles[c] = Unborn /\ \A t \in AutomationThreads : run[t].cycle # c}

(* A state is entered in memory first and then saved.                      *)
Enters(t, state, after) ==
    /\ <<cycles[run[t].cycle], state>> \in AllowedTransitions
    /\ cycles' = [cycles EXCEPT ![run[t].cycle] = state]
    /\ Goes(t, [run[t] EXCEPT !.pc = "load", !.after = after,
                                    !.seen = IF after = "idle" THEN {} ELSE @,
                                    !.began = IF after = "idle" THEN {} ELSE @])

-----------------------------------------------------------------------------

(* run_mt5_cycle reads the account once, before the market; the evaluation
   looks at nothing the threads share. A decision other than EXECUTAR makes
   no plan: such a run ends with a blocked cycle nobody keeps.             *)
Evaluate(t) ==
    /\ run[t].pc = "idle"
    /\ \E s \in Observations(account), c \in Fresh :
          /\ \E a \in Analyses : Decision(a, s) = "EXECUTAR"
          /\ Goes(t, [NoRun EXCEPT !.pc = "admit", !.cycle = c, !.seen = {s}, !.began = {account}])
    /\ UNCHANGED <<account, cycles, cycleFile, reservedFor, orders, duplicates, undisturbed,
                   automationFaults>>

(* run_mt5_cycle's AutomationPolicy; it passes no time of a last cycle.     *)
ServicePolicy == [enabled |-> TRUE, interval |-> 0]

(* ControlledAutomationGate and AutomationCycleOrchestrator, for the time
   since the last cycle, if there was one.                                 *)
CycleAuthorized(policy, sinceLast) ==
    policy.enabled /\ \A elapsed \in sinceLast : elapsed >= policy.interval

(* build_plan and build_intent: every plan is for the same request.        *)
Intent(c) == [request |-> "runtime-000001", cycle |-> c]

(* AutomationIntentHandoffBoundary                                         *)
HandedOff(intent, c) == intent.cycle = c

Admit(t) ==
    /\ run[t].pc = "admit"
    /\ \E s \in run[t].seen, killed, healthy, recovered \in BOOLEAN :
          IF /\ CycleAuthorized(ServicePolicy, {})
             /\ Admitted(Ready(killed, healthy, recovered), s)
             /\ HandedOff(Intent(run[t].cycle), run[t].cycle)
          THEN Enters(t, "ADMITTED", "dispatch")
          ELSE Enters(t, "BLOCKED", "idle")
    /\ UNCHANGED <<account, cycleFile, reservedFor, orders, duplicates, undisturbed, automationFaults>>

MarkDispatched(t) ==
    /\ run[t].pc = "dispatch"
    /\ Enters(t, "DISPATCHED", "send")
    /\ UNCHANGED <<account, cycleFile, reservedFor, orders, duplicates, undisturbed, automationFaults>>

Block(t) ==
    /\ run[t].pc = "block"
    /\ Enters(t, "BLOCKED", "idle")
    /\ UNCHANGED <<account, cycleFile, reservedFor, orders, duplicates, undisturbed, automationFaults>>

-----------------------------------------------------------------------------

(* Mutant: save writes the one cycle it was given.                         *)
LoadOnlyMine(t) ==
    /\ run[t].pc = "load"
    /\ LET c == run[t].cycle IN
       Goes(t, [run[t] EXCEPT !.pc = "write", !.copy = [NoCycles EXCEPT ![c] = cycles[c]]])
    /\ undisturbed' = (undisturbed /\ \A u \in AutomationThreads : run[u].pc \notin {"write", "replace"})
    /\ UNCHANGED <<account, cycles, cycleFile, reservedFor, orders, duplicates, automationFaults>>

(* save reads the whole file again and sets its own cycle; load takes a
   file it cannot read for one without cycles.                             *)
Load(t) ==
    /\ run[t].pc = "load"
    /\ \E found \in {cycleFile.saved, NoCycles} :
          /\ LET c == run[t].cycle IN
             Goes(t, [run[t] EXCEPT !.pc = "write", !.copy = [found EXCEPT ![c] = cycles[c]]])
          /\ \/ found = cycleFile.saved /\ UNCHANGED automationFaults
             \/ found # cycleFile.saved /\ Faulty
          /\ undisturbed' =
                /\ undisturbed /\ found = cycleFile.saved
                /\ \A u \in AutomationThreads : run[u].pc \notin {"write", "replace"}
    /\ UNCHANGED <<account, cycles, cycleFile, reservedFor, orders, duplicates>>

Write(t) ==
    /\ run[t].pc = "write"
    /\ cycleFile' = Written(cycleFile, run[t].copy)
    /\ Goes(t, [run[t] EXCEPT !.pc = "replace"])
    /\ UNCHANGED <<account, cycles, reservedFor, orders, duplicates, undisturbed, automationFaults>>

Replace(t) ==
    /\ run[t].pc = "replace" /\ CanReplace(cycleFile)
    /\ cycleFile' = Replaced(cycleFile)
    /\ Goes(t, [run[t] EXCEPT !.pc = run[t].after, !.copy = NoCycles])
    /\ UNCHANGED <<account, cycles, reservedFor, orders, duplicates, undisturbed, automationFaults>>

(* Mutant: a failed save does not stop the run.                            *)
SaveFailsSilently(t) ==
    /\ run[t].pc \in {"write", "replace"}
    /\ (run[t].pc = "replace" /\ ~CanReplace(cycleFile) /\ UNCHANGED automationFaults) \/ Faulty
    /\ Goes(t, [run[t] EXCEPT !.pc = run[t].after, !.copy = NoCycles])
    /\ UNCHANGED <<account, cycles, cycleFile, reservedFor, orders, duplicates, undisturbed>>

(* The write fails, or another thread has moved the temporary file.        *)
SaveFails(t) ==
    /\ \/ run[t].pc = "replace" /\ ~CanReplace(cycleFile) /\ UNCHANGED automationFaults
       \/ run[t].pc \in {"write", "replace"} /\ Faulty
    /\ Ends(t)
    /\ UNCHANGED <<account, cycles, cycleFile, reservedFor, orders, duplicates, undisturbed>>

-----------------------------------------------------------------------------

(* execute_plan refuses before the gateway, or the gateway does: the cycle
   stays DISPATCHED.                                                       *)
Refused(t) ==
    /\ run[t].pc = "send"
    /\ Ends(t)
    /\ UNCHANGED <<account, cycles, cycleFile, reservedFor, orders, duplicates, undisturbed,
                   automationFaults>>

(* Every run asks for the request_id runtime-000001.                       *)
Duplicate(t) ==
    /\ run[t].pc = "send" /\ reservedFor # NoCycle
    /\ duplicates' = duplicates \cup {run[t].cycle}
    /\ Ends(t)
    /\ UNCHANGED <<account, cycles, cycleFile, reservedFor, orders, undisturbed, automationFaults>>

(* The order goes out. ACCEPTED and EXECUTOR_ERROR leave the cycle
   DISPATCHED; after an EXECUTION_REJECTED the service blocks it.          *)
Send(t) ==
    /\ run[t].pc = "send" /\ reservedFor = NoCycle
    /\ reservedFor' = run[t].cycle
    /\ orders' = orders \cup [cycle : {run[t].cycle}, account : run[t].began]
    /\ \E status \in {"ACCEPTED", "EXECUTION_REJECTED", "EXECUTOR_ERROR"} :
          IF status = "EXECUTION_REJECTED"
          THEN Goes(t, [run[t] EXCEPT !.pc = "block"])
          ELSE Ends(t)
    /\ UNCHANGED <<account, cycles, cycleFile, duplicates, undisturbed, automationFaults>>

(* Positions are opened and closed on the account, by the operator too; a
   deal that neither wins nor loses leaves the streak as it was.           *)
AccountMoves ==
    /\ \/ \E v \in {0, Amount} : account' = [account EXCEPT !.volume = v]
       \/ /\ account.trades < MaxTrades
          /\ \E lost \in 0..MaxLoss :
             \E streak \in IF lost > 0 THEN {account.streak + 1} ELSE {0, account.streak} :
                account' = [trades |-> account.trades + 1, loss |-> account.loss + lost,
                            streak |-> streak, volume |-> account.volume]
    /\ account' # account
    /\ UNCHANGED <<cycles, cycleFile, run, reservedFor, orders, duplicates, undisturbed,
                   automationFaults>>

(* A new process reads the file; the ledger is durable.                    *)
AutomationRestart ==
    /\ Faulty
    /\ cycles' = cycleFile.saved
    /\ run' = [t \in AutomationThreads |-> NoRun]
    /\ UNCHANGED <<account, cycleFile, reservedFor, orders, duplicates, undisturbed>>

AutomationStep(t) ==
    \/ Evaluate(t) \/ Admit(t) \/ MarkDispatched(t) \/ Block(t)
    \/ Load(t) \/ Write(t) \/ Replace(t) \/ SaveFails(t)
    \/ Refused(t) \/ Duplicate(t) \/ Send(t)

AutomationNext ==
    \/ \E t \in AutomationThreads : AutomationStep(t)
    \/ AccountMoves \/ AutomationRestart

-----------------------------------------------------------------------------

(* mark_dispatched is saved before execute_plan: unless two saves overlapped
   or one could not read the file, no order has gone out whose cycle the
   file does not have as dispatched or blocked, whatever failed and however
   often the process started again (trading_runtime.py:370).               *)
SentIsSaved ==
    undisturbed => \A o \in orders : cycleFile.saved[o.cycle] \in {"DISPATCHED", "BLOCKED"}

(* Every limit that is set has room for one more order. A limit of the
   RiskManager that is 0 is none.                                          *)
FitsTheLimits(was) ==
    LET limit == RiskManagerLimits  policy == RiskPolicy IN
    /\ Amount <= policy.orderVolume /\ was.volume + Amount <= policy.totalVolume
    /\ was.trades + 1 <= policy.operations
    /\ was.loss + policy.lossPerOperation <= policy.dailyLoss
    /\ limit.operations # 0 => was.trades < limit.operations
    /\ limit.streak # 0 => was.streak < limit.streak
    /\ limit.dailyLoss # 0 => was.loss < limit.dailyLoss

(* An order goes out only if it fits every limit of the RiskManager, of P39
   and of P40 on the account as it really was when its run read it, also
   where a part of the reading failed and whatever was saved in between:
   what could not be read is never taken for nothing traded, lost or open
   (trading_runtime.py:297-372, risk_manager.py:71).                       *)
OrdersFitTheLimits == \A o \in orders : FitsTheLimits(o.account)

(* A saved state never goes back and no saved cycle is lost, unless two
   saves overlapped or one could not read the file
   (automation_lifecycle_store.py:48).                                     *)
SavedNeverGoesBack ==
    [][undisturbed' => \A c \in AutomationCycles :
          \/ cycleFile'.saved[c] = cycleFile.saved[c]
          \/ <<cycleFile.saved[c], cycleFile'.saved[c]>> \in AllowedTransitions]_automationVars

(* What the documents say of a request_id: it names one intention, so that
   only a cycle that asks again is answered DUPLICATE (P123_PLAN.md:12).   *)
DuplicatesAreRepeats == duplicates \subseteq {reservedFor}
=============================================================================
