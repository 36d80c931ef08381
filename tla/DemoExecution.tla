---------------------------- MODULE DemoExecution ----------------------------
(***************************************************************************)
(* The life of a DEMO order: the trading cycle that asks for it            *)
(* (core/trading_runtime.py), the gateway that reserves, sends and records *)
(* it (execution/gateway.py), and the operator's close and reconcile       *)
(* requests (app.py), all served by threads of one process that share the  *)
(* ledger, the lifecycle and the checkpoint.                               *)
(*                                                                         *)
(* One action is one call on a store, on the broker, or one decision taken *)
(* on values read earlier, so the threads interleave wherever the code     *)
(* lets them.  Calls on the stores are atomic here; module SharedLedger    *)
(* looks inside them.  A write may fail (module SavedStores) and the       *)
(* process may crash between any two steps.                                *)
(***************************************************************************)
EXTENDS SentOrders

CONSTANTS
  Threads,          \* request threads of the WSGI server
  MaxCrashes,       \* bound: crashes of the process in a behaviour
  SilentReplies,    \* the broker adapter may report an order it placed as refused
  CarelessOperator  \* the operator may enter a ticket that is not the cycle's

ASSUME CrashesAreBounded == MaxCrashes \in Nat
ASSUME SwitchesAreBoolean == SilentReplies \in BOOLEAN /\ CarelessOperator \in BOOLEAN

VARIABLES
  processed,    \* ExecutionGateway._processed_request_ids
  usedCycles,   \* cycle_ids generated so far (uuid4, never repeated)
  call,         \* what each thread is doing
  crashes       \* crashes so far

vars == <<ledger, ledgerSaved, lifecycle, lifeSaved, checkpoint, processed,
          usedCycles, call, orders, dispatched, faults, crashes>>

CycleSteps ==
  {"readiness", "gate", "duplicate", "prior", "reserve", "start", "dispatch",
   "bind", "accept", "confirm", "markRejected", "putRejected",
   "markUnknown", "putUnknown", "checkpoint"}
ReconcileSteps ==
  {"find", "inspect", "close", "attach", "reread", "query", "judge", "settle",
   "conclude"}

Call ==
  [pc       : {"idle"} \cup CycleSteps \cup ReconcileSteps,
   req      : Requests \cup {NoRequest},
   cycle    : Cycles \cup {NoCycle},
   ticket   : Tickets \cup {NoTicket},
   status   : LedgerStatusOrAbsent,   \* identity.status, as last read
   state    : LifecycleStateOrNone,   \* execution_record.state, as last read
   bound    : BOOLEAN,                \* identity.external_id was not None
   closing  : BOOLEAN,                \* close_position comes before reconciling
   executed : BOOLEAN]                \* what query_order or the operator says

Idle ==
  [pc |-> "idle", req |-> NoRequest, cycle |-> NoCycle, ticket |-> NoTicket,
   status |-> "ABSENT", state |-> "NONE", bound |-> FALSE, closing |-> FALSE,
   executed |-> FALSE]

Init ==
  /\ NoStores
  /\ NothingSent
  /\ processed = {}
  /\ usedCycles = {}
  /\ call = [t \in Threads |-> Idle]
  /\ crashes = 0

-----------------------------------------------------------------------------
(* Steps of a thread. *)

At(t, step) == call[t].pc = step
Goto(t, step) == call' = [call EXCEPT ![t].pc = step]
Finish(t) == call' = [call EXCEPT ![t] = Idle]

\* A ledger mutation with what follows when it returns and when it raises.
LedgerStep(t, allowed, new, onReturn, onRaise) ==
  \/ allowed /\ LedgerWritten(new) /\ Goto(t, onReturn)
  \/ allowed /\ LedgerWriteFails(new) /\ Goto(t, onRaise)
  \/ ~allowed /\ ReadOnly /\ Goto(t, onRaise)

LifecycleStep(t, r, s, onReturn, onRaise) ==
  \/ /\ CanPut(lifecycle, r, s)
     /\ LifecycleWritten(Put(lifecycle, r, s))
     /\ Goto(t, onReturn)
  \/ /\ CanPut(lifecycle, r, s)
     /\ LifecycleWriteFails(r, Put(lifecycle, r, s))
     /\ Goto(t, onRaise)
  \/ /\ ~CanPut(lifecycle, r, s)
     /\ ReadOnly
     /\ Goto(t, onRaise)

-----------------------------------------------------------------------------
(* A trading cycle: TradingRuntime.run, then ExecutionGateway.execute. *)

StartCycle(t, r, c) ==
  /\ At(t, "idle")
  /\ c \in Cycles \ usedCycles
  /\ usedCycles' = usedCycles \cup {c}
  /\ call' = [call EXCEPT ![t] = [Idle EXCEPT !.pc = "readiness", !.req = r, !.cycle = c]]
  /\ ReadOnly
  /\ UNCHANGED <<processed, orders, dispatched, crashes>>

\* Mutant: the recovery verdict is not part of readiness.
ReadinessWithoutRecovery(t) ==
  /\ At(t, "readiness")
  /\ Goto(t, "gate") \/ Finish(t)
  /\ ReadOnly
  /\ UNCHANGED <<processed, usedCycles, orders, dispatched, crashes>>

\* DEMO readiness, risk budget and admission; every check but recovery may
\* block for reasons of its own.
Readiness(t) ==
  /\ At(t, "readiness")
  /\ \/ CanResume(ledger, lifecycle, checkpoint) /\ Goto(t, "gate")
     \/ Finish(t)
  /\ ReadOnly
  /\ UNCHANGED <<processed, usedCycles, orders, dispatched, crashes>>

\* Request validation, market data report and kill switch.
Gate(t) ==
  /\ At(t, "gate")
  /\ \/ Goto(t, "duplicate")
     \/ Goto(t, "checkpoint")
  /\ ReadOnly
  /\ UNCHANGED <<processed, usedCycles, orders, dispatched, crashes>>

CheckDuplicate(t) ==
  /\ At(t, "duplicate")
  /\ IF call[t].req \in processed \cup Recorded(ledger)
       THEN Goto(t, "checkpoint")
       ELSE Goto(t, "prior")
  /\ ReadOnly
  /\ UNCHANGED <<processed, usedCycles, orders, dispatched, crashes>>

CheckPriorLifecycle(t) ==
  /\ At(t, "prior")
  /\ IF lifecycle[call[t].req] \in {"UNKNOWN", "PENDING", "ACCEPTED"}
       THEN Goto(t, "checkpoint")
       ELSE Goto(t, "reserve")
  /\ ReadOnly
  /\ UNCHANGED <<processed, usedCycles, orders, dispatched, crashes>>

\* Mutant: a reservation that could not be written goes on to the executor.
ReserveOrGoOn(t) ==
  LET r == call[t].req
      c == call[t].cycle
  IN  /\ At(t, "reserve")
      /\ LedgerStep(t, CanReserve(ledger, r, c), Reserved(ledger, r, c),
                    "start", "start")
      /\ UNCHANGED <<processed, usedCycles, orders, dispatched, crashes>>

Reserve(t) ==
  LET r == call[t].req
      c == call[t].cycle
  IN  /\ At(t, "reserve")
      /\ LedgerStep(t, CanReserve(ledger, r, c), Reserved(ledger, r, c),
                    "start", "checkpoint")
      /\ UNCHANGED <<processed, usedCycles, orders, dispatched, crashes>>

RecordStart(t) ==
  /\ At(t, "start")
  /\ LifecycleStep(t, call[t].req, "PENDING", "dispatch", "markRejected")
  /\ UNCHANGED <<processed, usedCycles, orders, dispatched, crashes>>

\* executor.execute: the order is placed or not, and the reply is an
\* acceptance, a refusal, an exception or something that is no result.
Dispatch(t) ==
  LET r == call[t].req
  IN  /\ At(t, "dispatch")
      /\ dispatched' = [dispatched EXCEPT ![r] = @ + 1]
      /\ \/ NoOrder /\ Goto(t, "markRejected")
         \/ NoOrder /\ Goto(t, "markUnknown")
         \/ \E x \in Tickets, s \in {"working", "open"} :
              /\ NewOrder(x, r, call[t].cycle, s)
              /\ \/ call' = [call EXCEPT ![t].pc = "bind", ![t].ticket = x]
                 \/ Goto(t, "markUnknown")
                 \/ SilentReplies /\ Goto(t, "markRejected")
      /\ ReadOnly
      /\ UNCHANGED <<processed, usedCycles, crashes>>

BindExternalId(t) ==
  LET r == call[t].req
      x == call[t].ticket
  IN  /\ At(t, "bind")
      /\ LedgerStep(t, CanBind(ledger, r, x), Bound(ledger, r, x),
                    "accept", "markUnknown")
      /\ UNCHANGED <<processed, usedCycles, orders, dispatched, crashes>>

MarkAccepted(t) ==
  LET r == call[t].req
  IN  /\ At(t, "accept")
      /\ LedgerStep(t, CanMark(ledger, r), Marked(ledger, r, "ACCEPTED"),
                    "confirm", "markUnknown")
      /\ UNCHANGED <<processed, usedCycles, orders, dispatched, crashes>>

\* lifecycle.put(ACCEPTED); the request then counts as processed.
RecordAcceptance(t) ==
  LET r == call[t].req
  IN  /\ At(t, "confirm")
      /\ LifecycleStep(t, r, "ACCEPTED", "checkpoint", "markUnknown")
      /\ processed' = IF call'[t].pc = "checkpoint" THEN processed \cup {r} ELSE processed
      /\ UNCHANGED <<usedCycles, orders, dispatched, crashes>>

\* _mark_rejected and _mark_unknown swallow what the stores raise.
MarkRejected(t) ==
  LET r == call[t].req
  IN  /\ At(t, "markRejected")
      /\ LedgerStep(t, CanMark(ledger, r), Marked(ledger, r, "REJECTED"),
                    "putRejected", "putRejected")
      /\ UNCHANGED <<processed, usedCycles, orders, dispatched, crashes>>

PutRejected(t) ==
  LET r == call[t].req
  IN  /\ At(t, "putRejected")
      /\ IF lifecycle[r] = "REJECTED"
           THEN ReadOnly /\ Goto(t, "checkpoint")
           ELSE LifecycleStep(t, r, "REJECTED", "checkpoint", "checkpoint")
      /\ UNCHANGED <<processed, usedCycles, orders, dispatched, crashes>>

MarkUnknown(t) ==
  LET r == call[t].req
  IN  /\ At(t, "markUnknown")
      /\ LedgerStep(t, CanMark(ledger, r), Marked(ledger, r, "UNKNOWN"),
                    "putUnknown", "putUnknown")
      /\ UNCHANGED <<processed, usedCycles, orders, dispatched, crashes>>

PutUnknown(t) ==
  LET r == call[t].req
  IN  /\ At(t, "putUnknown")
      /\ IF lifecycle[r] = "UNKNOWN"
           THEN ReadOnly /\ Goto(t, "checkpoint")
           ELSE LifecycleStep(t, r, "UNKNOWN", "checkpoint", "checkpoint")
      /\ UNCHANGED <<processed, usedCycles, orders, dispatched, crashes>>

\* The cycle ends with a checkpoint that names its request, whatever the
\* gateway answered; a failed write (or a recorder that raised) leaves none.
SaveCheckpoint(t) ==
  /\ At(t, "checkpoint")
  /\ \/ checkpoint' = call[t].req /\ UNCHANGED faults
     \/ faults < MaxFaults /\ faults' = faults + 1 /\ UNCHANGED checkpoint
  /\ Finish(t)
  /\ UNCHANGED <<ledger, ledgerSaved, lifecycle, lifeSaved>>
  /\ UNCHANGED <<processed, usedCycles, orders, dispatched, crashes>>

-----------------------------------------------------------------------------
(* The operator's requests: /api/runtime/close, /api/runtime/reconcile and   *)
(* /api/runtime/real/reconcile, whose gateway shares the DEMO stores.        *)

\* What the operator enters for a cycle: a ticket the broker issued for it,
\* or, carelessly, any ticket.
EnteredTickets(c) ==
  IF CarelessOperator THEN Tickets
  ELSE {x \in Tickets : orders[x].state # "unissued" /\ orders[x].cycle = c}

StartReconcile(t, c, x, closing) ==
  /\ At(t, "idle")
  /\ x \in EnteredTickets(c)
  /\ call' = [call EXCEPT ![t] = [Idle EXCEPT !.pc = "find", !.cycle = c,
                                              !.ticket = x, !.closing = closing]]
  /\ ReadOnly
  /\ UNCHANGED <<processed, usedCycles, orders, dispatched, crashes>>

\* validate_external_cycle_identity, ledger half: one record of the cycle,
\* bound to this ticket or to none.
FindIdentity(t) ==
  LET matches == FindByCycleId(ledger, call[t].cycle)
      fits(r) == matches = {r} /\ ledger[r].ticket \in {NoTicket, call[t].ticket}
  IN  /\ At(t, "find")
      /\ \/ \E r \in Requests :
              /\ fits(r)
              /\ call' = [call EXCEPT ![t].pc = "inspect", ![t].req = r,
                                      ![t].status = ledger[r].status,
                                      ![t].bound = ledger[r].ticket # NoTicket]
         \/ (\A r \in Requests : ~fits(r)) /\ Finish(t)
      /\ ReadOnly
      /\ UNCHANGED <<processed, usedCycles, orders, dispatched, crashes>>

\* Lifecycle half of the validation, then reconcile_external_cycle's status
\* check; a close request goes to the broker first.
InspectLifecycle(t) ==
  LET state == lifecycle[call[t].req]
  IN  /\ At(t, "inspect")
      /\ \/ /\ state \in {"PENDING", "ACCEPTED", "UNKNOWN"}
            /\ call[t].closing \/ call[t].status # "REJECTED"
            /\ call' = [call EXCEPT ![t].state = state,
                                    ![t].pc = IF call[t].closing THEN "close"
                                              ELSE IF call[t].bound THEN "query"
                                              ELSE "attach"]
         \/ /\ \/ state \notin {"PENDING", "ACCEPTED", "UNKNOWN"}
               \/ ~call[t].closing /\ call[t].status = "REJECTED"
            /\ Finish(t)
      /\ ReadOnly
      /\ UNCHANGED <<processed, usedCycles, orders, dispatched, crashes>>

\* close_position: only an open position can be closed, and a close that
\* went through may be reported as refused.  An accepted close reconciles.
ClosePosition(t) ==
  LET x == call[t].ticket
  IN  /\ At(t, "close")
      /\ \/ /\ ClosedNow(x)
            /\ \/ call' = [call EXCEPT ![t] = [Idle EXCEPT !.pc = "find",
                                !.cycle = call[t].cycle, !.ticket = x]]
               \/ Finish(t)
         \/ UNCHANGED orders /\ Finish(t)
      /\ ReadOnly
      /\ UNCHANGED <<processed, usedCycles, dispatched, crashes>>

\* An identity without a ticket is bound to the operator's before the broker
\* is asked about it, and its status is read again.
AttachTicket(t) ==
  LET r == call[t].req
      x == call[t].ticket
      new == Bound(ledger, r, x)
  IN  /\ At(t, "attach")
      /\ \/ CanBind(ledger, r, x) /\ LedgerWritten(new) /\ Goto(t, "reread")
         \/ CanBind(ledger, r, x) /\ LedgerWriteFails(new) /\ Finish(t)
         \/ ~CanBind(ledger, r, x) /\ ReadOnly /\ Finish(t)
      /\ UNCHANGED <<processed, usedCycles, orders, dispatched, crashes>>

ReadStatusAgain(t) ==
  /\ At(t, "reread")
  /\ call' = [call EXCEPT ![t].pc = "query", ![t].status = ledger[call[t].req].status]
  /\ ReadOnly
  /\ UNCHANGED <<processed, usedCycles, orders, dispatched, crashes>>

\* Mutant: an order that is still working counts as not executed.
OrderSettlesEarly(t) ==
  LET x == call[t].ticket
      executed == orders[x].state \in Filled
  IN  /\ At(t, "query")
      /\ orders[x].state # "unissued"
      /\ call[t].status # ReconciledStatus(~executed)
      /\ call' = [call EXCEPT ![t].executed = executed,
                             ![t].pc = IF call[t].status = ReconciledStatus(executed)
                                         THEN "conclude" ELSE "settle"]
      /\ ReadOnly
      /\ UNCHANGED <<processed, usedCycles, orders, dispatched, crashes>>

\* Mutant: what the ledger has settled is not looked at again.
OrderSettlesOnce(t) ==
  LET x == call[t].ticket
      executed == orders[x].state \in Filled
  IN  /\ At(t, "query")
      /\ orders[x].state \in Filled \cup {"void"}
      /\ call[t].status \notin FinalStatus
      /\ call' = [call EXCEPT ![t].executed = executed, ![t].pc = "settle"]
      /\ ReadOnly
      /\ UNCHANGED <<processed, usedCycles, orders, dispatched, crashes>>

\* query_order, then the comparison with the status read before: a settled
\* order that agrees with it goes on.
OrderSettles(t) ==
  LET x == call[t].ticket
      executed == orders[x].state \in Filled
  IN  /\ At(t, "query")
      /\ orders[x].state \in Filled \cup {"void"}
      /\ call[t].status # ReconciledStatus(~executed)
      /\ call' = [call EXCEPT ![t].executed = executed,
                             ![t].pc = IF call[t].status = ReconciledStatus(executed)
                                         THEN "conclude" ELSE "settle"]
      /\ ReadOnly
      /\ UNCHANGED <<processed, usedCycles, orders, dispatched, crashes>>

\* A working or unheard-of order settles nothing, a contradiction raises, and
\* the broker may not answer at all.
OrderUnsettled(t) ==
  /\ At(t, "query")
  /\ Finish(t)
  /\ ReadOnly
  /\ UNCHANGED <<processed, usedCycles, orders, dispatched, crashes>>

\* What the operator declares of a request: of one the ledger has, once nothing
\* is being served for it and no order of it is working, whether it was filled;
\* or, carelessly, anything.
Declared(r, executed) ==
  \/ CarelessOperator
  \/ /\ r \in Recorded(ledger)
     /\ \A u \in Threads : call[u].req = r => call[u].pc \notin CycleSteps
     /\ \A x \in Tickets : orders[x].req = r => orders[x].state # "working"
     /\ executed <=> \E x \in Tickets : orders[x].req = r /\ orders[x].state \in Filled

StartManualReconcile(t, r, executed) ==
  /\ At(t, "idle")
  /\ Declared(r, executed)
  /\ call' = [call EXCEPT ![t] = [Idle EXCEPT !.pc = "judge", !.req = r,
                                              !.executed = executed]]
  /\ ReadOnly
  /\ UNCHANGED <<processed, usedCycles, orders, dispatched, crashes>>

\* RealExecutionGateway.reconcile_unknown: only an uncertain request.
JudgeStatus(t) ==
  /\ At(t, "judge")
  /\ IF ledger[call[t].req].status \in {"UNKNOWN", "RESERVED"}
       THEN Goto(t, "settle")
       ELSE Finish(t)
  /\ ReadOnly
  /\ UNCHANGED <<processed, usedCycles, orders, dispatched, crashes>>

SettleLedger(t) ==
  LET r == call[t].req
      new == Reconciled(ledger, r, call[t].executed)
  IN  /\ At(t, "settle")
      /\ \/ CanReconcile(ledger, r) /\ LedgerWritten(new) /\ Goto(t, "conclude")
         \/ CanReconcile(ledger, r) /\ LedgerWriteFails(new) /\ Finish(t)
         \/ ~CanReconcile(ledger, r) /\ ReadOnly /\ Finish(t)
      /\ UNCHANGED <<processed, usedCycles, orders, dispatched, crashes>>

\* The lifecycle follows the verdict, if it has the request; the state read
\* at validation decides whether an executed order still needs it.
ConcludeLifecycle(t) ==
  LET r == call[t].req
      verdict == IF call[t].executed THEN "ACCEPTED" ELSE "REJECTED"
      new == Put(lifecycle, r, verdict)
  IN  /\ At(t, "conclude")
      /\ IF lifecycle[r] = "NONE" \/ (call[t].executed /\ call[t].state = "ACCEPTED")
           THEN ReadOnly
           ELSE LifecycleWritten(new) \/ LifecycleWriteFails(r, new)
      /\ Finish(t)
      /\ UNCHANGED <<processed, usedCycles, orders, dispatched, crashes>>

-----------------------------------------------------------------------------
(* The surroundings. *)

\* A working order is filled or ends without a deal; a position is closed by
\* its stop, its target or by hand.
BrokerMoves(x) ==
  /\ EndedNow(x) \/ ClosedNow(x)
  /\ UNCHANGED <<stores, processed, usedCycles, call, dispatched, crashes>>

\* The process dies and starts again: memory that no file holds is lost, and
\* a new gateway takes its processed ids from the ledger.
Crash ==
  /\ crashes < MaxCrashes
  /\ crashes' = crashes + 1
  /\ Reloaded
  /\ processed' = IF ledgerSaved THEN Recorded(ledger) ELSE {}
  /\ call' = [t \in Threads |-> Idle]
  /\ UNCHANGED <<usedCycles, orders, dispatched>>

CycleStep(t) ==
  \/ Readiness(t) \/ Gate(t) \/ CheckDuplicate(t) \/ CheckPriorLifecycle(t)
  \/ Reserve(t) \/ RecordStart(t) \/ Dispatch(t)
  \/ BindExternalId(t) \/ MarkAccepted(t) \/ RecordAcceptance(t)
  \/ MarkRejected(t) \/ PutRejected(t) \/ MarkUnknown(t) \/ PutUnknown(t)
  \/ SaveCheckpoint(t)

ReconcileStep(t) ==
  \/ FindIdentity(t) \/ InspectLifecycle(t) \/ ClosePosition(t)
  \/ AttachTicket(t) \/ ReadStatusAgain(t)
  \/ OrderSettles(t) \/ OrderUnsettled(t) \/ JudgeStatus(t)
  \/ SettleLedger(t) \/ ConcludeLifecycle(t)

Next ==
  \/ \E t \in Threads :
       \/ \E r \in Requests, c \in Cycles : StartCycle(t, r, c)
       \/ \E c \in Cycles, x \in Tickets, b \in BOOLEAN : StartReconcile(t, c, x, b)
       \/ \E r \in Requests, b \in BOOLEAN : StartManualReconcile(t, r, b)
       \/ CycleStep(t)
       \/ ReconcileStep(t)
  \/ \E x \in Tickets : BrokerMoves(x)
  \/ Crash

Spec == Init /\ [][Next]_vars
=============================================================================
