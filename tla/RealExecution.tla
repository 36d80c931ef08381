---------------------------- MODULE RealExecution ----------------------------
(***************************************************************************)
(* The life of a REAL order: it is prepared and then confirmed by a person *)
(* (core/real_manual_confirmation.py, core/real_runtime_controller.py),    *)
(* sent and recorded by the gateway (execution/real_gateway.py), closed or *)
(* reconciled on request; all served by threads of one process.            *)
(*                                                                         *)
(* An action is one call on a store or on the broker, one change of the    *)
(* confirmations, or one decision taken on values read earlier.  Pending   *)
(* and consumed confirmations are in memory only.                          *)
(***************************************************************************)
EXTENDS SentOrders

CONSTANTS
  Threads,         \* request threads of the WSGI server
  Confirmations,   \* confirmation_ids (random, never repeated)
  NoConfirmation,  \* None, for a confirmation_id
  MaxCrashes,      \* bound: crashes of the process in a behaviour
  SilentReplies    \* the broker adapter may report an order it placed as refused

ASSUME NoConfirmationIsDistinct == NoConfirmation \notin Confirmations
ASSUME LimitsHaveTypes == MaxCrashes \in Nat /\ SilentReplies \in BOOLEAN

VARIABLES
  prepared,   \* for each confirmation_id: the request it is bound to, and in
              \* which life of the process it was made
  pending,    \* keys of RealManualConfirmationGate._pending
  consumed,   \* RealManualConfirmationGate._consumed
  expired,    \* confirmations whose expires_at has passed
  call,       \* what each thread is doing
  crashes     \* crashes so far

confirmations == <<prepared, pending, consumed, expired>>
vars == <<stores, orders, dispatched, confirmations, call, crashes>>

ConfirmSteps ==
  {"lookup", "consume", "status", "reserve", "start", "dispatch", "bind", "accept",
   "confirm", "markRejected", "putRejected", "markUnknown", "putUnknown"}
SettleSteps == {"close", "settle", "conclude"}

Call ==
  [pc       : {"idle", "prepare"} \cup ConfirmSteps \cup SettleSteps,
   conf     : Confirmations \cup {NoConfirmation},
   req      : Requests \cup {NoRequest},
   ready    : BOOLEAN,     \* authorization, safety and admission, as evaluated
   ticket   : Tickets \cup {NoTicket},
   closing  : BOOLEAN,     \* close_and_reconcile, not reconcile_unknown
   executed : BOOLEAN]     \* the verdict to record

Idle ==
  [pc |-> "idle", conf |-> NoConfirmation, req |-> NoRequest, ready |-> FALSE,
   ticket |-> NoTicket, closing |-> FALSE, executed |-> FALSE]

Unprepared == [req |-> NoRequest, life |-> 0]

Init ==
  /\ NoStores
  /\ NothingSent
  /\ prepared = [k \in Confirmations |-> Unprepared]
  /\ pending = {}
  /\ consumed = {}
  /\ expired = {}
  /\ call = [t \in Threads |-> Idle]
  /\ crashes = 0

-----------------------------------------------------------------------------
(* Steps of a thread.  Whatever raises, or is refused, ends the call.        *)

At(t, step) == call[t].pc = step
Goto(t, step) == call' = [call EXCEPT ![t].pc = step]
Finish(t) == call' = [call EXCEPT ![t] = Idle]
Proceed(t, step) == IF step = "idle" THEN Finish(t) ELSE Goto(t, step)

LedgerStep(t, allowed, new, step) ==
  \/ allowed /\ LedgerWritten(new) /\ Proceed(t, step)
  \/ allowed /\ LedgerWriteFails(new) /\ Finish(t)
  \/ ~allowed /\ ReadOnly /\ Finish(t)

LifecycleStep(t, allowed, r, s, step) ==
  LET new == Put(lifecycle, r, s)
  IN  \/ allowed /\ LifecycleWritten(new) /\ Proceed(t, step)
      \/ allowed /\ LifecycleWriteFails(r, new) /\ Finish(t)
      \/ ~allowed /\ ReadOnly /\ Finish(t)

-----------------------------------------------------------------------------
(* Preparing and confirming. *)

\* _dependencies: any of authorization, safety and admission may be missing;
\* safety needs the recovery verdict.
Evaluated(ready) == ready => CanResume(ledger, lifecycle, checkpoint)

StartPrepare(t, r) ==
  /\ At(t, "idle")
  /\ Evaluated(TRUE)
  /\ call' = [call EXCEPT ![t] = [Idle EXCEPT !.pc = "prepare", !.req = r]]
  /\ ReadOnly
  /\ UNCHANGED <<orders, dispatched, confirmations, crashes>>

Prepare(t, k) ==
  /\ At(t, "prepare")
  /\ prepared[k] = Unprepared
  /\ prepared' = [prepared EXCEPT ![k] = [req |-> call[t].req, life |-> crashes]]
  /\ pending' = pending \cup {k}
  /\ Finish(t)
  /\ ReadOnly
  /\ UNCHANGED <<consumed, expired, orders, dispatched, crashes>>

\* Time passes.
Expire(k) ==
  /\ k \in pending \ expired
  /\ expired' = expired \cup {k}
  /\ ReadOnly
  /\ UNCHANGED <<prepared, pending, consumed, orders, dispatched, call, crashes>>

\* A person sends a confirmation_id and the fields of an order.
StartConfirm(t, k, r, ready) ==
  /\ At(t, "idle")
  /\ prepared[k] # Unprepared
  /\ Evaluated(ready)
  /\ call' = [call EXCEPT ![t] = [Idle EXCEPT !.pc = "lookup", !.conf = k, !.req = r,
                                              !.ready = ready]]
  /\ ReadOnly
  /\ UNCHANGED <<orders, dispatched, confirmations, crashes>>

\* RealManualConfirmationGate.confirm up to the comparison of the requests.
LookUp(t) ==
  LET k == call[t].conf
      valid == k \in pending \ (consumed \cup expired) /\ prepared[k].req = call[t].req
  IN  /\ At(t, "lookup")
      /\ IF valid THEN Goto(t, "consume") ELSE Finish(t)
      /\ pending' = IF k \in expired \ consumed THEN pending \ {k} ELSE pending
      /\ ReadOnly
      /\ UNCHANGED <<prepared, consumed, expired, orders, dispatched, crashes>>

\* The confirmation is spent, then the gateway judges what was evaluated before.
Consume(t) ==
  /\ At(t, "consume")
  /\ pending' = pending \ {call[t].conf}
  /\ consumed' = consumed \cup {call[t].conf}
  /\ IF call[t].ready THEN Goto(t, "status") ELSE Finish(t)
  /\ ReadOnly
  /\ UNCHANGED <<prepared, expired, orders, dispatched, crashes>>

-----------------------------------------------------------------------------
(* RealExecutionGateway.execute. *)

CheckStatus(t) ==
  /\ At(t, "status")
  /\ IF call[t].req \in Recorded(ledger) THEN Finish(t) ELSE Goto(t, "reserve")
  /\ ReadOnly
  /\ UNCHANGED <<orders, dispatched, confirmations, crashes>>

Reserve(t) ==
  LET r == call[t].req
  IN  /\ At(t, "reserve")
      /\ LedgerStep(t, CanReserve(ledger, r, NoCycle), Reserved(ledger, r, NoCycle), "start")
      /\ UNCHANGED <<orders, dispatched, confirmations, crashes>>

\* Mutant: the order is sent whether or not its start could be recorded.
RecordStartOrGoOn(t) ==
  LET r == call[t].req
  IN  /\ At(t, "start")
      /\ \/ CanPut(lifecycle, r, "PENDING") /\ LifecycleWritten(Put(lifecycle, r, "PENDING"))
         \/ LifecycleWriteFails(r, Put(lifecycle, r, "PENDING"))
      /\ Goto(t, "dispatch")
      /\ UNCHANGED <<orders, dispatched, confirmations, crashes>>

RecordStart(t) ==
  LET r == call[t].req
  IN  /\ At(t, "start")
      /\ LifecycleStep(t, CanPut(lifecycle, r, "PENDING"), r, "PENDING", "dispatch")
      /\ UNCHANGED <<orders, dispatched, confirmations, crashes>>

\* Mutant: an adapter that fails is taken for a refusal.
DispatchFailureIsRefusal(t) ==
  LET r == call[t].req
  IN  /\ At(t, "dispatch")
      /\ dispatched' = [dispatched EXCEPT ![r] = @ + 1]
      /\ \/ NoOrder
         \/ \E x \in Tickets, s \in {"working", "open"} : NewOrder(x, r, NoCycle, s)
      /\ Goto(t, "markRejected")
      /\ ReadOnly
      /\ UNCHANGED <<confirmations, crashes>>

\* BrokerAdapterGateway.execute: an adapter that is missing, unavailable, or
\* raises gives no execution, which is uncertain; so is an acceptance without
\* a ticket.
Dispatch(t) ==
  LET r == call[t].req
  IN  /\ At(t, "dispatch")
      /\ dispatched' = [dispatched EXCEPT ![r] = @ + 1]
      /\ \/ NoOrder /\ Goto(t, "markRejected")
         \/ NoOrder /\ Goto(t, "markUnknown")
         \/ \E x \in Tickets, s \in {"working", "open"} :
              /\ NewOrder(x, r, NoCycle, s)
              /\ \/ call' = [call EXCEPT ![t].pc = "bind", ![t].ticket = x]
                 \/ Goto(t, "markUnknown")
                 \/ SilentReplies /\ Goto(t, "markRejected")
      /\ ReadOnly
      /\ UNCHANGED <<confirmations, crashes>>

BindExternalId(t) ==
  LET r == call[t].req
      x == call[t].ticket
  IN  /\ At(t, "bind")
      /\ LedgerStep(t, CanBind(ledger, r, x), Bound(ledger, r, x), "accept")
      /\ UNCHANGED <<orders, dispatched, confirmations, crashes>>

Mark(t, here, s, step) ==
  LET r == call[t].req
  IN  /\ At(t, here)
      /\ LedgerStep(t, CanMark(ledger, r), Marked(ledger, r, s), step)
      /\ UNCHANGED <<orders, dispatched, confirmations, crashes>>

RecordOutcome(t, here, s) ==
  LET r == call[t].req
  IN  /\ At(t, here)
      /\ LifecycleStep(t, CanPut(lifecycle, r, s), r, s, "idle")
      /\ UNCHANGED <<orders, dispatched, confirmations, crashes>>

MarkAccepted(t) == Mark(t, "accept", "ACCEPTED", "confirm")
RecordAcceptance(t) == RecordOutcome(t, "confirm", "ACCEPTED")
MarkRejected(t) == Mark(t, "markRejected", "REJECTED", "putRejected")
PutRejected(t) == RecordOutcome(t, "putRejected", "REJECTED")
MarkUnknown(t) == Mark(t, "markUnknown", "UNKNOWN", "putUnknown")
PutUnknown(t) == RecordOutcome(t, "putUnknown", "UNKNOWN")

-----------------------------------------------------------------------------
(* close_and_reconcile and reconcile_unknown. *)

\* The operator names the request and the ticket the ledger has for it; any
\* other ticket is refused.
StartClose(t, r) ==
  /\ At(t, "idle")
  /\ ledger[r].ticket # NoTicket
  /\ call' = [call EXCEPT ![t] = [Idle EXCEPT !.pc = "close", !.req = r, !.closing = TRUE,
                                              !.ticket = ledger[r].ticket, !.executed = TRUE]]
  /\ ReadOnly
  /\ UNCHANGED <<orders, dispatched, confirmations, crashes>>

\* Only an open position can be closed, and a close that went through may be
\* reported as refused.  The ledger is settled when it was accepted.
ClosePosition(t) ==
  /\ At(t, "close")
  /\ \/ ClosedNow(call[t].ticket) /\ (Goto(t, "settle") \/ Finish(t))
     \/ NoOrder /\ Finish(t)
  /\ ReadOnly
  /\ UNCHANGED <<dispatched, confirmations, crashes>>

\* What the operator declares: once nothing is being confirmed for the request
\* and no order of it is working, whether it was filled.
Declared(r, executed) ==
  /\ \A u \in Threads : call[u].req = r => call[u].pc \notin ConfirmSteps
  /\ \A x \in OrdersOf(r) : orders[x].state # "working"
  /\ executed <=> WasFilled(r)

\* reconcile_unknown: only an uncertain request.
StartReconcile(t, r, executed) ==
  /\ At(t, "idle")
  /\ ledger[r].status \in {"UNKNOWN", "RESERVED"}
  /\ Declared(r, executed)
  /\ call' = [call EXCEPT ![t] = [Idle EXCEPT !.pc = "settle", !.req = r,
                                              !.executed = executed]]
  /\ ReadOnly
  /\ UNCHANGED <<orders, dispatched, confirmations, crashes>>

SettleLedger(t) ==
  LET r == call[t].req
  IN  /\ At(t, "settle")
      /\ LedgerStep(t, CanReconcile(ledger, r), Reconciled(ledger, r, call[t].executed),
                    "conclude")
      /\ UNCHANGED <<orders, dispatched, confirmations, crashes>>

\* lifecycle.put after a close, which UNKNOWN resists; lifecycle.reconcile
\* otherwise, which needs a record.
ConcludeLifecycle(t) ==
  LET r == call[t].req
      verdict == IF call[t].executed THEN "ACCEPTED" ELSE "REJECTED"
      allowed == IF call[t].closing THEN CanPut(lifecycle, r, verdict)
                 ELSE lifecycle[r] # "NONE"
  IN  /\ At(t, "conclude")
      /\ LifecycleStep(t, allowed, r, verdict, "idle")
      /\ UNCHANGED <<orders, dispatched, confirmations, crashes>>

-----------------------------------------------------------------------------
(* The surroundings. *)

BrokerMoves(x) ==
  /\ EndedNow(x) \/ ClosedNow(x)
  /\ UNCHANGED <<stores, dispatched, confirmations, call, crashes>>

\* Mutant: confirmations that are pending survive the process.
CrashKeepsPending ==
  /\ crashes < MaxCrashes
  /\ crashes' = crashes + 1
  /\ Reloaded
  /\ call' = [t \in Threads |-> Idle]
  /\ UNCHANGED <<prepared, pending, consumed, expired, orders, dispatched>>

\* The process dies and starts again, without any confirmation.
Crash ==
  /\ crashes < MaxCrashes
  /\ crashes' = crashes + 1
  /\ Reloaded
  /\ pending' = {}
  /\ consumed' = {}
  /\ call' = [t \in Threads |-> Idle]
  /\ UNCHANGED <<prepared, expired, orders, dispatched>>

ConfirmStep(t) ==
  \/ LookUp(t) \/ Consume(t) \/ CheckStatus(t) \/ Reserve(t) \/ RecordStart(t)
  \/ Dispatch(t) \/ BindExternalId(t) \/ MarkAccepted(t) \/ RecordAcceptance(t)
  \/ MarkRejected(t) \/ PutRejected(t) \/ MarkUnknown(t) \/ PutUnknown(t)

SettleStep(t) == ClosePosition(t) \/ SettleLedger(t) \/ ConcludeLifecycle(t)

Next ==
  \/ \E t \in Threads :
       \/ \E r \in Requests : StartPrepare(t, r)
       \/ \E k \in Confirmations : Prepare(t, k)
       \/ \E k \in Confirmations, r \in Requests, b \in BOOLEAN : StartConfirm(t, k, r, b)
       \/ \E r \in Requests : StartClose(t, r)
       \/ \E r \in Requests, b \in BOOLEAN : StartReconcile(t, r, b)
       \/ ConfirmStep(t)
       \/ SettleStep(t)
  \/ \E k \in Confirmations : Expire(k)
  \/ \E x \in Tickets : BrokerMoves(x)
  \/ Crash

Spec == Init /\ [][Next]_vars

-----------------------------------------------------------------------------
(* Properties. *)

\* Every variable has its type.
TypeOK ==
  /\ StoreTypes
  /\ OrderTypes
  /\ prepared \in [Confirmations -> [req : Requests \cup {NoRequest}, life : Nat]]
  /\ pending \subseteq Confirmations
  /\ consumed \subseteq Confirmations
  /\ expired \subseteq Confirmations
  /\ call \in [Threads -> Call]
  /\ crashes \in Nat

\* An order is only sent for a request that a person has confirmed, in this
\* life of the process, with a confirmation made for that very request in it:
\* a restart cannot restore an armed REAL order (real_manual_confirmation.py:
\* 20-22, 74-77).
OrdersAreConfirmed ==
  [][\A r \in Requests : dispatched'[r] > dispatched[r] =>
       \E k \in consumed : prepared[k] = [req |-> r, life |-> crashes]]_vars

\* Before a REAL order is sent, both stores have it on disk, so that recovery
\* names it after a crash (real_gateway.py:99-112).
ArmedIsRecorded ==
  \A r \in Requests : dispatched[r] > 0 =>
    ledgerSaved /\ r \in Recorded(ledger) /\ r \in lifeSaved

\* When the recovery verdict lets a new order be prepared and no request is
\* being served, no order is left at the broker without a true verdict
\* (_recovery_safe).
Quiet == \A t \in Threads : call[t].pc = "idle"
ResumeLeavesNothingBehind ==
  CanResume(ledger, lifecycle, checkpoint) /\ Quiet => EveryOrderIsSettled
=============================================================================
