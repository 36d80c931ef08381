----------------------- MODULE DemoExecutionProperties -----------------------
(***************************************************************************)
(* What the DEMO order path must guarantee: types, safety, action          *)
(* properties, the abstract order desk it implements, and liveness.        *)
(***************************************************************************)
EXTENDS DemoExecution

\* Every variable has its type.
CallTypes == call \in [Threads -> Call]
WorldTypes ==
  /\ OrderTypes
  /\ processed \subseteq Requests
  /\ usedCycles \subseteq Cycles
  /\ crashes \in Nat
TypeOK == StoreTypes /\ CallTypes /\ WorldTypes

\* No ticket stands for two requests, even when the operator enters a wrong one
\* while the gateway binds its own (bind_external_id).
TicketsNameOneRequest ==
  \A q, r \in Requests :
    q # r /\ ledger[q].ticket # NoTicket => ledger[q].ticket # ledger[r].ticket

\* When a restart would be allowed to go on (can_resume) and no request is
\* being served, no order is left at the broker without a true verdict.
Quiet == \A t \in Threads : call[t].pc = "idle"
ResumeLeavesNothingBehind ==
  CanResume(ledger, lifecycle, checkpoint) /\ Quiet => EveryOrderIsSettled

\* A final status, a bound ticket and the cycle of a durable record are never
\* changed or lost (the ledger's transitions, over failed writes and restarts).
LedgerOnlyAdvances == [][ledgerSaved => ledgerSaved' /\ AdvancesTo(ledger, ledger')]_vars

\* With one request served at a time, a second order is never dispatched while
\* an earlier one has no final status (readiness reads the recovery verdict
\* before the gateway is reached).
OneOrderAtATime ==
  \A q, r \in Requests :
    q # r /\ dispatched[q] > 0 /\ dispatched[r] > 0 =>
      \E p \in {q, r} : ledger[p].status \in FinalStatus

\* When nothing is being served and resuming is refused, there is a recorded
\* request that a reconciliation can still change (recovery_coordinator.py:142:
\* what diverges "requer reconciliação").
RefusalIsReconcilable ==
  Quiet /\ ~CanResume(ledger, lifecycle, checkpoint) =>
    \E r \in Recorded(ledger) :
      \/ CanReconcile(ledger, r)
      \/ ledger[r].status \in FinalStatus \ AllowedPairs(lifecycle[r])

-----------------------------------------------------------------------------
(* Liveness.  A thread keeps running; the operator goes on asking about each *)
(* ticket of a cycle and declaring what became of uncertain requests, and    *)
(* the broker goes on answering now and then.                                *)

Fairness ==
  /\ \A t \in Threads : WF_vars(CycleStep(t) \/ ReconcileStep(t))
  /\ \A c \in Cycles, x \in Tickets :
       SF_vars(\E t \in Threads : StartReconcile(t, c, x, FALSE))
  /\ \A r \in Requests, b \in BOOLEAN :
       SF_vars(\E t \in Threads : StartManualReconcile(t, r, b))
  /\ \A x \in Tickets :
       SF_vars(\E t \in Threads : call[t].ticket = x /\ OrderSettles(t))
  /\ \A x \in Tickets : WF_vars(BrokerMoves(x))

FairSpec == Spec /\ Fairness

IsUnresolved(r) == r \in Unresolved(ledger, lifecycle, checkpoint)

\* Every request whose order the broker has ends in a state recovery calls
\* resolved, through failed writes and restarts (reconcile_external_cycle can
\* be repeated until it has settled both stores).
PlacedOrdersAreResolved ==
  \A x \in Tickets, r \in Requests :
    orders[x].req = r ~> orders[x].req = r /\ ~IsUnresolved(r)

\* No recorded request stays unresolved for ever (P28_PLAN.md:4: uncertain
\* states are kept blocked until reconciliation).
UncertainIsReconciled ==
  \A r \in Requests :
    r \in Recorded(ledger) /\ IsUnresolved(r) ~> ~IsUnresolved(r)
=============================================================================
