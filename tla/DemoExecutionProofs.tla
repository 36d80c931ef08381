------------------------- MODULE DemoExecutionProofs -------------------------
(***************************************************************************)
(* Proofs about the DEMO order path, for any requests, cycles, tickets and *)
(* threads and any number of failed writes and crashes:                    *)
(*   - every variable keeps its type,                                      *)
(*   - the ledger only advances,                                           *)
(*   - a ticket never stands for two requests,                             *)
(*   - an order is sent at most once, and only when its record is durable, *)
(*   - the verdicts of the ledger are true, a restart that may go on leaves*)
(*     no order behind, and the path implements the abstract order desk,   *)
(*     when adapter and operator are honest,                               *)
(*   - with one thread, orders are sent one at a time.                     *)
(***************************************************************************)
EXTENDS DemoExecutionProperties, StoreProofs

-----------------------------------------------------------------------------
(* Types.  TypeOK alone is not inductive: a call in progress must also name  *)
(* a request, for its steps read the stores at that key.                     *)

CallsNameRequests ==
  \A t \in Threads : call[t].pc \notin {"idle", "find"} => call[t].req \in Requests
CallsOK == CallTypes /\ CallsNameRequests
TypeInv == StoreTypes /\ CallsOK /\ WorldTypes

\* A step to another place of the same call, and the end of a call, keep the
\* types of the calls.
LEMMA GotoTypes ==
  ASSUME CallsOK, NEW t \in Threads, call[t].req \in Requests,
         NEW s \in CycleSteps \cup ReconcileSteps, Goto(t, s)
  PROVE  CallsOK'
<1>1. CallTypes'
  BY DEF CallsOK, CallTypes, Goto, Call
<1>2. CallsNameRequests'
  BY DEF CallsOK, CallTypes, CallsNameRequests, Goto, Call
<1>3. QED
  BY <1>1, <1>2 DEF CallsOK

\* A thread at rest has a call of the right type.
LEMMA IdleIsACall == Idle \in Call /\ Idle.pc = "idle"
BY DEF Idle, Call, LedgerStatusOrAbsent, LifecycleStateOrNone

\* A thread may be given any call that names a request where it must.
LEMMA NewCallTypes ==
  ASSUME CallsOK, NEW t \in Threads, NEW k \in Call,
         k.pc \notin {"idle", "find"} => k.req \in Requests,
         call' = [call EXCEPT ![t] = k]
  PROVE  CallsOK'
BY DEF CallsOK, CallTypes, CallsNameRequests

\* A call may end anywhere.
LEMMA FinishTypes == ASSUME CallsOK, NEW t \in Threads, Finish(t) PROVE CallsOK'
BY IdleIsACall, NewCallTypes DEF Finish

\* What the invariant says of one thread.
LEMMA ServedRequest ==
  ASSUME CallsOK, NEW t \in Threads
  PROVE  /\ call[t] \in Call
         /\ call[t].pc \notin {"idle", "find"} => call[t].req \in Requests
BY DEF CallsOK, CallTypes, CallsNameRequests

\* A step of a cycle keeps the types of the stores.
LEMMA CycleStepStoreTypes ==
  ASSUME TypeInv, NEW t \in Threads, CycleStep(t)
  PROVE  StoreTypes'
<1> USE DEF TypeInv
<1> DEFINE r == call[t].req
           c == call[t].cycle
           x == call[t].ticket
<1>1. c \in Cycles \cup {NoCycle} /\ x \in Tickets \cup {NoTicket}
  BY ServedRequest DEF Call
<1>2. /\ Reserved(ledger, r, c) \in [Requests -> ExecutionLedgerRecord]
      /\ Bound(ledger, r, x) \in [Requests -> ExecutionLedgerRecord]
  BY <1>1, LedgerChangesAreLedgers DEF StoreTypes, ExecutionLedgerStatus
<1>3. \A s \in ExecutionLedgerStatus :
        Marked(ledger, r, s) \in [Requests -> ExecutionLedgerRecord]
  BY <1>1, LedgerChangesAreLedgers DEF StoreTypes
<1>4. \A s \in ExecutionLifecycleState :
        Put(lifecycle, r, s) \in [Requests -> LifecycleStateOrNone]
  BY PutIsALifecycle DEF StoreTypes
<1> HIDE DEF r, c, x
<1>5. CASE \/ Readiness(t) \/ Gate(t) \/ CheckDuplicate(t) \/ CheckPriorLifecycle(t)
           \/ Dispatch(t)
  BY <1>5, ReadOnlyTypes
     DEF Readiness, Gate, CheckDuplicate, CheckPriorLifecycle, Dispatch
<1>6. CASE Reserve(t)
  BY <1>2, <1>6, LedgerWriteTypes, ReadOnlyTypes DEF Reserve, LedgerStep, r, c
<1>7. CASE BindExternalId(t)
  BY <1>2, <1>7, LedgerWriteTypes, ReadOnlyTypes DEF BindExternalId, LedgerStep, r, x
<1>8. CASE MarkAccepted(t)
  BY <1>3, <1>8, LedgerWriteTypes, ReadOnlyTypes
     DEF MarkAccepted, LedgerStep, r, ExecutionLedgerStatus
<1>9. CASE MarkRejected(t)
  BY <1>3, <1>9, LedgerWriteTypes, ReadOnlyTypes
     DEF MarkRejected, LedgerStep, r, ExecutionLedgerStatus
<1>10. CASE MarkUnknown(t)
  BY <1>3, <1>10, LedgerWriteTypes, ReadOnlyTypes
     DEF MarkUnknown, LedgerStep, r, ExecutionLedgerStatus
<1>11. CASE RecordStart(t)
  BY <1>4, <1>11, LifecycleWriteTypes, ReadOnlyTypes
     DEF RecordStart, LifecycleStep, r, ExecutionLifecycleState
<1>12. CASE RecordAcceptance(t)
  BY <1>4, <1>12, LifecycleWriteTypes, ReadOnlyTypes
     DEF RecordAcceptance, LifecycleStep, r, ExecutionLifecycleState
<1>13. CASE PutRejected(t)
  BY <1>4, <1>13, LifecycleWriteTypes, ReadOnlyTypes
     DEF PutRejected, LifecycleStep, r, ExecutionLifecycleState
<1>14. CASE PutUnknown(t)
  BY <1>4, <1>14, LifecycleWriteTypes, ReadOnlyTypes
     DEF PutUnknown, LifecycleStep, r, ExecutionLifecycleState
<1>15. CASE SaveCheckpoint(t)
  <2>1. r \in Requests
    BY <1>15, ServedRequest DEF SaveCheckpoint, At, r
  <2>2. checkpoint' \in Requests \cup {NoRequest} /\ faults' \in Nat
    BY <1>15, <2>1 DEF SaveCheckpoint, StoreTypes, r
  <2>3. UNCHANGED <<ledger, ledgerSaved, lifecycle, lifeSaved>>
    BY <1>15 DEF SaveCheckpoint
  <2>4. QED
    BY <2>2, <2>3 DEF StoreTypes
<1>16. QED
  BY <1>5, <1>6, <1>7, <1>8, <1>9, <1>10, <1>11, <1>12, <1>13, <1>14, <1>15
     DEF CycleStep

\* A step of an operator's request keeps the types of the stores.
LEMMA ReconcileStepStoreTypes ==
  ASSUME TypeInv, NEW t \in Threads, ReconcileStep(t)
  PROVE  StoreTypes'
<1> USE DEF TypeInv
<1> DEFINE r == call[t].req
           x == call[t].ticket
           b == call[t].executed
           verdict == IF b THEN "ACCEPTED" ELSE "REJECTED"
<1>1. x \in Tickets \cup {NoTicket} /\ b \in BOOLEAN
  BY ServedRequest DEF Call
<1>2. /\ Bound(ledger, r, x) \in [Requests -> ExecutionLedgerRecord]
      /\ Reconciled(ledger, r, b) \in [Requests -> ExecutionLedgerRecord]
  BY <1>1, LedgerChangesAreLedgers DEF StoreTypes, ExecutionLedgerStatus
<1>3. Put(lifecycle, r, verdict) \in [Requests -> LifecycleStateOrNone]
  BY PutIsALifecycle DEF StoreTypes, ExecutionLifecycleState
<1> HIDE DEF r, x, b, verdict
<1>4. CASE \/ FindIdentity(t) \/ InspectLifecycle(t) \/ ClosePosition(t)
           \/ ReadStatusAgain(t) \/ OrderSettles(t) \/ OrderUnsettled(t)
           \/ JudgeStatus(t)
  BY <1>4, ReadOnlyTypes
     DEF FindIdentity, InspectLifecycle, ClosePosition, ReadStatusAgain,
         OrderSettles, OrderUnsettled, JudgeStatus
<1>5. CASE AttachTicket(t)
  BY <1>2, <1>5, LedgerWriteTypes, ReadOnlyTypes DEF AttachTicket, r, x
<1>6. CASE SettleLedger(t)
  BY <1>2, <1>6, LedgerWriteTypes, ReadOnlyTypes DEF SettleLedger, r, b
<1>7. CASE ConcludeLifecycle(t)
  BY <1>3, <1>7, LifecycleWriteTypes, ReadOnlyTypes
     DEF ConcludeLifecycle, r, b, verdict
<1>8. QED
  BY <1>4, <1>5, <1>6, <1>7 DEF ReconcileStep

\* A step of a cycle keeps the types of the calls.
LEMMA CycleStepCallTypes ==
  ASSUME TypeInv, NEW t \in Threads, CycleStep(t)
  PROVE  CallsOK'
<1>1. call[t].req \in Requests
  BY ServedRequest
     DEF TypeInv, CycleStep, At, Readiness, Gate, CheckDuplicate, CheckPriorLifecycle,
         Reserve, RecordStart, Dispatch, BindExternalId, MarkAccepted, RecordAcceptance,
         MarkRejected, PutRejected, MarkUnknown, PutUnknown, SaveCheckpoint
<1>2. CallsOK
  BY DEF TypeInv
<1>3. \A s \in CycleSteps : Goto(t, s) => CallsOK'
  BY <1>1, <1>2, GotoTypes
<1>4. Finish(t) => CallsOK'
  BY <1>2, FinishTypes
<1>5. CASE Readiness(t) \/ Gate(t) \/ CheckDuplicate(t) \/ CheckPriorLifecycle(t)
  BY <1>3, <1>4, <1>5
     DEF Readiness, Gate, CheckDuplicate, CheckPriorLifecycle, CycleSteps
<1>6. CASE Reserve(t) \/ RecordStart(t) \/ BindExternalId(t) \/ MarkAccepted(t)
           \/ RecordAcceptance(t)
  BY <1>3, <1>6
     DEF Reserve, RecordStart, BindExternalId, MarkAccepted, RecordAcceptance,
         LedgerStep, LifecycleStep, CycleSteps
<1>7. CASE MarkRejected(t) \/ PutRejected(t) \/ MarkUnknown(t) \/ PutUnknown(t)
  BY <1>3, <1>7
     DEF MarkRejected, PutRejected, MarkUnknown, PutUnknown, LedgerStep, LifecycleStep,
         CycleSteps
<1>8. CASE Dispatch(t)
  <2>1. ASSUME NEW x \in Tickets, call' = [call EXCEPT ![t].pc = "bind", ![t].ticket = x]
        PROVE  CallsOK'
    <3>1. "bind" \in CycleSteps
      BY DEF CycleSteps
    <3>2. CallTypes'
      BY ZenonT(40), <1>2, <2>1, <3>1 DEF CallsOK, CallTypes, Call
    <3>3. CallsNameRequests'
      BY <1>1, <1>2, <2>1 DEF CallsOK, CallTypes, CallsNameRequests, Call
    <3>4. QED
      BY <3>2, <3>3 DEF CallsOK
  <2>2. QED
    BY <1>3, <1>8, <2>1 DEF Dispatch, CycleSteps
<1>9. CASE SaveCheckpoint(t)
  BY <1>4, <1>9 DEF SaveCheckpoint
<1>10. QED
  BY <1>5, <1>6, <1>7, <1>8, <1>9 DEF CycleStep

\* A step of an operator's request keeps the types of the calls.
LEMMA ReconcileStepCallTypes ==
  ASSUME TypeInv, NEW t \in Threads, ReconcileStep(t)
  PROVE  CallsOK'
<1> USE DEF TypeInv
<1>1. call[t] \in Call
  BY ServedRequest
<1>2. CallsOK
  OBVIOUS
<1>3. ~At(t, "idle") /\ ~At(t, "find") => call[t].req \in Requests
  BY ServedRequest DEF At
<1>4. Finish(t) => CallsOK'
  BY FinishTypes
<1>5. CASE FindIdentity(t)
  <2>1. ASSUME NEW r \in Requests,
               call' = [call EXCEPT ![t].pc = "inspect", ![t].req = r,
                                    ![t].status = ledger[r].status,
                                    ![t].bound = ledger[r].ticket # NoTicket]
        PROVE  CallsOK'
    <3> DEFINE s == ledger[r].status
               b == ledger[r].ticket # NoTicket
    <3>1. s \in LedgerStatusOrAbsent /\ b \in BOOLEAN /\ "inspect" \in ReconcileSteps
      BY DEF StoreTypes, ExecutionLedgerRecord, ReconcileSteps
    <3>2. call' = [call EXCEPT ![t].pc = "inspect", ![t].req = r, ![t].status = s,
                               ![t].bound = b]
      BY <2>1
    <3> HIDE DEF s, b
    <3> DEFINE k == [call[t] EXCEPT !.pc = "inspect", !.req = r, !.status = s, !.bound = b]
    <3>3. k \in Call /\ k.req \in Requests
      BY <1>1, <3>1 DEF Call
    <3>4. call' = [call EXCEPT ![t] = k]
      BY <3>2 DEF CallsOK, CallTypes
    <3> HIDE DEF k
    <3>5. QED
      BY <1>2, <3>3, <3>4, NewCallTypes
  <2>2. QED
    BY <1>4, <1>5, <2>1 DEF FindIdentity
<1>6. CASE InspectLifecycle(t)
  <2> DEFINE s == lifecycle[call[t].req]
             p == IF call[t].closing THEN "close"
                  ELSE IF call[t].bound THEN "query" ELSE "attach"
  <2>1. call[t].req \in Requests
    BY <1>3, <1>6 DEF InspectLifecycle, At
  <2>2. s \in LifecycleStateOrNone /\ p \in ReconcileSteps
    BY <2>1 DEF StoreTypes, ReconcileSteps
  <2>3. Finish(t) \/ call' = [call EXCEPT ![t].state = s, ![t].pc = p]
    BY <1>6 DEF InspectLifecycle
  <2> HIDE DEF s, p
  <2>4. ASSUME call' = [call EXCEPT ![t].state = s, ![t].pc = p]
        PROVE  CallsOK'
    <3>1. CallTypes'
      BY ZenonT(40), <2>2, <2>4 DEF CallsOK, CallTypes, Call
    <3>2. CallsNameRequests'
      BY <2>1, <2>4 DEF CallsOK, CallTypes, CallsNameRequests, Call
    <3>3. QED
      BY <3>1, <3>2 DEF CallsOK
  <2>5. QED
    BY <1>4, <2>3, <2>4
<1>7. CASE ClosePosition(t)
  <2> DEFINE k == [Idle EXCEPT !.pc = "find", !.cycle = call[t].cycle,
                               !.ticket = call[t].ticket]
  <2>1. k \in Call /\ k.pc = "find"
    BY <1>1, IdleIsACall DEF Call, ReconcileSteps
  <2>2. Finish(t) \/ call' = [call EXCEPT ![t] = k]
    BY <1>7 DEF ClosePosition
  <2> HIDE DEF k
  <2>3. QED
    BY <1>2, <1>4, <2>1, <2>2, NewCallTypes
<1>8. CASE ReadStatusAgain(t)
  <2> DEFINE s == ledger[call[t].req].status
  <2>1. call[t].req \in Requests
    BY <1>3, <1>8 DEF ReadStatusAgain, At
  <2>2. s \in LedgerStatusOrAbsent /\ "query" \in ReconcileSteps
    BY <2>1 DEF StoreTypes, ExecutionLedgerRecord, ReconcileSteps
  <2>3. call' = [call EXCEPT ![t].pc = "query", ![t].status = s]
    BY <1>8 DEF ReadStatusAgain
  <2> HIDE DEF s
  <2>4. CallTypes'
    BY ZenonT(40), <2>2, <2>3 DEF CallsOK, CallTypes, Call
  <2>5. CallsNameRequests'
    BY <2>1, <2>3 DEF CallsOK, CallTypes, CallsNameRequests, Call
  <2>6. QED
    BY <2>4, <2>5 DEF CallsOK
<1>9. CASE OrderSettles(t)
  <2> DEFINE e == orders[call[t].ticket].state \in Filled
             p == IF call[t].status = ReconciledStatus(e) THEN "conclude" ELSE "settle"
  <2>1. call[t].req \in Requests
    BY <1>3, <1>9 DEF OrderSettles, At
  <2>2. e \in BOOLEAN /\ p \in ReconcileSteps
    BY DEF ReconcileSteps
  <2>3. call' = [call EXCEPT ![t].executed = e, ![t].pc = p]
    BY <1>9 DEF OrderSettles
  <2> HIDE DEF e, p
  <2>4. CallTypes'
    BY ZenonT(40), <2>2, <2>3 DEF CallsOK, CallTypes, Call
  <2>5. CallsNameRequests'
    BY <2>1, <2>3 DEF CallsOK, CallTypes, CallsNameRequests, Call
  <2>6. QED
    BY <2>4, <2>5 DEF CallsOK
<1>10. CASE AttachTicket(t) \/ JudgeStatus(t) \/ SettleLedger(t)
  <2>1. call[t].req \in Requests
    BY <1>3, <1>10 DEF AttachTicket, JudgeStatus, SettleLedger, At
  <2>2. \A s \in ReconcileSteps : Goto(t, s) => CallsOK'
    BY <1>2, <2>1, GotoTypes
  <2>3. QED
    BY <1>4, <1>10, <2>2 DEF AttachTicket, JudgeStatus, SettleLedger, ReconcileSteps
<1>11. CASE OrderUnsettled(t) \/ ConcludeLifecycle(t)
  BY <1>4, <1>11 DEF OrderUnsettled, ConcludeLifecycle
<1>12. QED
  BY <1>5, <1>6, <1>7, <1>8, <1>9, <1>10, <1>11 DEF ReconcileStep

\* A step of a call keeps the types of everything that is not a store or a call.
LEMMA StepWorldTypes ==
  ASSUME TypeInv, NEW t \in Threads, CycleStep(t) \/ ReconcileStep(t)
  PROVE  WorldTypes'
<1> USE DEF TypeInv
<1>1. CASE Dispatch(t)
  <2> DEFINE r == call[t].req
  <2>1. r \in Requests /\ call[t].cycle \in Cycles \cup {NoCycle}
    BY <1>1, ServedRequest DEF Dispatch, At, Call
  <2>2. dispatched' = [dispatched EXCEPT ![r] = dispatched[r] + 1]
    BY <1>1 DEF Dispatch
  <2>3. dispatched \in [Requests -> Nat]
    BY DEF WorldTypes, OrderTypes
  <2>4. ASSUME NEW x \in Tickets, NEW s \in {"working", "open"}, NewOrder(x, r, call[t].cycle, s)
        PROVE  orders' \in [Tickets -> Order]
    BY <2>1, <2>4 DEF NewOrder, Order, OrderState, WorldTypes, OrderTypes
  <2>5. orders' \in [Tickets -> Order]
    BY <1>1, <2>4 DEF Dispatch, NoOrder, WorldTypes, OrderTypes
  <2>6. UNCHANGED <<processed, usedCycles, crashes>>
    BY <1>1 DEF Dispatch
  <2> HIDE DEF r
  <2>7. dispatched' \in [Requests -> Nat]
    BY <2>1, <2>2, <2>3
  <2>8. QED
    BY <2>5, <2>6, <2>7 DEF WorldTypes, OrderTypes
<1>2. CASE RecordAcceptance(t)
  <2>1. call[t].req \in Requests
    BY <1>2, ServedRequest DEF RecordAcceptance, At
  <2>2. processed' \subseteq Requests
    BY <1>2, <2>1 DEF RecordAcceptance, WorldTypes, OrderTypes
  <2>3. UNCHANGED <<usedCycles, orders, dispatched, crashes>>
    BY <1>2 DEF RecordAcceptance
  <2>4. QED
    BY <2>2, <2>3 DEF WorldTypes, OrderTypes
<1>3. CASE ClosePosition(t)
  <2>1. \/ UNCHANGED orders
        \/ orders' = [orders EXCEPT ![call[t].ticket].state = "closed"]
    BY <1>3 DEF ClosePosition, ClosedNow
  <2>2. "closed" \in OrderState
    BY DEF OrderState
  <2>3. orders' \in [Tickets -> Order]
    BY <2>1, <2>2 DEF WorldTypes, OrderTypes, Order
  <2>4. UNCHANGED <<processed, usedCycles, dispatched, crashes>>
    BY <1>3 DEF ClosePosition
  <2>5. QED
    BY <2>3, <2>4 DEF WorldTypes, OrderTypes
<1>4. CASE UNCHANGED <<processed, usedCycles, orders, dispatched, crashes>>
  BY <1>4 DEF WorldTypes, OrderTypes
<1>5. QED
  BY <1>1, <1>2, <1>3, <1>4
     DEF CycleStep, ReconcileStep, Readiness, Gate, CheckDuplicate, CheckPriorLifecycle,
         Reserve, RecordStart, BindExternalId, MarkAccepted, MarkRejected, PutRejected,
         MarkUnknown, PutUnknown, SaveCheckpoint, FindIdentity, InspectLifecycle,
         AttachTicket, ReadStatusAgain, OrderSettles, OrderUnsettled, JudgeStatus,
         SettleLedger, ConcludeLifecycle

\* The beginning of a call.
LEMMA StartTypes ==
  ASSUME TypeInv, NEW t \in Threads, NEW k \in Call,
         k.pc \notin {"idle", "find"} => k.req \in Requests,
         call' = [call EXCEPT ![t] = k],
         ReadOnly, usedCycles' \subseteq Cycles,
         UNCHANGED <<processed, orders, dispatched, crashes>>
  PROVE  TypeInv'
<1>1. StoreTypes'
  BY ReadOnlyTypes DEF TypeInv
<1>2. CallsOK'
  BY NewCallTypes DEF TypeInv
<1>3. WorldTypes'
  BY DEF TypeInv, WorldTypes, OrderTypes
<1>4. QED
  BY <1>1, <1>2, <1>3 DEF TypeInv

\* A new cycle keeps every type.
LEMMA StartCycleTypes ==
  ASSUME TypeInv, NEW t \in Threads, NEW r \in Requests, NEW c \in Cycles,
         StartCycle(t, r, c)
  PROVE  TypeInv'
<1> DEFINE k == [Idle EXCEPT !.pc = "readiness", !.req = r, !.cycle = c]
<1>1. k \in Call /\ k.req \in Requests
  BY IdleIsACall DEF Call, CycleSteps, Idle
<1>2. call' = [call EXCEPT ![t] = k] /\ usedCycles' \subseteq Cycles
  BY DEF StartCycle, TypeInv, WorldTypes, OrderTypes
<1> HIDE DEF k
<1>3. QED
  BY <1>1, <1>2, StartTypes DEF StartCycle

\* A new reconcile or close request keeps every type.
LEMMA StartReconcileTypes ==
  ASSUME TypeInv, NEW t \in Threads, NEW c \in Cycles, NEW x \in Tickets,
         NEW b \in BOOLEAN, StartReconcile(t, c, x, b)
  PROVE  TypeInv'
<1> DEFINE k == [Idle EXCEPT !.pc = "find", !.cycle = c, !.ticket = x, !.closing = b]
<1>1. k \in Call /\ k.pc = "find"
  BY IdleIsACall DEF Call, ReconcileSteps, Idle
<1>2. call' = [call EXCEPT ![t] = k] /\ usedCycles' \subseteq Cycles
  BY DEF StartReconcile, TypeInv, WorldTypes, OrderTypes
<1> HIDE DEF k
<1>3. QED
  BY <1>1, <1>2, StartTypes DEF StartReconcile

\* A new declaration of the operator keeps every type.
LEMMA StartManualReconcileTypes ==
  ASSUME TypeInv, NEW t \in Threads, NEW r \in Requests, NEW b \in BOOLEAN,
         StartManualReconcile(t, r, b)
  PROVE  TypeInv'
<1> DEFINE k == [Idle EXCEPT !.pc = "judge", !.req = r, !.executed = b]
<1>1. k \in Call /\ k.req \in Requests
  BY IdleIsACall DEF Call, ReconcileSteps, Idle
<1>2. call' = [call EXCEPT ![t] = k] /\ usedCycles' \subseteq Cycles
  BY DEF StartManualReconcile, TypeInv, WorldTypes, OrderTypes
<1> HIDE DEF k
<1>3. QED
  BY <1>1, <1>2, StartTypes DEF StartManualReconcile

\* The types hold at the start.
LEMMA InitTypes == Init => TypeInv
<1> SUFFICES ASSUME Init PROVE TypeInv
  OBVIOUS
<1> USE DEF Init, NoStores, NothingSent
<1>1. StoreTypes
  BY DEF StoreTypes, EmptyLedger, AbsentRecord, ExecutionLedgerRecord,
         LedgerStatusOrAbsent, EmptyLifecycle, LifecycleStateOrNone
<1>2. CallsOK
  BY IdleIsACall DEF CallsOK, CallTypes, CallsNameRequests
<1>3. WorldTypes
  BY DEF WorldTypes, OrderTypes, Order, OrderState, Unissued
<1>4. QED
  BY <1>1, <1>2, <1>3 DEF TypeInv

\* A crash keeps every type.
LEMMA CrashTypes == ASSUME TypeInv, Crash PROVE TypeInv'
<1> USE DEF TypeInv, Crash, Reloaded
<1>1. EmptyLedger \in [Requests -> ExecutionLedgerRecord]
  BY DEF EmptyLedger, AbsentRecord, ExecutionLedgerRecord, LedgerStatusOrAbsent
<1>2. ledger' \in [Requests -> ExecutionLedgerRecord]
  BY <1>1 DEF StoreTypes
<1>3. lifecycle' \in [Requests -> LifecycleStateOrNone]
  BY DEF StoreTypes, LifecycleStateOrNone
<1>4. StoreTypes'
  BY <1>2, <1>3 DEF StoreTypes
<1>5. CallsOK'
  BY IdleIsACall DEF CallsOK, CallTypes, CallsNameRequests
<1>6. WorldTypes'
  BY DEF WorldTypes, OrderTypes, Recorded
<1>7. QED
  BY <1>4, <1>5, <1>6

\* Every step keeps every type.
LEMMA NextTypes == TypeInv /\ [Next]_vars => TypeInv'
<1> SUFFICES ASSUME TypeInv, [Next]_vars PROVE TypeInv'
  OBVIOUS
<1>1. CASE \E t \in Threads : CycleStep(t) \/ ReconcileStep(t)
  BY <1>1, CycleStepStoreTypes, ReconcileStepStoreTypes, CycleStepCallTypes,
     ReconcileStepCallTypes, StepWorldTypes DEF TypeInv
<1>2. CASE \E t \in Threads, r \in Requests, c \in Cycles : StartCycle(t, r, c)
  BY <1>2, StartCycleTypes
<1>3. CASE \E t \in Threads, c \in Cycles, x \in Tickets, b \in BOOLEAN :
             StartReconcile(t, c, x, b)
  BY <1>3, StartReconcileTypes
<1>4. CASE \E t \in Threads, r \in Requests, b \in BOOLEAN : StartManualReconcile(t, r, b)
  BY <1>4, StartManualReconcileTypes
<1>5. CASE \E x \in Tickets : BrokerMoves(x)
  <2>1. UNCHANGED <<ledger, ledgerSaved, lifecycle, lifeSaved, checkpoint, faults, call,
                    processed, usedCycles, dispatched, crashes>>
    BY <1>5 DEF BrokerMoves, EndedNow, ClosedNow, stores
  <2>2. orders' \in [Tickets -> Order]
    BY <1>5 DEF BrokerMoves, EndedNow, ClosedNow, TypeInv, WorldTypes, OrderTypes, Order, OrderState
  <2>3. QED
    BY <2>1, <2>2 DEF TypeInv, StoreTypes, CallsOK, CallTypes, CallsNameRequests, WorldTypes, OrderTypes
<1>6. CASE Crash
  BY <1>6, CrashTypes
<1>7. CASE UNCHANGED vars
  BY <1>7
     DEF vars, TypeInv, StoreTypes, CallsOK, CallTypes, CallsNameRequests, WorldTypes, OrderTypes
<1>8. QED
  BY <1>1, <1>2, <1>3, <1>4, <1>5, <1>6, <1>7 DEF Next

\* So the types are invariant.
LEMMA TypeInvariance == Spec => []TypeInv
BY InitTypes, NextTypes, PTL DEF Spec

\* Every variable keeps its type, through every interleaving, failed write and
\* restart.
THEOREM TypeCorrectness == Spec => []TypeOK
<1>1. TypeInv => TypeOK
  BY SMTT(20) DEF TypeInv, CallsOK, TypeOK
<1>2. QED
  BY <1>1, TypeInvariance, PTL

-----------------------------------------------------------------------------
(* The ledger only advances.                                                 *)

\* A call changes the ledger only by writing, well or badly, what an allowed
\* operation makes of it.
LEMMA StepsOperate ==
  ASSUME TypeInv, NEW t \in Threads, CycleStep(t) \/ ReconcileStep(t)
  PROVE  \/ UNCHANGED <<ledger, ledgerSaved>>
         \/ \E new : Operated(ledger, new) /\ (LedgerWritten(new) \/ LedgerWriteFails(new))
<1> DEFINE r == call[t].req
           c == call[t].cycle
           x == call[t].ticket
           b == call[t].executed
           Goal == \/ UNCHANGED <<ledger, ledgerSaved>>
                   \/ \E new : /\ Operated(ledger, new)
                               /\ LedgerWritten(new) \/ LedgerWriteFails(new)
<1>1. ASSUME \/ Reserve(t) \/ BindExternalId(t) \/ MarkAccepted(t) \/ MarkRejected(t)
             \/ MarkUnknown(t) \/ AttachTicket(t) \/ SettleLedger(t)
      PROVE  Goal
  <2>1. r \in Requests
    BY <1>1, ServedRequest
       DEF TypeInv, At, Reserve, BindExternalId, MarkAccepted, MarkRejected, MarkUnknown,
           AttachTicket, SettleLedger
  <2>2. c \in Cycles \cup {NoCycle} /\ x \in Tickets \cup {NoTicket} /\ b \in BOOLEAN
    BY ServedRequest DEF TypeInv, Call
  <2>3. /\ CanReserve(ledger, r, c) => Operated(ledger, Reserved(ledger, r, c))
        /\ CanBind(ledger, r, x) => Operated(ledger, Bound(ledger, r, x))
        /\ CanReconcile(ledger, r) => Operated(ledger, Reconciled(ledger, r, b))
    BY <2>1, <2>2 DEF Operated
  <2>4. \A s \in {"ACCEPTED", "REJECTED", "UNKNOWN"} :
          CanMark(ledger, r) => Operated(ledger, Marked(ledger, r, s))
    BY <2>1 DEF Operated
  <2>5. ReadOnly => Goal
    BY DEF ReadOnly, stores
  <2> HIDE DEF r, c, x, b
  <2>6. CASE Reserve(t)
    BY <2>3, <2>5, <2>6 DEF Reserve, LedgerStep, r, c
  <2>7. CASE BindExternalId(t) \/ AttachTicket(t)
    BY <2>3, <2>5, <2>7 DEF BindExternalId, AttachTicket, LedgerStep, r, x
  <2>8. CASE MarkAccepted(t) \/ MarkRejected(t) \/ MarkUnknown(t)
    BY <2>4, <2>5, <2>8 DEF MarkAccepted, MarkRejected, MarkUnknown, LedgerStep, r
  <2>9. CASE SettleLedger(t)
    BY <2>3, <2>5, <2>9 DEF SettleLedger, r, b
  <2>10. QED
    BY <1>1, <2>6, <2>7, <2>8, <2>9
<1>2. ASSUME \/ RecordStart(t) \/ RecordAcceptance(t) \/ PutRejected(t) \/ PutUnknown(t)
             \/ ConcludeLifecycle(t)
      PROVE  UNCHANGED <<ledger, ledgerSaved>>
  BY <1>2
     DEF RecordStart, RecordAcceptance, PutRejected, PutUnknown, ConcludeLifecycle,
         LifecycleStep, LifecycleWritten, LifecycleWriteFails, ReadOnly, stores
<1>3. QED
  BY <1>1, <1>2
     DEF CycleStep, ReconcileStep, Readiness, Gate, CheckDuplicate, CheckPriorLifecycle,
         Dispatch, SaveCheckpoint, FindIdentity, InspectLifecycle, ClosePosition,
         ReadStatusAgain, OrderSettles, OrderUnsettled, JudgeStatus, ReadOnly, stores

\* So every step of a call advances the ledger.
LEMMA StepAdvances ==
  ASSUME TypeInv, NEW t \in Threads, CycleStep(t) \/ ReconcileStep(t)
  PROVE  Advance
<1>1. CASE UNCHANGED <<ledger, ledgerSaved>>
  BY <1>1, UnchangedAdvances
<1>2. ASSUME NEW new, Operated(ledger, new), LedgerWritten(new) \/ LedgerWriteFails(new)
      PROVE  Advance
  BY <1>2, OperatedAdvances, WritesAdvance DEF TypeInv, StoreTypes
<1>3. QED
  BY <1>1, <1>2, StepsOperate

\* And so does every step of the system.
LEMMA NextAdvances == TypeInv /\ [Next]_vars => Advance
<1> SUFFICES ASSUME TypeInv, [Next]_vars PROVE Advance
  OBVIOUS
<1>1. CASE \E t \in Threads : CycleStep(t) \/ ReconcileStep(t)
  BY <1>1, StepAdvances
<1>2. CASE Crash
  BY <1>2 DEF Crash, Reloaded, Advance, AdvancesTo
<1>3. ASSUME NEW t \in Threads, NEW r \in Requests, NEW c, NEW b,
             StartCycle(t, r, c) \/ StartManualReconcile(t, r, b)
      PROVE  Advance
  BY <1>3, UnchangedAdvances DEF StartCycle, StartManualReconcile, ReadOnly, stores
<1>4. ASSUME NEW t \in Threads, NEW c, NEW x, NEW b, StartReconcile(t, c, x, b)
      PROVE  Advance
  BY <1>4, UnchangedAdvances DEF StartReconcile, ReadOnly, stores
<1>5. CASE (\E x \in Tickets : BrokerMoves(x)) \/ UNCHANGED vars
  BY <1>5, UnchangedAdvances DEF BrokerMoves, EndedNow, ClosedNow, vars, stores
<1>6. QED
  BY <1>1, <1>2, <1>3, <1>4, <1>5 DEF Next

\* A durable record is never lost, never loses its cycle or its ticket, and
\* never leaves a final status.
THEOREM LedgerAdvances == Spec => LedgerOnlyAdvances
<1>1. TypeInv /\ [Next]_vars => [ledgerSaved => ledgerSaved' /\ AdvancesTo(ledger, ledger')]_vars
  BY NextAdvances DEF Advance
<1>2. QED
  BY <1>1, TypeInvariance, PTL DEF Spec, LedgerOnlyAdvances

-----------------------------------------------------------------------------
(* A ticket names one request.                                               *)

\* A record that is absent has no ticket: with this the uniqueness is inductive.
TicketInv ==
  /\ UniqueTickets(ledger)
  /\ \A r \in Requests : ledger[r].status = "ABSENT" => ledger[r].ticket = NoTicket

\* No step gives a ticket to a second request: a failed write leaves the old
\* ledger or the new one, a crash what is on disk or nothing.
LEMMA NextKeepsTickets == TypeInv /\ TicketInv /\ [Next]_vars => TicketInv'
<1> SUFFICES ASSUME TypeInv, TicketInv, [Next]_vars PROVE TicketInv'
  OBVIOUS
<1>1. CASE UNCHANGED ledger
  BY <1>1 DEF TicketInv, UniqueTickets
<1>2. CASE \E t \in Threads : CycleStep(t) \/ ReconcileStep(t)
  <2>1. ASSUME NEW new, Operated(ledger, new), LedgerWritten(new) \/ LedgerWriteFails(new)
        PROVE  TicketInv'
    <3>1. ledger' = ledger \/ ledger' = new
      BY <2>1 DEF LedgerWritten, LedgerWriteFails
    <3>2. /\ UniqueTickets(new)
          /\ \A r \in Requests : new[r].status = "ABSENT" => new[r].ticket = NoTicket
      BY <2>1, OperatedKeepsTickets DEF TicketInv, TypeInv, StoreTypes
    <3>3. QED
      BY <1>1, <3>1, <3>2 DEF TicketInv, UniqueTickets
  <2>2. QED
    BY <1>1, <1>2, <2>1, StepsOperate
<1>3. CASE Crash
  <2>1. ledger' = ledger \/ ledger' = EmptyLedger
    BY <1>3 DEF Crash, Reloaded
  <2>2. QED
    BY <1>1, <2>1 DEF TicketInv, UniqueTickets, EmptyLedger, AbsentRecord
<1>4. ASSUME \/ \E x \in Tickets : BrokerMoves(x)
             \/ UNCHANGED vars
             \/ \E t \in Threads :
                  \/ \E r \in Requests, c \in Cycles : StartCycle(t, r, c)
                  \/ \E c \in Cycles, x \in Tickets, b \in BOOLEAN : StartReconcile(t, c, x, b)
                  \/ \E r \in Requests, b \in BOOLEAN : StartManualReconcile(t, r, b)
      PROVE  UNCHANGED ledger
  BY <1>4 DEF BrokerMoves, EndedNow, ClosedNow, vars, stores, StartCycle, StartReconcile,
              StartManualReconcile, ReadOnly
<1>5. QED
  BY <1>1, <1>2, <1>3, <1>4 DEF Next

\* Whoever binds a ticket, the gateway or the operator, and whatever fails in
\* between, no ticket stands for two requests.
THEOREM OneRequestPerTicket == Spec => []TicketsNameOneRequest
<1>1. Init => TicketInv
  BY DEF Init, NoStores, NothingSent, TicketInv, UniqueTickets, EmptyLedger, AbsentRecord
<1>2. TicketInv => TicketsNameOneRequest
  BY DEF TicketInv, UniqueTickets, TicketsNameOneRequest
<1>3. QED
  BY <1>1, <1>2, NextKeepsTickets, TypeInvariance, PTL DEF Spec

-----------------------------------------------------------------------------
(* An order is sent at most once, and only when its record is durable.       *)

\* Between its reservation and the executor call a thread holds its request
\* alone: the request is on disk and was never sent.
Claims(t) == call[t].pc \in {"start", "dispatch"}
ClaimsAreDurable ==
  \A t \in Threads : Claims(t) =>
    /\ ledgerSaved
    /\ call[t].req \in Recorded(ledger)
    /\ dispatched[call[t].req] = 0
ClaimsAreExclusive ==
  \A s, t \in Threads : Claims(s) /\ Claims(t) /\ s # t => call[s].req # call[t].req
DispatchInv ==
  AtMostOneDispatch /\ DispatchedIsDurable /\ ClaimsAreDurable /\ ClaimsAreExclusive

\* A step that dispatches nothing and gives no thread a new claim keeps all this,
\* because the ledger only advances.
LEMMA NoNewClaim ==
  ASSUME TypeInv, DispatchInv, Advance, UNCHANGED dispatched,
         \A u \in Threads : Claims(u)' => Claims(u) /\ call'[u].req = call[u].req
  PROVE  DispatchInv'
<1> USE DEF DispatchInv, Advance, AdvancesTo
<1>1. AtMostOneDispatch'
  BY DEF AtMostOneDispatch
<1>2. DispatchedIsDurable'
  BY DEF DispatchedIsDurable
<1>3. ClaimsAreDurable'
  BY DEF ClaimsAreDurable
<1>4. ClaimsAreExclusive'
  BY DEF ClaimsAreExclusive
<1>5. QED
  BY <1>1, <1>2, <1>3, <1>4

\* What the steps of one thread do to the claims of all.
LEMMA GotoClaims ==
  ASSUME TypeInv, NEW t \in Threads, NEW s, Goto(t, s) \/ Finish(t),
         s \in {"start", "dispatch"} => Claims(t)
  PROVE  \A u \in Threads : Claims(u)' => Claims(u) /\ call'[u].req = call[u].req
BY DEF TypeInv, CallsOK, CallTypes, Call, Goto, Finish, Idle, Claims

\* A reservation gives a claim on a request nobody else has.
LEMMA ReserveKeepsDispatchInv ==
  ASSUME TypeInv, DispatchInv, NEW t \in Threads, Reserve(t)
  PROVE  DispatchInv'
<1> DEFINE r == call[t].req
           c == call[t].cycle
<1>1. Advance
  BY StepAdvances DEF CycleStep
<1>2. UNCHANGED dispatched /\ r \in Requests
  BY ServedRequest DEF Reserve, At, TypeInv
<1>3. CASE CanReserve(ledger, r, c) /\ LedgerWritten(Reserved(ledger, r, c)) /\ Goto(t, "start")
  <2>1. r \notin Recorded(ledger) /\ r \in Recorded(ledger') /\ ledgerSaved'
    BY <1>2, <1>3
       DEF CanReserve, LedgerWritten, Reserved, Recorded, TypeInv, StoreTypes,
           ExecutionLedgerRecord
  <2>2. dispatched[r] = 0
    BY <1>2, <2>1 DEF DispatchInv, DispatchedIsDurable, TypeInv, WorldTypes, OrderTypes
  <2>3. \A u \in Threads : call'[u].req = call[u].req
    BY <1>3 DEF Goto, TypeInv, CallsOK, CallTypes, Call
  <2>4. \A u \in Threads : Claims(u)' => u = t \/ Claims(u)
    BY <1>3 DEF Goto, Claims, TypeInv, CallsOK, CallTypes, Call
  <2>5. \A u \in Threads \ {t} : Claims(u) => call[u].req # r
    BY <2>1 DEF DispatchInv, ClaimsAreDurable
  <2>6. Recorded(ledger) \subseteq Recorded(ledger')
    BY <1>3 DEF LedgerWritten, Reserved, Recorded, TypeInv, StoreTypes
  <2>7. AtMostOneDispatch'
    BY <1>2 DEF DispatchInv, AtMostOneDispatch
  <2>8. DispatchedIsDurable'
    BY <1>2, <2>1, <2>6 DEF DispatchInv, DispatchedIsDurable
  <2>9. ClaimsAreDurable'
    BY <1>2, <2>1, <2>2, <2>3, <2>4, <2>6 DEF DispatchInv, ClaimsAreDurable
  <2>10. ClaimsAreExclusive'
    BY <2>3, <2>4, <2>5 DEF DispatchInv, ClaimsAreExclusive
  <2>11. QED
    BY <2>7, <2>8, <2>9, <2>10 DEF DispatchInv
<1>4. CASE Goto(t, "checkpoint")
  BY <1>1, <1>2, <1>4, GotoClaims, NoNewClaim
<1>5. QED
  BY <1>3, <1>4 DEF Reserve, LedgerStep

\* An executor call uses up the claim.
LEMMA DispatchKeepsDispatchInv ==
  ASSUME TypeInv, DispatchInv, NEW t \in Threads, Dispatch(t)
  PROVE  DispatchInv'
<1> DEFINE r == call[t].req
<1>1. Claims(t) /\ r \in Requests
  BY ServedRequest DEF Dispatch, At, Claims, TypeInv
<1>2. dispatched[r] = 0 /\ ledgerSaved /\ r \in Recorded(ledger)
  BY <1>1 DEF DispatchInv, ClaimsAreDurable
<1>3. /\ dispatched' = [dispatched EXCEPT ![r] = dispatched[r] + 1]
      /\ UNCHANGED <<ledger, ledgerSaved>>
  BY DEF Dispatch, ReadOnly, stores
<1>4. dispatched'[r] = 1 /\ \A q \in Requests \ {r} : dispatched'[q] = dispatched[q]
  BY <1>1, <1>2, <1>3 DEF TypeInv, WorldTypes, OrderTypes
<1>5. \A u \in Threads : Claims(u)' => u # t /\ Claims(u) /\ call'[u].req = call[u].req
  BY DEF Dispatch, Goto, Claims, TypeInv, CallsOK, CallTypes, Call
<1>6. \A u \in Threads \ {t} : Claims(u) => call[u].req # r /\ call[u].req \in Requests
  BY <1>1 DEF DispatchInv, ClaimsAreExclusive, ClaimsAreDurable, Recorded
<1>7. AtMostOneDispatch'
  BY <1>4 DEF DispatchInv, AtMostOneDispatch
<1>8. DispatchedIsDurable'
  BY <1>2, <1>3, <1>4 DEF DispatchInv, DispatchedIsDurable
<1>9. ClaimsAreDurable'
  BY <1>3, <1>4, <1>5, <1>6 DEF DispatchInv, ClaimsAreDurable
<1>10. ClaimsAreExclusive'
  BY <1>5 DEF DispatchInv, ClaimsAreExclusive
<1>11. QED
  BY <1>7, <1>8, <1>9, <1>10 DEF DispatchInv

\* Where the steps of a call that only reads, or closes a position, lead.
LEMMA SearchSteps ==
  ASSUME TypeInv, NEW t \in Threads,
         \/ FindIdentity(t) \/ InspectLifecycle(t) \/ ClosePosition(t)
         \/ ReadStatusAgain(t) \/ OrderSettles(t)
  PROVE  /\ \A u \in Threads \ {t} : call'[u] = call[u]
         /\ call'[t].pc \in ReconcileSteps \cup {"idle"}
<1>1. \A u \in Threads \ {t} : call'[u] = call[u]
  BY DEF FindIdentity, InspectLifecycle, ClosePosition, ReadStatusAgain, OrderSettles,
         Finish, TypeInv, CallsOK, CallTypes
<1>2. call'[t].pc \in ReconcileSteps \cup {"idle"}
  <2> USE DEF ReconcileSteps, Finish, Idle, TypeInv, CallsOK, CallTypes, Call
  <2>7. Finish(t) => call'[t].pc \in ReconcileSteps \cup {"idle"}
    OBVIOUS
  <2>1. CASE FindIdentity(t)
    <3>1. ASSUME NEW r \in Requests,
                 call' = [call EXCEPT ![t].pc = "inspect", ![t].req = r,
                                      ![t].status = ledger[r].status,
                                      ![t].bound = ledger[r].ticket # NoTicket]
          PROVE  call'[t].pc \in ReconcileSteps \cup {"idle"}
      <4> DEFINE s == ledger[r].status
                 b == ledger[r].ticket # NoTicket
      <4>1. call' = [call EXCEPT ![t].pc = "inspect", ![t].req = r, ![t].status = s,
                                 ![t].bound = b]
        BY <3>1
      <4> HIDE DEF s, b
      <4>2. QED
        BY <4>1
    <3>2. QED
      BY <2>7, <2>1, <3>1 DEF FindIdentity
  <2>2. CASE InspectLifecycle(t)
    <3> DEFINE s == lifecycle[call[t].req]
               p == IF call[t].closing THEN "close"
                    ELSE IF call[t].bound THEN "query" ELSE "attach"
    <3>1. Finish(t) \/ call' = [call EXCEPT ![t].state = s, ![t].pc = p]
      BY <2>2 DEF InspectLifecycle
    <3>2. p \in ReconcileSteps
      OBVIOUS
    <3> HIDE DEF s, p
    <3>3. QED
      BY <3>1, <3>2
  <2>3. CASE ClosePosition(t)
    <3> DEFINE k == [Idle EXCEPT !.pc = "find", !.cycle = call[t].cycle,
                                 !.ticket = call[t].ticket]
    <3>1. Finish(t) \/ call' = [call EXCEPT ![t] = k]
      BY <2>3 DEF ClosePosition
    <3>2. k.pc = "find"
      OBVIOUS
    <3> HIDE DEF k
    <3>3. QED
      BY <2>7, <3>1, <3>2
  <2>4. CASE ReadStatusAgain(t)
    BY <2>4 DEF ReadStatusAgain
  <2>5. CASE OrderSettles(t)
    <3> DEFINE e == orders[call[t].ticket].state \in Filled
               p == IF call[t].status = ReconciledStatus(e) THEN "conclude" ELSE "settle"
    <3>1. call' = [call EXCEPT ![t].executed = e, ![t].pc = p]
      BY <2>5 DEF OrderSettles
    <3>2. p \in ReconcileSteps
      OBVIOUS
    <3> HIDE DEF e, p
    <3>3. QED
      BY <3>1, <3>2
  <2>6. QED
    BY <2>1, <2>2, <2>3, <2>4, <2>5
<1>3. QED
  BY <1>1, <1>2

\* All other steps of a call give no claim.
LEMMA StepKeepsDispatchInv ==
  ASSUME TypeInv, DispatchInv, NEW t \in Threads, CycleStep(t) \/ ReconcileStep(t)
  PROVE  DispatchInv'
<1>1. Advance
  BY StepAdvances
<1>2. CASE Reserve(t)
  BY <1>2, ReserveKeepsDispatchInv
<1>3. CASE Dispatch(t)
  BY <1>3, DispatchKeepsDispatchInv
<1>4. ASSUME UNCHANGED dispatched,
             \/ Finish(t)
             \/ \E s : Goto(t, s) /\ s \notin {"start", "dispatch"}
      PROVE  DispatchInv'
  BY <1>1, <1>4, GotoClaims, NoNewClaim
<1>5. CASE RecordStart(t)
  <2>1. \E s \in {"dispatch", "markRejected"} : Goto(t, s)
    BY <1>5 DEF RecordStart, LifecycleStep
  <2>2. Claims(t) /\ UNCHANGED dispatched
    BY <1>5 DEF RecordStart, At, Claims
  <2>3. QED
    BY <1>1, <2>1, <2>2, GotoClaims, NoNewClaim
<1>6. CASE \/ Readiness(t) \/ Gate(t) \/ CheckDuplicate(t) \/ CheckPriorLifecycle(t)
           \/ SaveCheckpoint(t)
  BY <1>4, <1>6 DEF Readiness, Gate, CheckDuplicate, CheckPriorLifecycle, SaveCheckpoint
<1>7. CASE BindExternalId(t) \/ MarkAccepted(t) \/ MarkRejected(t) \/ MarkUnknown(t)
  BY <1>4, <1>7 DEF BindExternalId, MarkAccepted, MarkRejected, MarkUnknown, LedgerStep
<1>8. CASE RecordAcceptance(t) \/ PutRejected(t) \/ PutUnknown(t)
  BY <1>4, <1>8 DEF RecordAcceptance, PutRejected, PutUnknown, LifecycleStep
<1>9. CASE \/ AttachTicket(t) \/ OrderUnsettled(t) \/ JudgeStatus(t) \/ SettleLedger(t)
           \/ ConcludeLifecycle(t)
  BY <1>4, <1>9 DEF AttachTicket, OrderUnsettled, JudgeStatus, SettleLedger, ConcludeLifecycle
<1>10. ASSUME \/ FindIdentity(t) \/ InspectLifecycle(t) \/ ClosePosition(t)
              \/ ReadStatusAgain(t) \/ OrderSettles(t)
       PROVE  DispatchInv'
  <2>1. \A u \in Threads \ {t} : call'[u] = call[u]
    BY <1>10, SearchSteps
  <2>2. ~Claims(t)'
    BY <1>10, SearchSteps DEF Claims, ReconcileSteps
  <2>3. UNCHANGED dispatched
    BY <1>10
       DEF FindIdentity, InspectLifecycle, ClosePosition, ReadStatusAgain, OrderSettles
  <2>4. QED
    BY <1>1, <2>1, <2>2, <2>3, NoNewClaim DEF Claims
<1>11. QED
  BY <1>2, <1>3, <1>5, <1>6, <1>7, <1>8, <1>9, <1>10 DEF CycleStep, ReconcileStep

\* Nor does any other step of the system.
LEMMA NextKeepsDispatchInv == TypeInv /\ DispatchInv /\ [Next]_vars => DispatchInv'
<1> SUFFICES ASSUME TypeInv, DispatchInv, [Next]_vars PROVE DispatchInv'
  OBVIOUS
<1>1. Advance
  BY NextAdvances
<1>2. CASE \E t \in Threads : CycleStep(t) \/ ReconcileStep(t)
  BY <1>2, StepKeepsDispatchInv
<1>3. ASSUME NEW t \in Threads, NEW r, NEW c, NEW x, NEW b,
             \/ StartCycle(t, r, c)
             \/ StartReconcile(t, c, x, b)
             \/ StartManualReconcile(t, r, b)
      PROVE  DispatchInv'
  <2>1. UNCHANGED dispatched
    BY <1>3 DEF StartCycle, StartReconcile, StartManualReconcile
  <2>2. \E k : call' = [call EXCEPT ![t] = k] /\ k.pc \in {"readiness", "find", "judge"}
    <3> DEFINE k1 == [Idle EXCEPT !.pc = "readiness", !.req = r, !.cycle = c]
               k2 == [Idle EXCEPT !.pc = "find", !.cycle = c, !.ticket = x, !.closing = b]
               k3 == [Idle EXCEPT !.pc = "judge", !.req = r, !.executed = b]
    <3>1. k1.pc = "readiness" /\ k2.pc = "find" /\ k3.pc = "judge"
      BY DEF Idle
    <3>2. \E k \in {k1, k2, k3} : call' = [call EXCEPT ![t] = k]
      BY <1>3 DEF StartCycle, StartReconcile, StartManualReconcile
    <3> HIDE DEF k1, k2, k3
    <3>3. QED
      BY <3>1, <3>2
  <2>3. (\A u \in Threads \ {t} : call'[u] = call[u]) /\ ~Claims(t)'
    BY <2>2 DEF Claims, TypeInv, CallsOK, CallTypes
  <2>4. QED
    BY <1>1, <2>1, <2>3, NoNewClaim DEF Claims
<1>4. CASE Crash
  <2>1. \A u \in Threads : ~Claims(u)'
    BY <1>4 DEF Crash, Reloaded, Claims, Idle
  <2>2. UNCHANGED dispatched
    BY <1>4 DEF Crash, Reloaded
  <2>3. QED
    BY <1>1, <2>1, <2>2, NoNewClaim
<1>5. CASE (\E x \in Tickets : BrokerMoves(x)) \/ UNCHANGED vars
  <2>1. UNCHANGED <<call, dispatched>>
    BY <1>5 DEF BrokerMoves, EndedNow, ClosedNow, vars
  <2>2. QED
    BY <1>1, <2>1, NoNewClaim DEF Claims
<1>6. ASSUME NEW t \in Threads, NEW r \in Requests, NEW c \in Cycles, StartCycle(t, r, c)
      PROVE  DispatchInv'
  BY <1>3, <1>6
<1>7. QED
  BY <1>2, <1>3, <1>4, <1>5, <1>6 DEF Next

\* So claims are durable and exclusive in every state.
LEMMA DispatchInvariance == Spec => []DispatchInv
<1>1. Init => DispatchInv
  BY DEF Init, NoStores, NothingSent, DispatchInv, AtMostOneDispatch, DispatchedIsDurable, ClaimsAreDurable,
         ClaimsAreExclusive, Claims, Idle
<1>2. QED
  BY <1>1, NextKeepsDispatchInv, TypeInvariance, PTL DEF Spec

\* Whatever the threads, the failed writes and the restarts, the executor is
\* called at most once for a request.
THEOREM NoSecondDispatch == Spec => []AtMostOneDispatch
BY DispatchInvariance, PTL DEF DispatchInv

\* Every order sent is one a restart finds in the ledger file.
THEOREM NoForgottenDispatch == Spec => []DispatchedIsDurable
BY DispatchInvariance, PTL DEF DispatchInv

-----------------------------------------------------------------------------
(* Verdicts are true, when the adapter reports what it did and the operator  *)
(* enters what the broker shows.  The books (module StoreProofs) are kept by *)
(* what each call in progress may rely on.                                   *)

Honest == ~SilentReplies /\ ~CarelessOperator

\* A call that has reserved its request and has not recorded the answer yet.
HoldSteps == {"start", "dispatch", "bind", "accept", "confirm", "markRejected", "markUnknown"}
\* A call that is about to settle a request with a verdict it has.
JudgeSteps == {"judge", "settle"}
\* A call about the order with the ticket it was given, before and after it has
\* found the request.
SeekSteps == {"find", "inspect", "close"}
OrderSteps == {"inspect", "close", "attach", "reread", "query"}

Grounded(k) ==
  /\ k.pc \in HoldSteps => ledgerSaved /\ k.req \in Recorded(ledger)
  /\ k.pc \in {"start", "dispatch"} =>
       ledger[k.req].status = "RESERVED" /\ ledger[k.req].cycle = k.cycle
  /\ k.pc = "markRejected" => OrdersOf(k.req) = {}
  /\ k.pc \in SeekSteps =>
       /\ k.ticket \in Tickets
       /\ orders[k.ticket].req \in Requests /\ orders[k.ticket].cycle = k.cycle
  /\ k.pc \in OrderSteps => k.ticket \in Tickets /\ orders[k.ticket].req = k.req
  /\ k.pc \in JudgeSteps => k.req \in Recorded(ledger) /\ Known(k.req, k.executed)
CallsAreGrounded == \A t \in Threads : Grounded(call[t])

\* Nobody else holds a request that is held, or settles one that is claimed.
HoldsAreExclusive ==
  \A s, t \in Threads :
    s # t /\ call[s].pc \in HoldSteps /\ call[t].pc \in HoldSteps => call[s].req # call[t].req
JudgedIsUnclaimed ==
  \A s, t \in Threads : call[s].pc \in JudgeSteps /\ Claims(t) => call[s].req # call[t].req

\* The ledger has the cycle in which each order was sent.
CyclesAreRecorded ==
  \A x \in Tickets : orders[x].req \in Requests => ledger[orders[x].req].cycle = orders[x].cycle

VerdictInv ==
  BooksInv /\ CyclesAreRecorded /\ CallsAreGrounded /\ HoldsAreExclusive /\ JudgedIsUnclaimed
SoundState == TypeInv /\ DispatchInv /\ VerdictInv

\* What every step from such a state does.
SoundStep == BookStep /\ VerdictInv'

\* What a call relies on outlasts the steps of others.
LEMMA GroundedStays ==
  ASSUME NEW k \in Call, k.pc \notin {"idle", "find"} => k.req \in Requests,
         Grounded(k), LedgerGrows, OrdersGrow,
         k.pc \in {"start", "dispatch"} => ledger'[k.req].status = "RESERVED",
         k.pc \in {"markRejected"} \cup JudgeSteps => NoNewOrder(k.req)
  PROVE  Grounded(k)'
<1>1. k.pc \in HoldSteps => ledgerSaved' /\ k.req \in Recorded(ledger')
  BY DEF Grounded, LedgerGrows
<1>2. k.pc \in {"start", "dispatch"} =>
        ledger'[k.req].status = "RESERVED" /\ ledger'[k.req].cycle = k.cycle
  BY DEF Grounded, LedgerGrows, HoldSteps
<1>3. k.pc = "markRejected" => (OrdersOf(k.req) = {})'
  BY UnsentStays DEF Grounded
<1>4. k.pc \in SeekSteps =>
        /\ k.ticket \in Tickets
        /\ orders'[k.ticket].req \in Requests /\ orders'[k.ticket].cycle = k.cycle
  BY DEF Grounded, OrdersGrow
<1>5. k.pc \in OrderSteps => k.ticket \in Tickets /\ orders'[k.ticket].req = k.req
  BY DEF Grounded, OrdersGrow, OrderSteps
<1>6. k.pc \in JudgeSteps => k.req \in Recorded(ledger') /\ Known(k.req, k.executed)'
  <2>1. k.executed \in BOOLEAN
    BY DEF Call
  <2>2. k.pc \in JudgeSteps => k.req \in Requests
    BY DEF JudgeSteps
  <2>3. QED
    BY <2>1, <2>2, KnownStays DEF Grounded, LedgerGrows
<1>7. QED
  BY <1>1, <1>2, <1>3, <1>4, <1>5, <1>6 DEF Grounded

\* A step by which thread t comes to do k and the stores and orders grow.
LEMMA ThreadStep ==
  ASSUME SoundState, NEW t \in Threads, NEW k, call' = [call EXCEPT ![t] = k],
         BookStep, LedgerGrows, OrdersGrow, CyclesAreRecorded', Grounded(k)',
         \A u \in Threads \ {t} : Claims(u) => ledger'[call[u].req].status = "RESERVED",
         \A u \in Threads \ {t} :
           call[u].pc \in {"markRejected"} \cup JudgeSteps => NoNewOrder(call[u].req),
         k.pc \in HoldSteps =>
           \A u \in Threads \ {t} : call[u].pc \in HoldSteps => call[u].req # k.req,
         k.pc \in JudgeSteps => \A u \in Threads \ {t} : Claims(u) => call[u].req # k.req,
         k.pc \in {"start", "dispatch"} =>
           \A u \in Threads \ {t} : call[u].pc \in JudgeSteps => call[u].req # k.req
  PROVE  SoundStep
<1>1. BooksInv'
  BY StepsKeepBooks DEF SoundState, TypeInv, VerdictInv, WorldTypes
<1>2. call'[t] = k /\ \A u \in Threads \ {t} : call'[u] = call[u]
  BY DEF SoundState, TypeInv, CallsOK, CallTypes
<1>3. \A u \in Threads \ {t} : Grounded(call[u])'
  <2> SUFFICES ASSUME NEW u \in Threads \ {t}, NEW m, m = call[u] PROVE Grounded(m)'
    BY <1>2
  <2>1. m \in Call /\ (m.pc \notin {"idle", "find"} => m.req \in Requests) /\ Grounded(m)
    BY ServedRequest DEF SoundState, TypeInv, VerdictInv, CallsAreGrounded
  <2>2. m.pc \in {"start", "dispatch"} => ledger'[m.req].status = "RESERVED"
    BY DEF Claims
  <2>3. QED
    BY <2>1, <2>2, GroundedStays
<1>4. CallsAreGrounded'
  BY <1>2, <1>3 DEF CallsAreGrounded
<1>5. HoldsAreExclusive'
  BY <1>2 DEF SoundState, VerdictInv, HoldsAreExclusive
<1>6. JudgedIsUnclaimed'
  BY <1>2 DEF SoundState, VerdictInv, JudgedIsUnclaimed, Claims, JudgeSteps
<1>7. QED
  BY <1>1, <1>4, <1>5, <1>6 DEF SoundStep, VerdictInv

\* The calls in the middle of nothing that others could disturb.
RestSteps == {"idle", "readiness", "gate", "duplicate", "prior", "reserve", "putRejected",
              "putUnknown", "checkpoint", "conclude"}

LEMMA RestIsGrounded == \A k : k.pc \in RestSteps => Grounded(k)
BY DEF RestSteps, Grounded, HoldSteps, SeekSteps, OrderSteps, JudgeSteps

\* Where the end of a call and a step to another place lead.
LEMMA GotoIs ==
  ASSUME SoundState, NEW t \in Threads, NEW s, Goto(t, s)
  PROVE  \E k : /\ call' = [call EXCEPT ![t] = k]
               /\ k = [call[t] EXCEPT !.pc = s]
               /\ k.pc = s /\ k.req = call[t].req /\ k.cycle = call[t].cycle
               /\ k.ticket = call[t].ticket /\ k.executed = call[t].executed
<1>1. call[t] \in Call /\ call \in [Threads -> Call]
  BY DEF SoundState, TypeInv, CallsOK, CallTypes
<1> DEFINE k == [call[t] EXCEPT !.pc = s]
<1>2. call' = [call EXCEPT ![t] = k]
  BY <1>1 DEF Goto
<1>3. /\ k.pc = s /\ k.req = call[t].req /\ k.cycle = call[t].cycle
      /\ k.ticket = call[t].ticket /\ k.executed = call[t].executed
  BY <1>1 DEF Call
<1>4. QED
  BY <1>2, <1>3

\* A step that writes neither the ledger nor an order.
LEMMA QuietStep ==
  ASSUME SoundState, NEW t \in Threads, NEW k, call' = [call EXCEPT ![t] = k],
         UNCHANGED <<ledger, ledgerSaved, orders, dispatched>>, Grounded(k),
         k.pc \in HoldSteps => call[t].pc \in HoldSteps /\ k.req = call[t].req,
         k.pc \in {"start", "dispatch"} => Claims(t),
         k.pc \in JudgeSteps => \A u \in Threads \ {t} : Claims(u) => call[u].req # k.req
  PROVE  SoundStep
<1>1. BookStep
  BY DEF BookStep
<1>2. LedgerGrows /\ OrdersGrow /\ \A r : NoNewOrder(r)
  BY StandingStill
<1>3. CyclesAreRecorded'
  BY DEF SoundState, VerdictInv, CyclesAreRecorded
<1>4. Grounded(k)'
  <2>1. \A r, b : Known(r, b)' <=> Known(r, b)
    BY DEF Known, WasFilled, OrdersOf
  <2>2. OrdersOf(k.req)' = OrdersOf(k.req)
    BY DEF OrdersOf
  <2>3. QED
    BY <2>1, <2>2 DEF Grounded, Recorded
<1>5. \A u \in Threads \ {t} : Claims(u) => ledger'[call[u].req].status = "RESERVED"
  BY DEF SoundState, VerdictInv, CallsAreGrounded, Grounded, Claims
<1>6. /\ k.pc \in HoldSteps =>
           \A u \in Threads \ {t} : call[u].pc \in HoldSteps => call[u].req # k.req
      /\ k.pc \in {"start", "dispatch"} =>
           \A u \in Threads \ {t} : call[u].pc \in JudgeSteps => call[u].req # k.req
  BY DEF SoundState, VerdictInv, HoldsAreExclusive, JudgedIsUnclaimed, HoldSteps
<1>7. QED
  BY <1>1, <1>2, <1>3, <1>4, <1>5, <1>6, ThreadStep

\* A truthful write by a call that holds its request, or for one that nobody
\* else claims.
LEMMA WriteStep ==
  ASSUME SoundState, NEW t \in Threads, NEW r \in Requests, NEW new, TruthfulWrite(new),
         \A q \in Requests \ {r} : new[q] = ledger[q],
         \/ new[r].status = ledger[r].status
         \/ \A u \in Threads \ {t} : Claims(u) => call[u].req # r,
         NEW k, call' = [call EXCEPT ![t] = k], Grounded(k)',
         k.pc \in HoldSteps =>
           \A u \in Threads \ {t} : call[u].pc \in HoldSteps => call[u].req # k.req,
         k.pc \notin JudgeSteps,
         k.pc \in {"start", "dispatch"} =>
           \A u \in Threads \ {t} : call[u].pc \in JudgeSteps => call[u].req # k.req
  PROVE  SoundStep
<1>1. BookStep
  BY DEF BookStep
<1>2. LedgerGrows /\ OrdersGrow /\ \A q : NoNewOrder(q)
  BY WritesGrow DEF SoundState, TypeInv
<1>3. CyclesAreRecorded'
  <2> SUFFICES ASSUME NEW x \in Tickets, orders[x].req \in Requests
               PROVE  ledger'[orders[x].req].cycle = orders[x].cycle
    BY DEF TruthfulWrite, CyclesAreRecorded
  <2>1. orders[x].req \in Recorded(ledger)
    BY DEF SoundState, VerdictInv, BooksInv, OrdersAreOwned, DispatchedIsDurable
  <2>2. QED
    BY <1>2, <2>1 DEF LedgerGrows, SoundState, VerdictInv, CyclesAreRecorded
<1>4. \A u \in Threads \ {t} : Claims(u) => ledger'[call[u].req].status = "RESERVED"
  <2> SUFFICES ASSUME NEW u \in Threads \ {t}, Claims(u)
               PROVE  ledger'[call[u].req].status = "RESERVED"
    OBVIOUS
  <2>1. call[u].req \in Requests /\ ledger[call[u].req].status = "RESERVED"
    BY ServedRequest DEF SoundState, TypeInv, VerdictInv, CallsAreGrounded, Grounded, Claims
  <2>2. new[call[u].req].status = "RESERVED"
    BY <2>1
  <2>3. QED
    BY <2>1, <2>2 DEF TruthfulWrite, LedgerWritten, LedgerWriteFails
<1>5. QED
  BY <1>1, <1>2, <1>3, <1>4, ThreadStep

\* A quiet step of a call that holds nothing and judges nothing afterwards.
LEMMA QuietGoto ==
  ASSUME SoundState, NEW t \in Threads, UNCHANGED <<ledger, ledgerSaved, orders, dispatched>>,
         Finish(t) \/ \E s \in RestSteps : Goto(t, s)
  PROVE  SoundStep
<1>1. ASSUME NEW k, call' = [call EXCEPT ![t] = k], k.pc \in RestSteps
      PROVE  SoundStep
  <2>1. Grounded(k)
    BY <1>1, RestIsGrounded
  <2>2. k.pc \notin HoldSteps \cup JudgeSteps \cup {"start", "dispatch"}
    BY <1>1 DEF RestSteps, HoldSteps, JudgeSteps
  <2>3. QED
    BY <1>1, <2>1, <2>2, QuietStep
<1>2. CASE Finish(t)
  BY <1>1, <1>2, IdleIsACall DEF Finish, RestSteps
<1>3. ASSUME NEW s \in RestSteps, Goto(t, s)
      PROVE  SoundStep
  <2>1. PICK k : call' = [call EXCEPT ![t] = k] /\ k.pc = s
    BY <1>3, GotoIs
  <2>2. QED
    BY <1>1, <2>1
<1>4. QED
  BY <1>2, <1>3

\* A quiet step of a call that goes on holding its request.
LEMMA QuietHold ==
  ASSUME SoundState, NEW t \in Threads, UNCHANGED <<ledger, ledgerSaved, orders, dispatched>>,
         call[t].pc \in HoldSteps, NEW s \in HoldSteps, Goto(t, s),
         s = "dispatch" => call[t].pc = "start", s # "start",
         s = "markRejected" => OrdersOf(call[t].req) = {}
  PROVE  SoundStep
<1>1. PICK k : /\ call' = [call EXCEPT ![t] = k]
               /\ k.pc = s /\ k.req = call[t].req /\ k.cycle = call[t].cycle
  BY GotoIs
<1>2. Grounded(call[t])
  BY DEF SoundState, VerdictInv, CallsAreGrounded
<1>3. Grounded(k)
  BY <1>1, <1>2 DEF Grounded, HoldSteps, SeekSteps, OrderSteps, JudgeSteps
<1>4. QED
  BY <1>1, <1>3, QuietStep DEF HoldSteps, JudgeSteps, Claims

\* A truthful write at the request a call holds.
LEMMA HolderWrites ==
  ASSUME SoundState, NEW t \in Threads, call[t].pc \in HoldSteps, NEW new, TruthfulWrite(new),
         \A q \in Requests \ {call[t].req} : new[q] = ledger[q],
         NEW s \in {"accept", "confirm", "markUnknown", "putRejected", "putUnknown"}, Goto(t, s)
  PROVE  SoundStep
<1>1. PICK k : call' = [call EXCEPT ![t] = k] /\ k.pc = s /\ k.req = call[t].req
  BY GotoIs
<1>2. call[t].req \in Requests
  BY ServedRequest DEF SoundState, TypeInv, HoldSteps
<1>3. \A u \in Threads \ {t} : call[u].pc \in HoldSteps => call[u].req # k.req
  BY <1>1 DEF SoundState, VerdictInv, HoldsAreExclusive
<1>4. \A u \in Threads \ {t} : Claims(u) => call[u].req # call[t].req
  BY <1>1, <1>3 DEF Claims, HoldSteps
<1>5. LedgerGrows
  BY WritesGrow DEF SoundState, TypeInv
<1>6. k.pc \in HoldSteps => ledgerSaved' /\ k.req \in Recorded(ledger')
  BY <1>1, <1>5 DEF LedgerGrows, SoundState, VerdictInv, CallsAreGrounded, Grounded
<1>7. Grounded(k)'
  BY <1>1, <1>6 DEF Grounded, SeekSteps, OrderSteps, JudgeSteps
<1>8. QED
  BY <1>1, <1>2, <1>3, <1>4, <1>7, WriteStep DEF JudgeSteps

\* The steps of a cycle that write neither the ledger nor an order.
LEMMA QuietCycleSteps ==
  ASSUME SoundState, NEW t \in Threads,
         \/ Readiness(t) \/ Gate(t) \/ CheckDuplicate(t) \/ CheckPriorLifecycle(t)
         \/ RecordStart(t) \/ RecordAcceptance(t) \/ PutRejected(t) \/ PutUnknown(t)
         \/ SaveCheckpoint(t)
  PROVE  SoundStep
<1>1. CASE Readiness(t) \/ Gate(t) \/ CheckDuplicate(t) \/ CheckPriorLifecycle(t)
  <2>1. UNCHANGED <<ledger, ledgerSaved, orders, dispatched>>
    BY <1>1 DEF Readiness, Gate, CheckDuplicate, CheckPriorLifecycle, ReadOnly, stores
  <2>2. Finish(t) \/ \E s \in RestSteps : Goto(t, s)
    BY <1>1 DEF Readiness, Gate, CheckDuplicate, CheckPriorLifecycle, RestSteps
  <2>3. QED
    BY <2>1, <2>2, QuietGoto
<1>2. CASE RecordStart(t)
  <2>1. UNCHANGED <<ledger, ledgerSaved, orders, dispatched>>
    BY <1>2 DEF RecordStart, LifecycleStep, LifecycleWritten, LifecycleWriteFails, ReadOnly, stores
  <2>2. call[t].pc = "start" /\ (Goto(t, "dispatch") \/ Goto(t, "markRejected"))
    BY <1>2 DEF RecordStart, LifecycleStep, At
  <2>3. dispatched[call[t].req] = 0
    BY <2>2 DEF SoundState, DispatchInv, ClaimsAreDurable, Claims
  <2>4. OrdersOf(call[t].req) = {}
    <3>1. call[t].req \in Requests
      BY <2>2, ServedRequest DEF SoundState, TypeInv
    <3>2. QED
      BY <2>3, <3>1 DEF OrdersOf, SoundState, VerdictInv, BooksInv, OrdersAreOwned
  <2>5. QED
    BY <2>1, <2>2, <2>4, QuietHold DEF HoldSteps
<1>3. CASE RecordAcceptance(t)
  <2>1. UNCHANGED <<ledger, ledgerSaved, orders, dispatched>>
    BY <1>3 DEF RecordAcceptance, LifecycleStep, LifecycleWritten, LifecycleWriteFails, ReadOnly, stores
  <2>2. call[t].pc = "confirm" /\ (Goto(t, "checkpoint") \/ Goto(t, "markUnknown"))
    BY <1>3 DEF RecordAcceptance, LifecycleStep, At
  <2>3. CASE Goto(t, "markUnknown")
    BY <2>1, <2>2, <2>3, QuietHold DEF HoldSteps
  <2>4. QED
    BY <2>1, <2>2, <2>3, QuietGoto DEF RestSteps
<1>4. CASE PutRejected(t) \/ PutUnknown(t)
  <2>1. UNCHANGED <<ledger, ledgerSaved, orders, dispatched>>
    BY <1>4 DEF PutRejected, PutUnknown, LifecycleStep, LifecycleWritten, LifecycleWriteFails, ReadOnly, stores
  <2>2. Goto(t, "checkpoint")
    BY <1>4 DEF PutRejected, PutUnknown, LifecycleStep
  <2>3. QED
    BY <2>1, <2>2, QuietGoto DEF RestSteps
<1>5. CASE SaveCheckpoint(t)
  BY <1>5, QuietGoto DEF SaveCheckpoint
<1>6. QED
  BY <1>1, <1>2, <1>3, <1>4, <1>5

\* What the ledger's operations on the request a call serves are.
LEMMA ServedOperations ==
  ASSUME SoundState, NEW t \in Threads, call[t].req \in Requests
  PROVE  /\ CanReserve(ledger, call[t].req, call[t].cycle) =>
              Truthful(Reserved(ledger, call[t].req, call[t].cycle))
         /\ CanBind(ledger, call[t].req, call[t].ticket) =>
              Truthful(Bound(ledger, call[t].req, call[t].ticket))
         /\ CanMark(ledger, call[t].req) =>
              /\ Truthful(Marked(ledger, call[t].req, "ACCEPTED"))
              /\ Truthful(Marked(ledger, call[t].req, "UNKNOWN"))
              /\ OrdersOf(call[t].req) = {} => Truthful(Marked(ledger, call[t].req, "REJECTED"))
         /\ CanReconcile(ledger, call[t].req) /\ Known(call[t].req, call[t].executed) =>
              Truthful(Reconciled(ledger, call[t].req, call[t].executed))
<1>1. /\ call[t].cycle \in Cycles \cup {NoCycle} /\ call[t].ticket \in Tickets \cup {NoTicket}
      /\ call[t].executed \in BOOLEAN
  BY ServedRequest DEF SoundState, TypeInv, Call
<1>3. StoreTypes
  BY DEF SoundState, TypeInv
<1> DEFINE r == call[t].req
           c == call[t].cycle
           x == call[t].ticket
           b == call[t].executed
<1>4. r \in Requests /\ c \in Cycles \cup {NoCycle} /\ x \in Tickets \cup {NoTicket} /\ b \in BOOLEAN
  BY <1>1
<1> HIDE DEF r, c, x, b
<1>5. /\ CanReserve(ledger, r, c) => Truthful(Reserved(ledger, r, c))
      /\ CanBind(ledger, r, x) => Truthful(Bound(ledger, r, x))
      /\ CanMark(ledger, r) => /\ Truthful(Marked(ledger, r, "ACCEPTED"))
                               /\ Truthful(Marked(ledger, r, "UNKNOWN"))
                               /\ OrdersOf(r) = {} => Truthful(Marked(ledger, r, "REJECTED"))
      /\ CanReconcile(ledger, r) /\ VerdictIsTrue(r, ReconciledStatus(b)) =>
           Truthful(Reconciled(ledger, r, b))
  BY <1>3, <1>4, TruthfulOperations
<1>6. Known(r, b) => VerdictIsTrue(r, ReconciledStatus(b))
  BY <1>4, KnownIsTrue
<1>7. CanReconcile(ledger, r) /\ Known(r, b) => Truthful(Reconciled(ledger, r, b))
  BY <1>5, <1>6
<1>8. CanReserve(ledger, call[t].req, call[t].cycle) =>
        Truthful(Reserved(ledger, call[t].req, call[t].cycle))
  BY <1>5 DEF r, c
<1>9. CanBind(ledger, call[t].req, call[t].ticket) =>
        Truthful(Bound(ledger, call[t].req, call[t].ticket))
  BY <1>5 DEF r, x
<1>10. CanMark(ledger, call[t].req) =>
         /\ Truthful(Marked(ledger, call[t].req, "ACCEPTED"))
         /\ Truthful(Marked(ledger, call[t].req, "UNKNOWN"))
         /\ OrdersOf(call[t].req) = {} => Truthful(Marked(ledger, call[t].req, "REJECTED"))
  BY <1>5 DEF r
<1>11. CanReconcile(ledger, call[t].req) /\ Known(call[t].req, call[t].executed) =>
         Truthful(Reconciled(ledger, call[t].req, call[t].executed))
  BY <1>7 DEF r, b
<1>12. QED
  BY <1>8, <1>9, <1>10, <1>11

LEMMA OthersAreLeftAlone ==
  ASSUME SoundState, NEW t \in Threads, call[t].req \in Requests,
         NEW q \in Requests \ {call[t].req}
  PROVE  /\ Reserved(ledger, call[t].req, call[t].cycle)[q] = ledger[q]
         /\ Bound(ledger, call[t].req, call[t].ticket)[q] = ledger[q]
         /\ \A s : Marked(ledger, call[t].req, s)[q] = ledger[q]
         /\ Reconciled(ledger, call[t].req, call[t].executed)[q] = ledger[q]
BY SMTT(30), OperationsStayAtTheirRequest DEF SoundState, TypeInv, StoreTypes

\* A reservation takes hold of a request that nobody holds or judges.
LEMMA ReserveKeepsVerdicts ==
  ASSUME SoundState, NEW t \in Threads, Reserve(t)
  PROVE  SoundStep
<1> DEFINE new == Reserved(ledger, call[t].req, call[t].cycle)
<1>1. call[t].req \in Requests
  BY ServedRequest DEF Reserve, At, SoundState, TypeInv
<1>2. CASE ReadOnly /\ Goto(t, "checkpoint")
  <2>1. UNCHANGED <<ledger, ledgerSaved, orders, dispatched>>
    BY <1>2 DEF Reserve, ReadOnly, stores
  <2>2. QED
    BY <1>2, <2>1, QuietGoto DEF RestSteps
<1>3. ASSUME CanReserve(ledger, call[t].req, call[t].cycle),
             LedgerWritten(new) \/ LedgerWriteFails(new)
      PROVE  /\ TruthfulWrite(new)
             /\ \A q \in Requests \ {call[t].req} : new[q] = ledger[q]
             /\ \A u \in Threads : call[u].pc \in HoldSteps \cup JudgeSteps => call[u].req # call[t].req
  <2>1. Truthful(new)
    BY <1>1, <1>3, ServedOperations
  <2>2. UNCHANGED <<orders, dispatched>>
    BY DEF Reserve
  <2>3. call[t].req \notin Recorded(ledger)
    BY <1>3 DEF CanReserve
  <2>4. \A u \in Threads : call[u].pc \in HoldSteps \cup JudgeSteps => call[u].req # call[t].req
    BY <2>3 DEF SoundState, VerdictInv, CallsAreGrounded, Grounded
  <2>5. QED
    BY <1>1, <1>3, <2>1, <2>2, <2>4, OthersAreLeftAlone DEF TruthfulWrite
<1>4. CASE CanReserve(ledger, call[t].req, call[t].cycle) /\ LedgerWritten(new) /\ Goto(t, "start")
  <2>1. PICK k : /\ call' = [call EXCEPT ![t] = k]
                 /\ k.pc = "start" /\ k.req = call[t].req /\ k.cycle = call[t].cycle
    BY <1>4, GotoIs
  <2>2. /\ ledgerSaved' /\ ledger' = new
        /\ new[call[t].req].status = "RESERVED" /\ new[call[t].req].cycle = call[t].cycle
    BY <1>1, <1>4 DEF LedgerWritten, Reserved, SoundState, TypeInv, StoreTypes
  <2> HIDE DEF new
  <2>3. Grounded(k)'
    BY <1>1, <2>1, <2>2 DEF Grounded, SeekSteps, OrderSteps, JudgeSteps, Recorded
  <2>4. QED
    BY <1>1, <1>3, <1>4, <2>1, <2>3, WriteStep DEF HoldSteps, JudgeSteps, Claims
<1>5. CASE CanReserve(ledger, call[t].req, call[t].cycle) /\ LedgerWriteFails(new) /\ Goto(t, "checkpoint")
  <2>1. PICK k : call' = [call EXCEPT ![t] = k] /\ k.pc = "checkpoint"
    BY <1>5, GotoIs
  <2> HIDE DEF new
  <2>2. Grounded(k)'
    BY <2>1 DEF Grounded, HoldSteps, SeekSteps, OrderSteps, JudgeSteps
  <2>3. /\ TruthfulWrite(new)
        /\ \A q \in Requests \ {call[t].req} : new[q] = ledger[q]
        /\ \A u \in Threads : Claims(u) => call[u].req # call[t].req
    BY <1>3, <1>5 DEF HoldSteps, Claims
  <2>4. k.pc \notin HoldSteps \cup JudgeSteps \cup {"start", "dispatch"}
    BY <2>1 DEF HoldSteps, JudgeSteps
  <2>5. QED
    BY <1>1, <2>1, <2>2, <2>3, <2>4, WriteStep
<1>6. QED
  BY <1>2, <1>4, <1>5 DEF Reserve, LedgerStep

\* Binding the ticket and marking the request are writes of its holder, and a
\* refusal is only marked when no order was placed.
LEMMA MarksKeepVerdicts ==
  ASSUME SoundState, NEW t \in Threads,
         BindExternalId(t) \/ MarkAccepted(t) \/ MarkRejected(t) \/ MarkUnknown(t)
  PROVE  SoundStep
<1>1. call[t].req \in Requests /\ call[t].pc \in HoldSteps
  BY ServedRequest
     DEF BindExternalId, MarkAccepted, MarkRejected, MarkUnknown, At, SoundState, TypeInv, HoldSteps
<1>2. UNCHANGED <<orders, dispatched>>
  BY DEF BindExternalId, MarkAccepted, MarkRejected, MarkUnknown
<1>3. ASSUME NEW new, Truthful(new), LedgerWritten(new) \/ LedgerWriteFails(new),
             \A q \in Requests \ {call[t].req} : new[q] = ledger[q],
             NEW s \in {"accept", "confirm", "markUnknown", "putRejected", "putUnknown"}, Goto(t, s)
      PROVE  SoundStep
  <2>1. TruthfulWrite(new)
    BY <1>2, <1>3 DEF TruthfulWrite
  <2>2. QED
    BY <1>1, <1>3, <2>1, HolderWrites
<1>4. ASSUME ReadOnly, Goto(t, "markUnknown") \/ Goto(t, "putRejected") \/ Goto(t, "putUnknown")
      PROVE  SoundStep
  <2>1. UNCHANGED <<ledger, ledgerSaved, orders, dispatched>>
    BY <1>2, <1>4 DEF ReadOnly, stores
  <2>2. CASE Goto(t, "markUnknown")
    BY <1>1, <2>1, <2>2, QuietHold DEF HoldSteps
  <2>3. QED
    BY <1>4, <2>1, <2>2, QuietGoto DEF RestSteps
<1>5. CASE BindExternalId(t)
  BY <1>1, <1>3, <1>4, <1>5, ServedOperations, OthersAreLeftAlone DEF BindExternalId, LedgerStep
<1>6. CASE MarkAccepted(t)
  BY <1>1, <1>3, <1>4, <1>6, ServedOperations, OthersAreLeftAlone DEF MarkAccepted, LedgerStep
<1>7. CASE MarkUnknown(t)
  BY <1>1, <1>3, <1>4, <1>7, ServedOperations, OthersAreLeftAlone DEF MarkUnknown, LedgerStep
<1>8. CASE MarkRejected(t)
  <2>1. OrdersOf(call[t].req) = {}
    BY <1>8 DEF MarkRejected, At, SoundState, VerdictInv, CallsAreGrounded, Grounded
  <2>2. QED
    BY <1>1, <1>3, <1>4, <1>8, <2>1, ServedOperations, OthersAreLeftAlone DEF MarkRejected, LedgerStep
<1>9. QED
  BY <1>5, <1>6, <1>7, <1>8

\* The executor is called by a holder, for a request that has no order yet; what
\* it reports as refused placed none.
LEMMA DispatchKeepsVerdicts ==
  ASSUME SoundState, Honest, NEW t \in Threads, Dispatch(t)
  PROVE  SoundStep
<1> DEFINE r == call[t].req
           c == call[t].cycle
<1>1. r \in Requests /\ c \in Cycles \cup {NoCycle} /\ call[t].pc = "dispatch"
  BY ServedRequest DEF Dispatch, At, SoundState, TypeInv, Call
<1>2. dispatched[r] = 0
  BY <1>1 DEF SoundState, DispatchInv, ClaimsAreDurable, Claims
<1>3. ledgerSaved /\ ledger[r].status = "RESERVED" /\ ledger[r].cycle = c
  BY <1>1 DEF SoundState, VerdictInv, CallsAreGrounded, Grounded, HoldSteps
<1>4. UNCHANGED <<ledger, ledgerSaved>>
  BY DEF Dispatch, ReadOnly, stores
<1>5. \/ NoOrder
      \/ \E x \in Tickets, s \in {"working", "open"} : NewOrder(x, r, c, s)
  BY DEF Dispatch
<1>6. ExecutorCall(r)
  BY <1>1, <1>2, <1>3, <1>4, <1>5 DEF ExecutorCall, Dispatch
<1>7. LedgerGrows /\ OrdersGrow /\ \A q \in Requests \ {r} : NoNewOrder(q)
  BY <1>1, <1>6, CallsGrow DEF SoundState, TypeInv, WorldTypes, VerdictInv
<1>8. \E k : /\ call' = [call EXCEPT ![t] = k] /\ k.req = r
             /\ k.pc \in {"bind", "markUnknown"} \/ (k.pc = "markRejected" /\ NoOrder)
  <2>1. ASSUME NEW s \in {"markUnknown", "markRejected"}, Goto(t, s)
        PROVE  \E k : call' = [call EXCEPT ![t] = k] /\ k.req = r /\ k.pc = s
    BY <2>1, GotoIs
  <2>2. ASSUME NEW x \in Tickets, call' = [call EXCEPT ![t].pc = "bind", ![t].ticket = x]
        PROVE  \E k : call' = [call EXCEPT ![t] = k] /\ k.req = r /\ k.pc = "bind"
    <3> DEFINE k == [call[t] EXCEPT !.pc = "bind", !.ticket = x]
    <3>1. call[t] \in Call /\ call \in [Threads -> Call]
      BY DEF SoundState, TypeInv, CallsOK, CallTypes
    <3>2. call' = [call EXCEPT ![t] = k] /\ k.req = r /\ k.pc = "bind"
      BY <2>2, <3>1 DEF Call
    <3>3. QED
      BY <3>2
  <2>3. CASE NoOrder /\ (Goto(t, "markRejected") \/ Goto(t, "markUnknown"))
    BY <2>1, <2>3
  <2>4. CASE \E x \in Tickets : \/ call' = [call EXCEPT ![t].pc = "bind", ![t].ticket = x]
                                \/ Goto(t, "markUnknown")
    BY <2>1, <2>2, <2>4
  <2>5. QED
    BY <2>3, <2>4 DEF Dispatch, Honest
<1>9. PICK k : /\ call' = [call EXCEPT ![t] = k] /\ k.req = r
               /\ k.pc \in {"bind", "markUnknown"} \/ (k.pc = "markRejected" /\ NoOrder)
  BY <1>8
<1> HIDE DEF r, c
<1>10. CyclesAreRecorded'
  <2>1. CASE NoOrder
    BY <1>4, <2>1 DEF NoOrder, SoundState, VerdictInv, CyclesAreRecorded
  <2>2. ASSUME NEW x \in Tickets, NEW s \in {"working", "open"}, NewOrder(x, r, c, s)
        PROVE  CyclesAreRecorded'
    <3>1. /\ orders'[x].req = r /\ orders'[x].cycle = c
          /\ \A y \in Tickets \ {x} : orders'[y] = orders[y]
      BY <2>2 DEF NewOrder, SoundState, TypeInv, WorldTypes, OrderTypes
    <3>2. QED
      BY <1>3, <1>4, <3>1 DEF SoundState, VerdictInv, CyclesAreRecorded
  <2>3. QED
    BY <1>5, <2>1, <2>2
<1>11. Grounded(k)'
  <2>1. ledgerSaved' /\ r \in Recorded(ledger')
    BY <1>1, <1>3, <1>4 DEF Recorded
  <2>2. NoOrder => (OrdersOf(k.req) = {})'
    BY <1>1, <1>2, <1>9 DEF NoOrder, OrdersOf, SoundState, VerdictInv, BooksInv, OrdersAreOwned
  <2>3. QED
    BY <1>9, <2>1, <2>2 DEF Grounded, HoldSteps, SeekSteps, OrderSteps, JudgeSteps
<1>12. \A u \in Threads \ {t} : call[u].pc \in HoldSteps \cup JudgeSteps =>
         call[u].req \in Requests \ {r}
  <2>1. \A u \in Threads : call[u].pc \in HoldSteps \cup JudgeSteps => call[u].req \in Requests
    BY ServedRequest DEF SoundState, TypeInv, HoldSteps, JudgeSteps
  <2>2. \A u \in Threads \ {t} : call[u].pc \in HoldSteps \cup JudgeSteps => call[u].req # r
    BY <1>1 DEF SoundState, VerdictInv, HoldsAreExclusive, JudgedIsUnclaimed, Claims, HoldSteps, r
  <2>3. QED
    BY <2>1, <2>2
<1>13. \A u \in Threads \ {t} : Claims(u) => ledger'[call[u].req].status = "RESERVED"
  BY <1>4 DEF SoundState, VerdictInv, CallsAreGrounded, Grounded, Claims
<1>14. \A u \in Threads \ {t} :
         call[u].pc \in {"markRejected"} \cup JudgeSteps => NoNewOrder(call[u].req)
  BY <1>7, <1>12 DEF HoldSteps
<1>15. BookStep
  BY <1>1, <1>6 DEF BookStep
<1>16. QED
  BY <1>7, <1>9, <1>10, <1>11, <1>12, <1>13, <1>14, <1>15, ThreadStep DEF JudgeSteps

\* Binding the operator's ticket changes no status.
LEMMA AttachKeepsVerdicts ==
  ASSUME SoundState, NEW t \in Threads, AttachTicket(t)
  PROVE  SoundStep
<1> DEFINE new == Bound(ledger, call[t].req, call[t].ticket)
<1>1. call[t].req \in Requests
  BY ServedRequest DEF AttachTicket, At, SoundState, TypeInv
<1>2. CASE ReadOnly /\ Finish(t)
  <2>1. UNCHANGED <<ledger, ledgerSaved, orders, dispatched>>
    BY <1>2 DEF AttachTicket, ReadOnly, stores
  <2>2. QED
    BY <1>2, <2>1, QuietGoto
<1>3. CASE /\ CanBind(ledger, call[t].req, call[t].ticket)
           /\ \/ LedgerWritten(new) /\ Goto(t, "reread")
              \/ LedgerWriteFails(new) /\ Finish(t)
  <2>1. /\ (Truthful(new) /\ LedgerWritten(new)) \/ LedgerWriteFails(new)
        /\ UNCHANGED <<orders, dispatched>>
    BY <1>1, <1>3, ServedOperations DEF AttachTicket
  <2>2. TruthfulWrite(new)
    BY <1>1, <1>3, ServedOperations DEF AttachTicket, TruthfulWrite
  <2>3. /\ \A q \in Requests \ {call[t].req} : new[q] = ledger[q]
        /\ new[call[t].req].status = ledger[call[t].req].status
    BY <1>1, OthersAreLeftAlone DEF Bound, SoundState, TypeInv, StoreTypes, ExecutionLedgerRecord
  <2> HIDE DEF new
  <2>4. ASSUME NEW k, call' = [call EXCEPT ![t] = k], Grounded(k)', k.pc \in {"reread", "idle"}
        PROVE  SoundStep
    <3>1. k.pc \notin HoldSteps \cup JudgeSteps \cup {"start", "dispatch"}
      BY <2>4 DEF HoldSteps, JudgeSteps
    <3>2. QED
      BY <1>1, <2>2, <2>3, <2>4, <3>1, WriteStep
  <2>5. CASE Goto(t, "reread")
    <3>1. PICK k : /\ call' = [call EXCEPT ![t] = k] /\ k.pc = "reread"
                   /\ k.req = call[t].req /\ k.ticket = call[t].ticket
      BY <2>5, GotoIs
    <3>2. call[t].ticket \in Tickets /\ orders'[call[t].ticket].req = call[t].req
      BY <2>1 DEF AttachTicket, At, SoundState, VerdictInv, CallsAreGrounded, Grounded, OrderSteps
    <3>3. Grounded(k)'
      BY <3>1, <3>2 DEF Grounded, HoldSteps, SeekSteps, OrderSteps, JudgeSteps
    <3>4. QED
      BY <2>4, <3>1, <3>3
  <2>6. CASE Finish(t)
    <3>1. Grounded(Idle)'
      BY IdleIsACall DEF Grounded, HoldSteps, SeekSteps, OrderSteps, JudgeSteps
    <3>2. QED
      BY <2>4, <2>6, <3>1, IdleIsACall DEF Finish
  <2>7. QED
    BY <1>3, <2>5, <2>6
<1>4. QED
  BY <1>2, <1>3 DEF AttachTicket

\* A verdict is settled for a request that nobody claims, and it is known.
LEMMA SettleKeepsVerdicts ==
  ASSUME SoundState, NEW t \in Threads, SettleLedger(t)
  PROVE  SoundStep
<1> DEFINE new == Reconciled(ledger, call[t].req, call[t].executed)
<1>1. call[t].req \in Requests /\ call[t].pc = "settle"
  BY ServedRequest DEF SettleLedger, At, SoundState, TypeInv
<1>2. CASE ReadOnly /\ Finish(t)
  <2>1. UNCHANGED <<ledger, ledgerSaved, orders, dispatched>>
    BY <1>2 DEF SettleLedger, ReadOnly, stores
  <2>2. QED
    BY <1>2, <2>1, QuietGoto
<1>3. CASE /\ CanReconcile(ledger, call[t].req)
           /\ LedgerWritten(new) \/ LedgerWriteFails(new)
           /\ Goto(t, "conclude") \/ Finish(t)
  <2>1. Known(call[t].req, call[t].executed)
    BY <1>1 DEF SoundState, VerdictInv, CallsAreGrounded, Grounded, JudgeSteps
  <2>2. TruthfulWrite(new)
    BY <1>1, <1>3, <2>1, ServedOperations DEF SettleLedger, TruthfulWrite
  <2>3. \A q \in Requests \ {call[t].req} : new[q] = ledger[q]
    BY <1>1, OthersAreLeftAlone
  <2>4. \A u \in Threads : Claims(u) => call[u].req # call[t].req
    BY <1>1 DEF SoundState, VerdictInv, JudgedIsUnclaimed, JudgeSteps
  <2> HIDE DEF new
  <2>5. ASSUME NEW k, call' = [call EXCEPT ![t] = k], k.pc \in {"conclude", "idle"}
        PROVE  SoundStep
    <3>1. k.pc \notin HoldSteps \cup JudgeSteps \cup {"start", "dispatch"}
      BY <2>5 DEF HoldSteps, JudgeSteps
    <3>2. Grounded(k)'
      BY <2>5 DEF Grounded, HoldSteps, SeekSteps, OrderSteps, JudgeSteps
    <3>3. QED
      BY <1>1, <2>2, <2>3, <2>4, <2>5, <3>1, <3>2, WriteStep
  <2>6. CASE Finish(t)
    BY <2>5, <2>6, IdleIsACall DEF Finish
  <2>7. CASE Goto(t, "conclude")
    BY <2>5, <2>7, GotoIs
  <2>8. QED
    BY <1>3, <2>6, <2>7
<1>4. QED
  BY <1>2, <1>3 DEF SettleLedger

\* A step that reads: the call goes on with what it read.  Which of its fields
\* it changes does not matter to the others.
LEMMA ReadStep ==
  ASSUME SoundState, NEW t \in Threads, UNCHANGED <<ledger, ledgerSaved, orders, dispatched>>,
         NEW k, call' = [call EXCEPT ![t] = k], k.pc \in {"inspect", "close", "attach", "reread", "query"},
         k.ticket \in Tickets, orders[k.ticket].req = k.req,
         k.pc \in SeekSteps => orders[k.ticket].req \in Requests /\ orders[k.ticket].cycle = k.cycle
  PROVE  SoundStep
<1>1. Grounded(k)
  BY DEF Grounded, HoldSteps, JudgeSteps
<1>2. k.pc \notin HoldSteps \cup JudgeSteps \cup {"start", "dispatch"}
  BY DEF HoldSteps, JudgeSteps
<1>3. QED
  BY <1>1, <1>2, QuietStep

\* The one request with the cycle of the order is the order's.
LEMMA FindKeepsVerdicts ==
  ASSUME SoundState, NEW t \in Threads, FindIdentity(t)
  PROVE  SoundStep
<1> DEFINE x == call[t].ticket
<1>1. UNCHANGED <<ledger, ledgerSaved, orders, dispatched>>
  BY DEF FindIdentity, ReadOnly, stores
<1>2. /\ x \in Tickets /\ orders[x].req \in Requests
      /\ orders[x].cycle = call[t].cycle
  BY DEF FindIdentity, At, SoundState, VerdictInv, CallsAreGrounded, Grounded, SeekSteps
<1>3. orders[x].req \in FindByCycleId(ledger, call[t].cycle)
  <2>1. orders[x].req \in Recorded(ledger)
    BY <1>2 DEF SoundState, VerdictInv, BooksInv, OrdersAreOwned, DispatchedIsDurable
  <2>2. QED
    BY <1>2, <2>1 DEF FindByCycleId, SoundState, VerdictInv, CyclesAreRecorded
<1>4. ASSUME NEW r \in Requests, FindByCycleId(ledger, call[t].cycle) = {r},
             call' = [call EXCEPT ![t].pc = "inspect", ![t].req = r,
                                  ![t].status = ledger[r].status,
                                  ![t].bound = ledger[r].ticket # NoTicket]
      PROVE  SoundStep
  <2> DEFINE s == ledger[r].status
             b == ledger[r].ticket # NoTicket
             k == [call[t] EXCEPT !.pc = "inspect", !.req = r, !.status = s, !.bound = b]
  <2>1. call' = [call EXCEPT ![t].pc = "inspect", ![t].req = r, ![t].status = s, ![t].bound = b]
    BY <1>4
  <2>2. orders[x].req = r
    BY <1>3, <1>4
  <2> HIDE DEF s, b
  <2>3. call[t] \in Call /\ call \in [Threads -> Call]
    BY DEF SoundState, TypeInv, CallsOK, CallTypes
  <2>4. /\ call' = [call EXCEPT ![t] = k]
        /\ k.pc = "inspect" /\ k.req = r /\ k.ticket = x /\ k.cycle = call[t].cycle
    BY <2>1, <2>3 DEF Call
  <2> HIDE DEF k, x
  <2>5. QED
    BY <1>1, <1>2, <2>2, <2>4, ReadStep
<1>5. QED
  BY <1>1, <1>4, QuietGoto DEF FindIdentity

\* The lifecycle half of the validation keeps hold of the order's request.
LEMMA InspectKeepsVerdicts ==
  ASSUME SoundState, NEW t \in Threads, InspectLifecycle(t)
  PROVE  SoundStep
<1> DEFINE x == call[t].ticket
           s == lifecycle[call[t].req]
           p == IF call[t].closing THEN "close" ELSE IF call[t].bound THEN "query" ELSE "attach"
           k == [call[t] EXCEPT !.state = s, !.pc = p]
<1>1. UNCHANGED <<ledger, ledgerSaved, orders, dispatched>>
  BY DEF InspectLifecycle, ReadOnly, stores
<1>2. /\ x \in Tickets /\ orders[x].req \in Requests
      /\ orders[x].cycle = call[t].cycle /\ orders[x].req = call[t].req
  BY DEF InspectLifecycle, At, SoundState, VerdictInv, CallsAreGrounded, Grounded, SeekSteps, OrderSteps
<1>3. Finish(t) \/ call' = [call EXCEPT ![t].state = s, ![t].pc = p]
  BY DEF InspectLifecycle
<1>4. p \in {"close", "query", "attach"}
  OBVIOUS
<1> HIDE DEF s, p
<1>5. call[t] \in Call /\ call \in [Threads -> Call]
  BY DEF SoundState, TypeInv, CallsOK, CallTypes
<1>6. /\ call' = [call EXCEPT ![t].state = s, ![t].pc = p] => call' = [call EXCEPT ![t] = k]
      /\ k.pc = p /\ k.req = call[t].req /\ k.ticket = x /\ k.cycle = call[t].cycle
  BY <1>5 DEF Call
<1> HIDE DEF k, x
<1>7. CASE call' = [call EXCEPT ![t] = k]
  BY <1>1, <1>2, <1>4, <1>6, <1>7, ReadStep
<1>8. QED
  BY <1>1, <1>3, <1>6, <1>7, QuietGoto

\* Reading the status again keeps hold of it, too.
LEMMA RereadKeepsVerdicts ==
  ASSUME SoundState, NEW t \in Threads, ReadStatusAgain(t)
  PROVE  SoundStep
<1> DEFINE x == call[t].ticket
           s == ledger[call[t].req].status
           k == [call[t] EXCEPT !.pc = "query", !.status = s]
<1>1. UNCHANGED <<ledger, ledgerSaved, orders, dispatched>>
  BY DEF ReadStatusAgain, ReadOnly, stores
<1>2. x \in Tickets /\ orders[x].req = call[t].req
  BY DEF ReadStatusAgain, At, SoundState, VerdictInv, CallsAreGrounded, Grounded, OrderSteps
<1>3. call' = [call EXCEPT ![t].pc = "query", ![t].status = s]
  BY DEF ReadStatusAgain
<1> HIDE DEF s
<1>4. call[t] \in Call /\ call \in [Threads -> Call]
  BY DEF SoundState, TypeInv, CallsOK, CallTypes
<1>5. call' = [call EXCEPT ![t] = k] /\ k.pc = "query" /\ k.req = call[t].req /\ k.ticket = x
  BY <1>3, <1>4 DEF Call
<1> HIDE DEF k, x
<1>6. QED
  BY <1>1, <1>2, <1>5, ReadStep DEF SeekSteps

\* A call that starts or goes back to look for the request of an order.
LEMMA SeekStep ==
  ASSUME SoundState, NEW t \in Threads, UNCHANGED <<ledger, ledgerSaved, orders, dispatched>>,
         NEW k, call' = [call EXCEPT ![t] = k], k.pc = "find",
         k.ticket \in Tickets, orders[k.ticket].req \in Requests, orders[k.ticket].cycle = k.cycle
  PROVE  SoundStep
<1>1. Grounded(k)
  BY DEF Grounded, HoldSteps, JudgeSteps, OrderSteps
<1>2. k.pc \notin HoldSteps \cup JudgeSteps \cup {"start", "dispatch"}
  BY DEF HoldSteps, JudgeSteps
<1>3. QED
  BY <1>1, <1>2, QuietStep

\* A step that moves an order, by a call or by the broker.
LEMMA MoveStep ==
  ASSUME SoundState, NEW x \in Tickets, OrderMoves(x)
  PROVE  /\ BookStep /\ LedgerGrows /\ OrdersGrow /\ CyclesAreRecorded'
         /\ \A r : NoNewOrder(r)
         /\ \A u \in Threads : Claims(u) => ledger'[call[u].req].status = "RESERVED"
<1>1. LedgerGrows /\ OrdersGrow /\ \A r : NoNewOrder(r)
  BY MovesGrow DEF SoundState, TypeInv, WorldTypes
<1>2. UNCHANGED ledger /\ BookStep
  BY DEF OrderMoves, BookStep
<1>3. CyclesAreRecorded'
  <2> SUFFICES ASSUME NEW y \in Tickets, orders'[y].req \in Requests
               PROVE  ledger'[orders'[y].req].cycle = orders'[y].cycle
    BY DEF CyclesAreRecorded
  <2>1. orders[y].req = orders'[y].req
    BY <1>1 DEF NoNewOrder
  <2>2. orders'[y].cycle = orders[y].cycle
    BY <1>1, <2>1 DEF OrdersGrow
  <2>3. QED
    BY <1>2, <2>1, <2>2 DEF SoundState, VerdictInv, CyclesAreRecorded
<1>4. QED
  BY <1>1, <1>2, <1>3 DEF SoundState, VerdictInv, CallsAreGrounded, Grounded, Claims

\* Closing a position changes no outcome, and the call goes back to find the
\* request of the same order.
LEMMA CloseKeepsVerdicts ==
  ASSUME SoundState, NEW t \in Threads, ClosePosition(t)
  PROVE  SoundStep
<1> DEFINE x == call[t].ticket
           k == [Idle EXCEPT !.pc = "find", !.cycle = call[t].cycle, !.ticket = call[t].ticket]
<1>1. UNCHANGED <<ledger, ledgerSaved, dispatched>>
  BY DEF ClosePosition, ReadOnly, stores
<1>2. /\ x \in Tickets /\ orders[x].req \in Requests /\ orders[x].cycle = call[t].cycle
  BY DEF ClosePosition, At, SoundState, VerdictInv, CallsAreGrounded, Grounded, SeekSteps
<1>3. \/ UNCHANGED orders /\ Finish(t)
      \/ ClosedNow(x) /\ (Finish(t) \/ call' = [call EXCEPT ![t] = k])
  BY DEF ClosePosition
<1>4. k.pc = "find" /\ k.ticket = x /\ k.cycle = call[t].cycle
  BY DEF Idle
<1> HIDE DEF k, x
<1>5. CASE UNCHANGED orders /\ Finish(t)
  BY <1>1, <1>5, QuietGoto
<1>6. ASSUME ClosedNow(x), NEW m, call' = [call EXCEPT ![t] = m], m = k \/ m = Idle
      PROVE  SoundStep
  <2>1. OrderMoves(x)
    BY <1>1, <1>6 DEF OrderMoves
  <2>2. /\ BookStep /\ LedgerGrows /\ OrdersGrow /\ CyclesAreRecorded'
        /\ \A r : NoNewOrder(r)
        /\ \A u \in Threads : Claims(u) => ledger'[call[u].req].status = "RESERVED"
    BY <1>2, <2>1, MoveStep
  <2>3. m.pc \in {"find", "idle"}
    BY <1>4, <1>6, IdleIsACall
  <2>4. m.pc \notin HoldSteps \cup JudgeSteps \cup {"start", "dispatch"}
    BY <2>3 DEF HoldSteps, JudgeSteps
  <2>5. m.pc = "find" => /\ m.ticket \in Tickets
                         /\ orders[m.ticket].req \in Requests /\ orders[m.ticket].cycle = m.cycle
    BY <1>2, <1>4, <1>6, IdleIsACall
  <2>6. m.pc = "find" => /\ m.ticket \in Tickets
                         /\ orders'[m.ticket].req \in Requests /\ orders'[m.ticket].cycle = m.cycle
    BY <2>2, <2>5 DEF OrdersGrow
  <2>7. Grounded(m)'
    BY <2>3, <2>6 DEF Grounded, HoldSteps, SeekSteps, OrderSteps, JudgeSteps
  <2>8. QED
    BY <1>6, <2>2, <2>4, <2>7, ThreadStep
<1>7. QED
  BY <1>3, <1>5, <1>6 DEF Finish

\* A call that has a verdict for a request that was sent, or that nobody serves.
LEMMA JudgeStep ==
  ASSUME SoundState, NEW t \in Threads, UNCHANGED <<ledger, ledgerSaved, orders, dispatched>>,
         NEW k, call' = [call EXCEPT ![t] = k], k.pc \in JudgeSteps,
         k.req \in Recorded(ledger), Known(k.req, k.executed),
         \A u \in Threads \ {t} : Claims(u) => call[u].req # k.req
  PROVE  SoundStep
<1>1. Grounded(k)
  BY DEF Grounded, HoldSteps, JudgeSteps, OrderSteps, SeekSteps
<1>2. k.pc \notin HoldSteps \cup {"start", "dispatch"}
  BY DEF HoldSteps, JudgeSteps
<1>3. QED
  BY <1>1, <1>2, QuietStep

\* A settled order makes its request's outcome known, and a request whose order
\* was sent is claimed by nobody.
LEMMA OrderSettlesKeepsVerdicts ==
  ASSUME SoundState, NEW t \in Threads, OrderSettles(t)
  PROVE  SoundStep
<1> DEFINE x == call[t].ticket
           r == call[t].req
           e == orders[x].state \in Filled
           p == IF call[t].status = ReconciledStatus(e) THEN "conclude" ELSE "settle"
           k == [call[t] EXCEPT !.executed = e, !.pc = p]
<1>1. UNCHANGED <<ledger, ledgerSaved, orders, dispatched>>
  BY DEF OrderSettles, ReadOnly, stores
<1>2. x \in Tickets /\ orders[x].req = r /\ r \in Requests
  BY ServedRequest
     DEF OrderSettles, At, SoundState, TypeInv, VerdictInv, CallsAreGrounded, Grounded, OrderSteps
<1>3. Known(r, e)
  <2>1. orders[x].state # "working" /\ e \in BOOLEAN
    BY DEF OrderSettles, Filled
  <2>2. QED
    BY <1>2, <2>1, OrderIsKnown DEF SoundState, VerdictInv
<1>4. r \in Recorded(ledger) /\ dispatched[r] > 0
  BY <1>2 DEF SoundState, VerdictInv, BooksInv, OrdersAreOwned, DispatchedIsDurable
<1>5. \A u \in Threads : Claims(u) => call[u].req # r
  BY <1>4 DEF SoundState, DispatchInv, ClaimsAreDurable
<1>6. call' = [call EXCEPT ![t].executed = e, ![t].pc = p] /\ p \in {"conclude", "settle"}
  BY DEF OrderSettles
<1> HIDE DEF e, p
<1>7. call[t] \in Call /\ call \in [Threads -> Call]
  BY DEF SoundState, TypeInv, CallsOK, CallTypes
<1>8. call' = [call EXCEPT ![t] = k] /\ k.pc = p /\ k.req = r /\ k.executed = e
  BY <1>6, <1>7 DEF Call
<1> HIDE DEF k, r, x
<1>9. CASE p = "settle"
  BY <1>1, <1>3, <1>4, <1>5, <1>8, <1>9, JudgeStep DEF JudgeSteps
<1>10. CASE p = "conclude"
  <2>1. Grounded(k) /\ k.pc \notin HoldSteps \cup JudgeSteps \cup {"start", "dispatch"}
    BY <1>8, <1>10 DEF Grounded, HoldSteps, JudgeSteps, OrderSteps, SeekSteps
  <2>2. QED
    BY <1>1, <1>8, <2>1, QuietStep
<1>11. QED
  BY <1>6, <1>9, <1>10

\* The operator's declaration is judged against the ledger.
LEMMA JudgeKeepsVerdicts ==
  ASSUME SoundState, NEW t \in Threads, JudgeStatus(t)
  PROVE  SoundStep
<1>1. UNCHANGED <<ledger, ledgerSaved, orders, dispatched>>
  BY DEF JudgeStatus, ReadOnly, stores
<1>2. call[t].req \in Recorded(ledger) /\ Known(call[t].req, call[t].executed)
  BY DEF JudgeStatus, At, SoundState, VerdictInv, CallsAreGrounded, Grounded, JudgeSteps
<1>3. \A u \in Threads : Claims(u) => call[u].req # call[t].req
  BY DEF JudgeStatus, At, SoundState, VerdictInv, JudgedIsUnclaimed, JudgeSteps
<1>4. CASE Goto(t, "settle")
  <2>1. PICK k : /\ call' = [call EXCEPT ![t] = k] /\ k.pc = "settle"
                 /\ k.req = call[t].req /\ k.executed = call[t].executed
    BY <1>4, GotoIs
  <2>2. k.pc \in JudgeSteps /\ k.req \in Recorded(ledger) /\ Known(k.req, k.executed)
    BY <1>2, <2>1 DEF JudgeSteps
  <2>3. \A u \in Threads \ {t} : Claims(u) => call[u].req # k.req
    BY <1>3, <2>1
  <2>4. QED
    BY <1>1, <2>1, <2>2, <2>3, JudgeStep
<1>5. QED
  BY <1>1, <1>4, QuietGoto DEF JudgeStatus

\* So every step of a call keeps the verdicts true.
LEMMA CallsKeepVerdicts ==
  ASSUME SoundState, Honest, NEW t \in Threads, CycleStep(t) \/ ReconcileStep(t)
  PROVE  SoundStep
<1>1. CASE ConcludeLifecycle(t) \/ OrderUnsettled(t)
  <2>1. UNCHANGED <<ledger, ledgerSaved, orders, dispatched>>
    BY <1>1 DEF ConcludeLifecycle, OrderUnsettled, LifecycleWritten, LifecycleWriteFails, ReadOnly, stores
  <2>2. QED
    BY <1>1, <2>1, QuietGoto DEF ConcludeLifecycle, OrderUnsettled
<1>2. CASE CycleStep(t)
  BY <1>2, QuietCycleSteps, ReserveKeepsVerdicts, MarksKeepVerdicts, DispatchKeepsVerdicts DEF CycleStep
<1>3. CASE ReconcileStep(t)
  BY <1>1, <1>3, AttachKeepsVerdicts, SettleKeepsVerdicts, FindKeepsVerdicts, InspectKeepsVerdicts,
     RereadKeepsVerdicts, CloseKeepsVerdicts, OrderSettlesKeepsVerdicts, JudgeKeepsVerdicts
     DEF ReconcileStep
<1>4. QED
  BY <1>2, <1>3

\* A new cycle relies on nothing.
LEMMA StartCycleKeepsVerdicts ==
  ASSUME SoundState, NEW t \in Threads, NEW r \in Requests, NEW c \in Cycles, StartCycle(t, r, c)
  PROVE  SoundStep
<1> DEFINE k == [Idle EXCEPT !.pc = "readiness", !.req = r, !.cycle = c]
<1>1. UNCHANGED <<ledger, ledgerSaved, orders, dispatched>>
  BY DEF StartCycle, ReadOnly, stores
<1>2. call' = [call EXCEPT ![t] = k] /\ k.pc = "readiness"
  BY DEF StartCycle, Idle
<1> HIDE DEF k
<1>3. Grounded(k) /\ k.pc \notin HoldSteps \cup JudgeSteps \cup {"start", "dispatch"}
  BY <1>2 DEF Grounded, HoldSteps, JudgeSteps, OrderSteps, SeekSteps
<1>4. QED
  BY <1>1, <1>2, <1>3, QuietStep

\* An honest operator asks about an order of the cycle.
LEMMA StartReconcileKeepsVerdicts ==
  ASSUME SoundState, Honest, NEW t \in Threads, NEW c \in Cycles, NEW x \in Tickets,
         NEW b \in BOOLEAN, StartReconcile(t, c, x, b)
  PROVE  SoundStep
<1> DEFINE k == [Idle EXCEPT !.pc = "find", !.cycle = c, !.ticket = x, !.closing = b]
<1>1. UNCHANGED <<ledger, ledgerSaved, orders, dispatched>>
  BY DEF StartReconcile, ReadOnly, stores
<1>2. call' = [call EXCEPT ![t] = k] /\ k.pc = "find" /\ k.ticket = x /\ k.cycle = c
  BY DEF StartReconcile, Idle
<1>3. orders[x].state # "unissued" /\ orders[x].cycle = c
  BY DEF StartReconcile, EnteredTickets, Honest
<1>4. orders[x].req \in Requests
  BY <1>3 DEF SoundState, VerdictInv, BooksInv, OrdersAreOwned, Unissued
<1> HIDE DEF k
<1>5. QED
  BY <1>1, <1>2, <1>3, <1>4, SeekStep

\* An honest operator declares what became of a request that nobody serves.
LEMMA StartManualReconcileKeepsVerdicts ==
  ASSUME SoundState, Honest, NEW t \in Threads, NEW r \in Requests, NEW b \in BOOLEAN,
         StartManualReconcile(t, r, b)
  PROVE  SoundStep
<1> DEFINE k == [Idle EXCEPT !.pc = "judge", !.req = r, !.executed = b]
<1>1. UNCHANGED <<ledger, ledgerSaved, orders, dispatched>>
  BY DEF StartManualReconcile, ReadOnly, stores
<1>2. call' = [call EXCEPT ![t] = k] /\ k.pc = "judge" /\ k.req = r /\ k.executed = b
  BY DEF StartManualReconcile, Idle
<1>3. /\ r \in Recorded(ledger)
      /\ \A u \in Threads : call[u].req = r => call[u].pc \notin CycleSteps
      /\ \A y \in Tickets : orders[y].req = r => orders[y].state # "working"
      /\ b <=> \E y \in Tickets : orders[y].req = r /\ orders[y].state \in Filled
  BY DEF StartManualReconcile, Declared, Honest
<1>4. Known(r, b)
  BY <1>3 DEF Known, WasFilled, OrdersOf
<1>5. \A u \in Threads : Claims(u) => call[u].req # r
  BY <1>3 DEF Claims, CycleSteps
<1> HIDE DEF k
<1>6. k.pc \in JudgeSteps /\ k.req \in Recorded(ledger) /\ Known(k.req, k.executed)
  BY <1>2, <1>3, <1>4 DEF JudgeSteps
<1>7. QED
  BY <1>1, <1>2, <1>5, <1>6, JudgeStep

\* The broker moves an order while calls go on.
LEMMA BrokerKeepsVerdicts ==
  ASSUME SoundState, NEW x \in Tickets, BrokerMoves(x)
  PROVE  SoundStep
<1>1. OrderMoves(x) /\ UNCHANGED call
  BY DEF BrokerMoves, OrderMoves, stores
<1>2. /\ BookStep /\ LedgerGrows /\ OrdersGrow /\ CyclesAreRecorded'
      /\ \A r : NoNewOrder(r)
      /\ \A u \in Threads : Claims(u) => ledger'[call[u].req].status = "RESERVED"
  BY <1>1, MoveStep
<1>3. BooksInv'
  BY <1>2, StepsKeepBooks DEF SoundState, TypeInv, VerdictInv, WorldTypes
<1>4. \A u \in Threads : Grounded(call[u])'
  <2> SUFFICES ASSUME NEW u \in Threads, NEW m, m = call[u] PROVE Grounded(m)'
    BY <1>1
  <2>1. m \in Call /\ (m.pc \notin {"idle", "find"} => m.req \in Requests) /\ Grounded(m)
    BY ServedRequest DEF SoundState, TypeInv, VerdictInv, CallsAreGrounded
  <2>2. m.pc \in {"start", "dispatch"} => ledger'[m.req].status = "RESERVED"
    BY <1>2 DEF Claims
  <2>3. QED
    BY <1>2, <2>1, <2>2, GroundedStays
<1>5. CallsAreGrounded' /\ HoldsAreExclusive' /\ JudgedIsUnclaimed'
  BY <1>1, <1>4 DEF CallsAreGrounded, SoundState, VerdictInv, HoldsAreExclusive, JudgedIsUnclaimed, Claims
<1>6. QED
  BY <1>2, <1>3, <1>5 DEF SoundStep, VerdictInv

\* After a crash nothing is being served, and the orders are in a ledger that
\* was on disk.
LEMMA CrashKeepsVerdicts ==
  ASSUME SoundState, Crash
  PROVE  SoundStep
<1>1. BookStep /\ \A u \in Threads : call'[u] = Idle
  BY DEF Crash, BookStep, Restart
<1>2. BooksInv'
  BY <1>1, StepsKeepBooks DEF SoundState, TypeInv, VerdictInv, WorldTypes
<1>3. CyclesAreRecorded'
  BY DEF Crash, Reloaded, SoundState, VerdictInv, BooksInv, OrdersAreOwned, DispatchedIsDurable,
         CyclesAreRecorded
<1>4. Grounded(Idle)'
  BY IdleIsACall DEF Grounded, HoldSteps, JudgeSteps, OrderSteps, SeekSteps
<1>5. CallsAreGrounded' /\ HoldsAreExclusive' /\ JudgedIsUnclaimed'
  BY <1>1, <1>4, IdleIsACall
     DEF CallsAreGrounded, HoldsAreExclusive, JudgedIsUnclaimed, HoldSteps, JudgeSteps, Claims
<1>6. QED
  BY <1>1, <1>2, <1>3, <1>5 DEF SoundStep, VerdictInv

\* Every step from a sound state is a step of the books, and leaves a sound state.
LEMMA NextIsSound == SoundState /\ Honest /\ [Next]_vars => SoundStep
<1> SUFFICES ASSUME SoundState, Honest, [Next]_vars PROVE SoundStep
  OBVIOUS
<1>1. CASE UNCHANGED vars
  <2>1. UNCHANGED <<ledger, ledgerSaved, orders, dispatched, call>>
    BY <1>1 DEF vars
  <2>2. BookStep /\ BooksInv'
    BY <2>1, StepsKeepBooks DEF BookStep, SoundState, TypeInv, VerdictInv, WorldTypes
  <2>3. /\ CyclesAreRecorded' /\ CallsAreGrounded' /\ HoldsAreExclusive' /\ JudgedIsUnclaimed'
    BY <2>1 DEF SoundState, VerdictInv, CyclesAreRecorded, CallsAreGrounded, HoldsAreExclusive,
                JudgedIsUnclaimed, Grounded, Claims, Known, WasFilled, OrdersOf, Recorded
  <2>4. QED
    BY <2>2, <2>3 DEF SoundStep, VerdictInv
<1>2. CASE \E t \in Threads, r \in Requests, c \in Cycles : StartCycle(t, r, c)
  BY <1>2, StartCycleKeepsVerdicts
<1>3. CASE \E t \in Threads, c \in Cycles, x \in Tickets, b \in BOOLEAN : StartReconcile(t, c, x, b)
  BY <1>3, StartReconcileKeepsVerdicts
<1>4. CASE \E t \in Threads, r \in Requests, b \in BOOLEAN : StartManualReconcile(t, r, b)
  BY <1>4, StartManualReconcileKeepsVerdicts
<1>5. QED
  BY <1>1, <1>2, <1>3, <1>4, CallsKeepVerdicts, BrokerKeepsVerdicts, CrashKeepsVerdicts DEF Next

\* So the state stays sound.
LEMMA SoundInvariance == Honest /\ Spec => []SoundState
<1>1. Init => VerdictInv
  <2> SUFFICES ASSUME Init PROVE VerdictInv
    OBVIOUS
  <2>1. BooksInv
    BY EmptyBooks DEF Init
  <2>2. CyclesAreRecorded
    BY NonesAreDistinct DEF Init, NothingSent, CyclesAreRecorded, Unissued
  <2>3. CallsAreGrounded
    BY IdleIsACall DEF Init, CallsAreGrounded, Grounded, HoldSteps, JudgeSteps, OrderSteps, SeekSteps
  <2>4. HoldsAreExclusive /\ JudgedIsUnclaimed
    BY IdleIsACall DEF Init, HoldsAreExclusive, JudgedIsUnclaimed, HoldSteps, JudgeSteps
  <2>5. QED
    BY <2>1, <2>2, <2>3, <2>4 DEF VerdictInv
<1>2. TypeInv /\ DispatchInv /\ VerdictInv /\ Honest /\ [Next]_vars => VerdictInv'
  BY NextIsSound DEF SoundState, SoundStep
<1>3. Honest => Honest'
  BY DEF Honest
<1>4. QED
  BY <1>1, <1>2, <1>3, TypeInvariance, DispatchInvariance, PTL DEF Spec, SoundState

\* Whatever the threads, the failed writes and the restarts, what the ledger
\* finally says of a request is what became of its order: as long as the adapter
\* reports no placed order as refused and the operator enters what the broker
\* shows.
THEOREM TrueVerdicts == Honest /\ Spec => []VerdictsAreTrue
BY SoundInvariance, BooksAreTrue, PTL DEF SoundState, VerdictInv

\* And then a restart that is allowed to go on leaves no order unaccounted for.
THEOREM NothingLeftBehind == Honest /\ Spec => []ResumeLeavesNothingBehind
<1>1. SoundState => ResumeLeavesNothingBehind
  BY BooksLeaveNothing DEF SoundState, TypeInv, WorldTypes, VerdictInv, ResumeLeavesNothingBehind
<1>2. QED
  BY <1>1, SoundInvariance, PTL

\* The DEMO order path implements the abstract order desk.
THEOREM DemoIsAnOrderDesk == Honest /\ Spec => ImplementsOrderDesk
<1>1. Init => Desk!DeskInit
  BY EmptyDesk DEF Init
<1>2. SoundState /\ Honest /\ [Next]_vars => [Desk!DeskNext]_(Desk!deskVars)
  BY NextIsSound, StepsAreDeskSteps DEF SoundStep, SoundState, TypeInv, WorldTypes, VerdictInv
<1>3. Honest => Honest'
  BY DEF Honest
<1>4. QED
  BY <1>1, <1>2, <1>3, SoundInvariance, PTL DEF Spec, ImplementsOrderDesk, Desk!DeskSpec

-----------------------------------------------------------------------------
(* With one thread, orders are sent one at a time, whatever the adapter and  *)
(* the operator say.                                                         *)

OneThread == \A s, t \in Threads : s = t

\* A cycle between a clean recovery verdict and its executor call.
PathSteps == {"gate", "duplicate", "prior", "reserve", "start", "dispatch"}
EverySentIsFinal == \A q \in Requests : dispatched[q] > 0 => ledger[q].status \in FinalStatus
PathIsClear == (\E t \in Threads : call[t].pc \in PathSteps) => EverySentIsFinal
PathInv == PathIsClear /\ OneOrderAtATime

\* A request that was sent and has a final status keeps it.
LEMMA FinalStays ==
  ASSUME TypeInv, DispatchInv, Advance, NEW q \in Requests, dispatched[q] > 0,
         ledger[q].status \in FinalStatus
  PROVE  ledger'[q].status \in FinalStatus
BY DEF DispatchInv, DispatchedIsDurable, Advance, AdvancesTo

\* A step that sends nothing and takes nobody onto the path.
LEMMA PathStays ==
  ASSUME TypeInv, DispatchInv, PathInv, Advance, UNCHANGED dispatched,
         (\E t \in Threads : call'[t].pc \in PathSteps) => EverySentIsFinal
  PROVE  PathInv'
<1>1. PathIsClear'
  BY FinalStays DEF PathIsClear, EverySentIsFinal
<1>2. OneOrderAtATime'
  BY FinalStays DEF PathInv, OneOrderAtATime
<1>3. QED
  BY <1>1, <1>2 DEF PathInv

\* What was sent is recorded, and a clean recovery verdict has no record without
\* a final status.
LEMMA ResumeIsClear ==
  ASSUME TypeInv, DispatchInv, CanResume(ledger, lifecycle, checkpoint)
  PROVE  EverySentIsFinal
<1> SUFFICES ASSUME NEW q \in Requests, dispatched[q] > 0
             PROVE  ledger[q].status \in FinalStatus
  BY DEF EverySentIsFinal
<1>1. q \in Recorded(ledger)
  BY DEF DispatchInv, DispatchedIsDurable
<1>2. ledger[q].status \in ExecutionLedgerStatus
  BY <1>1 DEF Recorded, TypeInv, StoreTypes, ExecutionLedgerRecord, LedgerStatusOrAbsent
<1>3. ledger[q].status \notin {"UNKNOWN", "RESERVED", "ACCEPTED"}
  BY <1>1 DEF CanResume, Unresolved
<1>4. QED
  BY <1>2, <1>3 DEF ExecutionLedgerStatus, FinalStatus

\* The steps of a cycle: the path begins with a clean verdict and ends with the
\* executor call, before which every order sent is final.
LEMMA CycleStepKeepsPath ==
  ASSUME TypeInv, DispatchInv, PathInv, OneThread, NEW t \in Threads, CycleStep(t)
  PROVE  PathInv'
<1>1. Advance
  BY StepAdvances
<1>2. \A u \in Threads : u = t
  BY DEF OneThread
<1>3. call[t].pc \in PathSteps => EverySentIsFinal
  BY DEF PathInv, PathIsClear
<1>4. ASSUME UNCHANGED dispatched, NEW s, Goto(t, s), s \in PathSteps => EverySentIsFinal
      PROVE  PathInv'
  <2>1. call'[t].pc = s
    BY <1>4 DEF Goto, TypeInv, CallsOK, CallTypes, Call
  <2>2. QED
    BY <1>1, <1>2, <1>4, <2>1, PathStays
<1>5. ASSUME UNCHANGED dispatched, Finish(t)
      PROVE  PathInv'
  <2>1. call'[t].pc = "idle"
    BY <1>5, IdleIsACall DEF Finish, TypeInv, CallsOK, CallTypes
  <2>2. QED
    BY <1>1, <1>2, <1>5, <2>1, PathStays DEF PathSteps
<1>6. CASE Readiness(t)
  BY <1>4, <1>5, <1>6, ResumeIsClear DEF Readiness
<1>7. CASE Gate(t) \/ CheckDuplicate(t) \/ CheckPriorLifecycle(t)
  BY <1>3, <1>4, <1>7 DEF Gate, CheckDuplicate, CheckPriorLifecycle, At, PathSteps
<1>8. CASE Reserve(t)
  BY <1>3, <1>4, <1>8 DEF Reserve, LedgerStep, At, PathSteps
<1>9. CASE RecordStart(t)
  BY <1>3, <1>4, <1>9 DEF RecordStart, LifecycleStep, At, PathSteps
<1>10. CASE Dispatch(t)
  <2>1. EverySentIsFinal /\ UNCHANGED ledger
    BY <1>3, <1>10 DEF Dispatch, At, PathSteps, ReadOnly, stores
  <2>2. \A q \in Requests \ {call[t].req} : dispatched'[q] = dispatched[q]
    BY <1>10 DEF Dispatch, TypeInv, WorldTypes, OrderTypes
  <2>3. \A q \in Requests \ {call[t].req} : dispatched'[q] > 0 => ledger'[q].status \in FinalStatus
    BY <2>1, <2>2 DEF EverySentIsFinal
  <2>4. \A q, r \in Requests : q # r => q # call[t].req \/ r # call[t].req
    OBVIOUS
  <2>5. OneOrderAtATime'
    BY <2>3, <2>4 DEF OneOrderAtATime
  <2>6. call'[t].pc \in {"bind", "markUnknown", "markRejected"}
    BY <1>10 DEF Dispatch, Goto, TypeInv, CallsOK, CallTypes, Call
  <2>7. PathIsClear'
    BY <1>2, <2>6 DEF PathIsClear, PathSteps
  <2>8. QED
    BY <2>5, <2>7 DEF PathInv
<1>11. CASE BindExternalId(t) \/ MarkAccepted(t) \/ MarkRejected(t) \/ MarkUnknown(t)
  BY <1>4, <1>11 DEF BindExternalId, MarkAccepted, MarkRejected, MarkUnknown, LedgerStep, PathSteps
<1>12. CASE RecordAcceptance(t) \/ PutRejected(t) \/ PutUnknown(t)
  BY <1>4, <1>12 DEF RecordAcceptance, PutRejected, PutUnknown, LifecycleStep, PathSteps
<1>13. CASE SaveCheckpoint(t)
  BY <1>5, <1>13 DEF SaveCheckpoint
<1>14. QED
  BY <1>6, <1>7, <1>8, <1>9, <1>10, <1>11, <1>12, <1>13 DEF CycleStep

\* The operator's requests send nothing and are never on the path.
LEMMA ReconcileStepKeepsPath ==
  ASSUME TypeInv, DispatchInv, PathInv, OneThread, NEW t \in Threads, ReconcileStep(t)
  PROVE  PathInv'
<1>1. Advance
  BY SMTT(20), StepAdvances
<1>2. UNCHANGED dispatched
  BY DEF ReconcileStep, FindIdentity, InspectLifecycle, ClosePosition, AttachTicket, ReadStatusAgain,
         OrderSettles, OrderUnsettled, JudgeStatus, SettleLedger, ConcludeLifecycle
<1>3. call'[t].pc \in ReconcileSteps \cup {"idle"}
  <2>1. \A s : Goto(t, s) => call'[t].pc = s
    BY DEF Goto, TypeInv, CallsOK, CallTypes, Call
  <2>2. Finish(t) => call'[t].pc = "idle"
    BY IdleIsACall DEF Finish, TypeInv, CallsOK, CallTypes
  <2>3. CASE AttachTicket(t) \/ JudgeStatus(t) \/ SettleLedger(t) \/ OrderUnsettled(t) \/ ConcludeLifecycle(t)
    BY <2>1, <2>2, <2>3
       DEF AttachTicket, JudgeStatus, SettleLedger, OrderUnsettled, ConcludeLifecycle, ReconcileSteps
  <2>4. QED
    BY <2>3, SearchSteps DEF ReconcileStep
<1>4. \A u \in Threads : u = t
  BY DEF OneThread
<1>5. QED
  BY <1>1, <1>2, <1>3, <1>4, PathStays DEF PathSteps, ReconcileSteps

LEMMA NextKeepsPath == TypeInv /\ DispatchInv /\ PathInv /\ OneThread /\ [Next]_vars => PathInv'
<1> SUFFICES ASSUME TypeInv, DispatchInv, PathInv, OneThread, [Next]_vars PROVE PathInv'
  OBVIOUS
<1>1. Advance
  BY NextAdvances
<1>2. ASSUME NEW t \in Threads, NEW k, call' = [call EXCEPT ![t] = k],
             k.pc \in {"readiness", "find", "judge"}, UNCHANGED dispatched
      PROVE  PathInv'
  <2>1. \A u \in Threads : u = t
    BY DEF OneThread
  <2>2. call'[t] = k
    BY <1>2 DEF TypeInv, CallsOK, CallTypes
  <2>3. QED
    BY <1>1, <1>2, <2>1, <2>2, PathStays DEF PathSteps
<1>3. ASSUME NEW t \in Threads, NEW r \in Requests, NEW c \in Cycles, StartCycle(t, r, c)
      PROVE  PathInv'
  <2> DEFINE k == [Idle EXCEPT !.pc = "readiness", !.req = r, !.cycle = c]
  <2>1. call' = [call EXCEPT ![t] = k] /\ k.pc = "readiness" /\ UNCHANGED dispatched
    BY <1>3 DEF StartCycle, Idle
  <2> HIDE DEF k
  <2>2. QED
    BY <1>2, <2>1
<1>4. ASSUME NEW t \in Threads, NEW c \in Cycles, NEW x \in Tickets, NEW b \in BOOLEAN,
             StartReconcile(t, c, x, b)
      PROVE  PathInv'
  <2> DEFINE k == [Idle EXCEPT !.pc = "find", !.cycle = c, !.ticket = x, !.closing = b]
  <2>1. call' = [call EXCEPT ![t] = k] /\ k.pc = "find" /\ UNCHANGED dispatched
    BY <1>4 DEF StartReconcile, Idle
  <2> HIDE DEF k
  <2>2. QED
    BY <1>2, <2>1
<1>5. ASSUME NEW t \in Threads, NEW r \in Requests, NEW b \in BOOLEAN, StartManualReconcile(t, r, b)
      PROVE  PathInv'
  <2> DEFINE k == [Idle EXCEPT !.pc = "judge", !.req = r, !.executed = b]
  <2>1. call' = [call EXCEPT ![t] = k] /\ k.pc = "judge" /\ UNCHANGED dispatched
    BY <1>5 DEF StartManualReconcile, Idle
  <2> HIDE DEF k
  <2>2. QED
    BY <1>2, <2>1
<1>6. CASE Crash
  <2>1. UNCHANGED dispatched /\ \A u \in Threads : call'[u].pc = "idle"
    BY <1>6, IdleIsACall DEF Crash
  <2>2. QED
    BY <1>1, <2>1, PathStays DEF PathSteps
<1>7. CASE (\E x \in Tickets : BrokerMoves(x)) \/ UNCHANGED vars
  <2>1. UNCHANGED <<call, dispatched>>
    BY <1>7 DEF BrokerMoves, vars
  <2>2. QED
    BY <1>1, <2>1, PathStays DEF PathInv, PathIsClear
<1>8. QED
  BY <1>3, <1>4, <1>5, <1>6, <1>7, CycleStepKeepsPath, ReconcileStepKeepsPath DEF Next

\* Served one at a time, no cycle sends an order while an earlier one has no
\* final status: every cycle reads a clean recovery verdict first.
THEOREM OneOrderThenTheNext == OneThread /\ Spec => []OneOrderAtATime
<1>1. Init => PathInv
  BY IdleIsACall DEF Init, NothingSent, PathInv, PathIsClear, OneOrderAtATime, PathSteps
<1>2. OneThread => OneThread'
  BY DEF OneThread
<1>3. PathInv => OneOrderAtATime
  BY DEF PathInv
<1>4. QED
  BY <1>1, <1>2, <1>3, NextKeepsPath, TypeInvariance, DispatchInvariance, PTL DEF Spec

=============================================================================
