------------------------- MODULE RealExecutionProofs -------------------------
(***************************************************************************)
(* Proofs about the REAL order path, for any requests, tickets, threads    *)
(* and confirmations and any number of failed writes and crashes:          *)
(*   - every variable keeps its type,                                      *)
(*   - an order is sent at most once, and only when both stores have it,   *)
(*   - an order is only sent for a confirmation of that very request made  *)
(*     in this life of the process,                                        *)
(* and, as long as the adapter reports no order it placed as refused:      *)
(*   - what the ledger finally says of a request is what became of it,     *)
(*   - the path implements the abstract order desk, so that a restart that *)
(*     may go on leaves no order behind.                                   *)
(***************************************************************************)
EXTENDS RealExecution, StoreProofs

\* A call past the consumption of its confirmation, up to the adapter call.
Sending(k) == k.pc \in {"status", "reserve", "start", "dispatch"}

\* A call that has reserved its request and not sent the order yet.
Claims(k) == k.pc \in {"start", "dispatch"}

\* What a call in progress may rely on, whatever others do meanwhile.
CallSound(k) ==
  /\ k \in Call
  /\ k.pc # "idle" => k.req \in Requests
  /\ k.pc = "consume" \/ Sending(k) =>
       k.conf \in Confirmations /\ prepared[k.conf] = [req |-> k.req, life |-> crashes]
  /\ Sending(k) => k.conf \in consumed
  /\ Claims(k) => ledgerSaved /\ k.req \in Recorded(ledger) /\ dispatched[k.req] = 0
  /\ k.pc = "dispatch" => k.req \in lifeSaved

CallsSound == call = [t \in Threads |-> call[t]] /\ \A t \in Threads : CallSound(call[t])

ClaimsAreExclusive ==
  \A t, u \in Threads : t # u /\ Claims(call[t]) /\ Claims(call[u]) => call[t].req # call[u].req

\* What the lifecycle file has, the process has.
LifeKept == \A r \in lifeSaved : lifecycle[r] # "NONE"

\* Pending confirmations were made in this life of the process.
PendingIsFresh == \A k \in pending : prepared[k].req \in Requests /\ prepared[k].life = crashes

ConfirmationTypes ==
  /\ prepared \in [Confirmations -> [req : Requests \cup {NoRequest}, life : Nat]]
  /\ pending \subseteq Confirmations
  /\ consumed \subseteq Confirmations
  /\ expired \subseteq Confirmations
  /\ crashes \in Nat

StoresInv == StoreTypes /\ LifeKept
OrdersInv == OrderTypes /\ ArmedIsRecorded /\ AtMostOneDispatch
RealInv ==
  /\ StoresInv /\ OrdersInv /\ ConfirmationTypes /\ PendingIsFresh
  /\ CallsSound /\ ClaimsAreExclusive

\* What the files have, they keep.
FilesGrow ==
  /\ ledgerSaved => ledgerSaved' /\ Recorded(ledger) \subseteq Recorded(ledger')
  /\ lifeSaved \subseteq lifeSaved'

-----------------------------------------------------------------------------
(* The stores. *)

LEMMA AdvanceGrows ==
  ASSUME Advance, ledgerSaved
  PROVE  ledgerSaved' /\ Recorded(ledger) \subseteq Recorded(ledger')
BY DEF Advance, AdvancesTo

LEMMA LedgerWrites ==
  ASSUME StoresInv, NEW new, Operated(ledger, new), LedgerWritten(new) \/ LedgerWriteFails(new)
  PROVE  StoresInv' /\ FilesGrow
<1>1. new \in [Requests -> ExecutionLedgerRecord] /\ AdvancesTo(ledger, new)
  BY OperatedAdvances DEF StoresInv, StoreTypes
<1>2. StoreTypes' /\ Advance
  BY <1>1, LedgerWriteTypes, WritesAdvance DEF StoresInv
<1>3. UNCHANGED <<lifecycle, lifeSaved>>
  BY DEF LedgerWritten, LedgerWriteFails
<1>4. QED
  BY <1>2, <1>3, AdvanceGrows DEF StoresInv, LifeKept, FilesGrow

LEMMA LifecycleWrites ==
  ASSUME StoresInv, NEW r \in Requests, NEW s \in ExecutionLifecycleState,
         \/ LifecycleWritten(Put(lifecycle, r, s))
         \/ LifecycleWriteFails(r, Put(lifecycle, r, s))
  PROVE  /\ StoresInv' /\ FilesGrow
         /\ LifecycleWritten(Put(lifecycle, r, s)) => r \in lifeSaved'
<1> DEFINE new == Put(lifecycle, r, s)
<1>1. new \in [Requests -> LifecycleStateOrNone]
  BY PutIsALifecycle DEF StoresInv, StoreTypes
<1>2. StoreTypes'
  BY <1>1, LifecycleWriteTypes DEF StoresInv
<1>3. /\ new[r] # "NONE"
      /\ \A q \in Requests : lifecycle[q] # "NONE" => new[q] # "NONE"
  BY DEF Put, ExecutionLifecycleState, StoresInv, StoreTypes
<1>4. UNCHANGED <<ledger, ledgerSaved>>
  BY DEF LifecycleWritten, LifecycleWriteFails
<1> HIDE DEF new
<1>5. CASE LifecycleWritten(new)
  <2>1. lifeSaved' = {q \in Requests : new[q] # "NONE"} /\ lifecycle' = new
    BY <1>5 DEF LifecycleWritten
  <2>2. lifeSaved \subseteq lifeSaved' /\ r \in lifeSaved' /\ LifeKept'
    BY <2>1, <1>3 DEF StoresInv, StoreTypes, LifeKept
  <2>3. QED
    BY <2>2, <1>2, <1>4 DEF StoresInv, FilesGrow
<1>6. CASE LifecycleWriteFails(r, new)
  <2>1. UNCHANGED lifeSaved /\ (lifecycle' = lifecycle \/ lifecycle' = new)
    BY <1>6 DEF LifecycleWriteFails
  <2>2. LifeKept'
    BY <2>1, <1>3 DEF StoresInv, StoreTypes, LifeKept
  <2>3. ~LifecycleWritten(new) \/ r \in lifeSaved'
    BY <1>5, <1>3 DEF LifecycleWritten
  <2>4. QED
    BY <2>1, <2>2, <2>3, <1>2, <1>4 DEF StoresInv, FilesGrow, new
<1>7. QED
  BY <1>5, <1>6 DEF new

LEMMA StoresUntouched ==
  ASSUME StoresInv, UNCHANGED stores
  PROVE  StoresInv' /\ FilesGrow
BY ReadOnlyTypes DEF StoresInv, LifeKept, FilesGrow, ReadOnly, stores

-----------------------------------------------------------------------------
(* The calls. *)

LEMMA IdleIsSound == Idle \in Call /\ Idle.pc = "idle"
BY DEF Idle, Call

\* A step of one thread, by which the files grow, keeps the invariant when the
\* thread's new place is sound and what it claims nobody else does.
LEMMA CallStep ==
  ASSUME RealInv, StoresInv', OrderTypes', FilesGrow, NEW t \in Threads, NEW k,
         call' = [call EXCEPT ![t] = k],
         UNCHANGED <<prepared, crashes, dispatched>>,
         pending' \subseteq pending, consumed \subseteq consumed', consumed' \subseteq Confirmations,
         expired' \subseteq Confirmations,
         CallSound(k)',
         Claims(k) => \A u \in Threads \ {t} : Claims(call[u]) => call[u].req # k.req
  PROVE  RealInv'
<1>1. OrdersInv'
  BY DEF RealInv, OrdersInv, ArmedIsRecorded, AtMostOneDispatch, FilesGrow
<1>2. ConfirmationTypes' /\ PendingIsFresh'
  BY DEF RealInv, ConfirmationTypes, PendingIsFresh
<1>3. call'[t] = k /\ \A u \in Threads \ {t} : call'[u] = call[u]
  BY DEF RealInv, CallsSound
<1>4. call' = [u \in Threads |-> call'[u]]
  BY DEF RealInv, CallsSound
<1>5. ASSUME NEW u \in Threads PROVE CallSound(call[u])'
  <2>1. CASE u = t
    BY <2>1, <1>3 DEF CallSound, Claims, Sending
  <2>2. CASE u # t
    <3>1. CallSound(call[u]) /\ call'[u] = call[u]
      BY <2>2, <1>3 DEF RealInv, CallsSound
    <3>2. QED
      BY <3>1 DEF CallSound, Claims, Sending, FilesGrow
  <2>3. QED
    BY <2>1, <2>2
<1>6. ClaimsAreExclusive'
  BY <1>3 DEF RealInv, ClaimsAreExclusive, Claims
<1>7. QED
  BY <1>1, <1>2, <1>4, <1>5, <1>6 DEF RealInv, CallsSound

\* A place with no obligations: not on the way to the adapter.
LEMMA PlainCallStep ==
  ASSUME RealInv, StoresInv', OrderTypes', FilesGrow, NEW t \in Threads, NEW k \in Call,
         call' = [call EXCEPT ![t] = k], k.pc # "idle" => k.req \in Requests,
         k.pc \notin {"consume", "status", "reserve", "start", "dispatch"},
         UNCHANGED <<prepared, crashes, dispatched>>,
         pending' \subseteq pending, consumed \subseteq consumed', consumed' \subseteq Confirmations,
         expired' \subseteq Confirmations
  PROVE  RealInv'
<1>1. CallSound(k)' /\ ~Claims(k)
  BY DEF CallSound, Claims, Sending
<1>2. QED
  BY <1>1, CallStep

\* The end of a call, and a step to such a place.
LEMMA PlainSteps ==
  ASSUME RealInv, StoresInv', OrderTypes', FilesGrow, NEW t \in Threads, NEW s,
         Finish(t) \/ Goto(t, s), call[t].pc # "idle",
         s \in {"lookup", "bind", "accept", "confirm", "markRejected", "putRejected",
                "markUnknown", "putUnknown", "close", "settle", "conclude"},
         UNCHANGED <<prepared, crashes, dispatched>>,
         pending' \subseteq pending, consumed \subseteq consumed', consumed' \subseteq Confirmations,
         expired' \subseteq Confirmations
  PROVE  RealInv'
<1>1. CASE Finish(t)
  BY <1>1, IdleIsSound, PlainCallStep DEF Finish
<1>2. CASE Goto(t, s)
  <2> DEFINE k == [call[t] EXCEPT !.pc = s]
  <2>1. call[t] \in Call /\ call[t].req \in Requests
    BY DEF RealInv, CallsSound, CallSound
  <2>2. k \in Call /\ k.req \in Requests /\ k.pc = s
    BY <2>1 DEF Call, ConfirmSteps, SettleSteps
  <2>3. call' = [call EXCEPT ![t] = k]
    BY <1>2 DEF Goto
  <2> HIDE DEF k
  <2>4. QED
    BY <2>2, <2>3, PlainCallStep
<1>3. QED
  BY <1>1, <1>2

-----------------------------------------------------------------------------
(* The steps. *)

\* What the invariant says of a thread that is not idle.
LEMMA Served ==
  ASSUME RealInv, NEW t \in Threads
  PROVE  /\ call[t] \in Call /\ CallSound(call[t])
         /\ call[t].pc # "idle" => call[t].req \in Requests
BY DEF RealInv, CallsSound, CallSound

\* A step that writes no store, moves no order and touches no confirmation.
Undisturbed == ReadOnly /\ UNCHANGED <<orders, dispatched, confirmations, crashes>>

LEMMA UndisturbedSurroundings ==
  ASSUME RealInv, Undisturbed
  PROVE  /\ StoresInv' /\ OrderTypes' /\ FilesGrow
         /\ UNCHANGED <<prepared, crashes, dispatched, pending, consumed, expired>>
         /\ pending' \subseteq pending /\ consumed \subseteq consumed'
         /\ consumed' \subseteq Confirmations /\ expired' \subseteq Confirmations
BY StoresUntouched
   DEF RealInv, OrdersInv, OrderTypes, ConfirmationTypes, Undisturbed, ReadOnly, confirmations

\* Calls that begin.
LEMMA StartPrepareKeeps ==
  ASSUME RealInv, NEW t \in Threads, NEW r \in Requests, StartPrepare(t, r)
  PROVE  RealInv'
<1> DEFINE k == [Idle EXCEPT !.pc = "prepare", !.req = r]
<1>1. k \in Call /\ k.req \in Requests /\ k.pc = "prepare"
  BY IdleIsSound DEF Call, Idle
<1>2. call' = [call EXCEPT ![t] = k] /\ Undisturbed
  BY DEF StartPrepare, Undisturbed
<1> HIDE DEF k
<1>3. QED
  BY <1>1, <1>2, UndisturbedSurroundings, PlainCallStep

LEMMA StartConfirmKeeps ==
  ASSUME RealInv, NEW t \in Threads, NEW c \in Confirmations, NEW r \in Requests,
         NEW b \in BOOLEAN, StartConfirm(t, c, r, b)
  PROVE  RealInv'
<1> DEFINE k == [Idle EXCEPT !.pc = "lookup", !.conf = c, !.req = r, !.ready = b]
<1>1. k \in Call /\ k.req \in Requests /\ k.pc = "lookup"
  BY IdleIsSound DEF Call, Idle, ConfirmSteps
<1>2. call' = [call EXCEPT ![t] = k] /\ Undisturbed
  BY DEF StartConfirm, Undisturbed
<1> HIDE DEF k
<1>3. QED
  BY <1>1, <1>2, UndisturbedSurroundings, PlainCallStep

LEMMA StartCloseKeeps ==
  ASSUME RealInv, NEW t \in Threads, NEW r \in Requests, StartClose(t, r)
  PROVE  RealInv'
<1> DEFINE k == [Idle EXCEPT !.pc = "close", !.req = r, !.closing = TRUE,
                             !.ticket = ledger[r].ticket, !.executed = TRUE]
<1>1. ledger[r].ticket \in Tickets \cup {NoTicket}
  BY DEF RealInv, StoresInv, StoreTypes, ExecutionLedgerRecord
<1>2. k \in Call /\ k.req \in Requests /\ k.pc = "close"
  BY <1>1, IdleIsSound DEF Call, Idle, SettleSteps
<1>3. call' = [call EXCEPT ![t] = k] /\ Undisturbed
  BY DEF StartClose, Undisturbed
<1> HIDE DEF k
<1>4. QED
  BY <1>2, <1>3, UndisturbedSurroundings, PlainCallStep

LEMMA StartReconcileKeeps ==
  ASSUME RealInv, NEW t \in Threads, NEW r \in Requests, NEW b \in BOOLEAN,
         StartReconcile(t, r, b)
  PROVE  RealInv'
<1> DEFINE k == [Idle EXCEPT !.pc = "settle", !.req = r, !.executed = b]
<1>1. k \in Call /\ k.req \in Requests /\ k.pc = "settle"
  BY IdleIsSound DEF Call, Idle, SettleSteps
<1>2. call' = [call EXCEPT ![t] = k] /\ Undisturbed
  BY DEF StartReconcile, Undisturbed
<1> HIDE DEF k
<1>3. QED
  BY <1>1, <1>2, UndisturbedSurroundings, PlainCallStep

\* The confirmation: what is made is fresh, what is spent was pending.
LEMMA PrepareKeeps ==
  ASSUME RealInv, NEW t \in Threads, NEW c \in Confirmations, Prepare(t, c)
  PROVE  RealInv'
<1> DEFINE p == [req |-> call[t].req, life |-> crashes]
<1>1. call[t].req \in Requests
  BY Served DEF Prepare, At
<1>2. /\ prepared' = [prepared EXCEPT ![c] = p] /\ prepared[c].req = NoRequest
      /\ pending' = pending \cup {c} /\ call' = [call EXCEPT ![t] = Idle]
      /\ UNCHANGED <<stores, consumed, expired, orders, dispatched, crashes>>
  BY DEF Prepare, Finish, ReadOnly, Unprepared
<1>3. StoresInv' /\ OrdersInv'
  BY <1>2, StoresUntouched
     DEF RealInv, OrdersInv, OrderTypes, ArmedIsRecorded, AtMostOneDispatch, stores
<1>4. ConfirmationTypes' /\ PendingIsFresh'
  BY <1>1, <1>2 DEF RealInv, ConfirmationTypes, PendingIsFresh
<1>5. ASSUME NEW u \in Threads PROVE CallSound(call[u])'
  <2>1. CASE u = t
    BY <1>2, <2>1, IdleIsSound DEF RealInv, CallsSound, CallSound, Claims, Sending
  <2>2. CASE u # t
    <3>1. CallSound(call[u]) /\ call'[u] = call[u]
      BY <1>2, <2>2 DEF RealInv, CallsSound
    <3>2. call[u].pc = "consume" \/ Sending(call[u]) => prepared'[call[u].conf] = prepared[call[u].conf]
      <4>1. SUFFICES ASSUME call[u].pc = "consume" \/ Sending(call[u])
                     PROVE  prepared'[call[u].conf] = prepared[call[u].conf]
        OBVIOUS
      <4>2. call[u].req \in Requests /\ call[u].conf \in Confirmations
            /\ prepared[call[u].conf].req = call[u].req
        BY <3>1, <4>1 DEF CallSound, Sending
      <4>3. call[u].conf # c
        BY <4>2, <1>2, NonesAreDistinct
      <4>4. QED
        BY <4>2, <4>3, <1>2 DEF RealInv, ConfirmationTypes
    <3>3. QED
      BY <3>1, <3>2, <1>2 DEF CallSound, Claims, Sending, stores
  <2>3. QED
    BY <2>1, <2>2
<1>6. call' = [u \in Threads |-> call'[u]] /\ ClaimsAreExclusive'
  BY <1>2, IdleIsSound DEF RealInv, CallsSound, ClaimsAreExclusive, Claims
<1>7. QED
  BY <1>3, <1>4, <1>5, <1>6 DEF RealInv, CallsSound

LEMMA LookUpKeeps ==
  ASSUME RealInv, NEW t \in Threads, LookUp(t)
  PROVE  RealInv'
<1> DEFINE c == call[t].conf
<1>0. PICK k : k = [call[t] EXCEPT !.pc = "consume"]
  OBVIOUS
<1>1. /\ StoresInv' /\ OrderTypes' /\ FilesGrow
      /\ UNCHANGED <<prepared, crashes, dispatched, consumed, expired>>
      /\ pending' \subseteq pending /\ consumed' \subseteq Confirmations
      /\ expired' \subseteq Confirmations
  BY StoresUntouched DEF LookUp, RealInv, OrdersInv, OrderTypes, ConfirmationTypes, ReadOnly
<1>2. call[t] \in Call /\ call[t].req \in Requests /\ call[t].pc = "lookup"
  BY Served DEF LookUp, At
<1>3. CASE Finish(t)
  BY <1>1, <1>2, <1>3, PlainSteps
<1>4. CASE c \in pending /\ prepared[c].req = call[t].req /\ Goto(t, "consume")
  <2>1. k \in Call /\ k.pc = "consume" /\ k.conf = c /\ k.req = call[t].req
    BY <1>0, <1>2 DEF Call, ConfirmSteps
  <2>2. c \in Confirmations /\ prepared[c] = [req |-> call[t].req, life |-> crashes]
    BY <1>4 DEF RealInv, PendingIsFresh, ConfirmationTypes
  <2>3. CallSound(k)' /\ ~Claims(k)
    BY <1>1, <1>2, <2>1, <2>2 DEF CallSound, Claims, Sending
  <2>4. call' = [call EXCEPT ![t] = k]
    BY <1>0, <1>4 DEF Goto
  <2>5. QED
    BY <1>1, <2>3, <2>4, CallStep
<1>5. QED
  BY <1>3, <1>4 DEF LookUp

LEMMA ConsumeKeeps ==
  ASSUME RealInv, NEW t \in Threads, Consume(t)
  PROVE  RealInv'
<1> DEFINE c == call[t].conf
<1>0. PICK k : k = [call[t] EXCEPT !.pc = "status"]
  OBVIOUS
<1>1. call[t] \in Call /\ call[t].pc = "consume" /\ CallSound(call[t])
  BY Served DEF Consume, At
<1>2. c \in Confirmations /\ prepared[c] = [req |-> call[t].req, life |-> crashes]
      /\ call[t].req \in Requests
  BY <1>1 DEF CallSound
<1>3. /\ StoresInv' /\ OrderTypes' /\ FilesGrow
      /\ UNCHANGED <<prepared, crashes, dispatched, expired>>
      /\ pending' \subseteq pending /\ consumed' = consumed \cup {c}
      /\ consumed' \subseteq Confirmations /\ expired' \subseteq Confirmations
  BY <1>2, StoresUntouched
     DEF Consume, RealInv, OrdersInv, OrderTypes, ConfirmationTypes, ReadOnly
<1>4. CASE Finish(t)
  BY <1>1, <1>3, <1>4, PlainSteps
<1>5. CASE Goto(t, "status")
  <2>1. k \in Call /\ k.pc = "status" /\ k.conf = c /\ k.req = call[t].req
    BY <1>0, <1>1 DEF Call, ConfirmSteps
  <2>2. CallSound(k)' /\ ~Claims(k)
    BY <1>2, <1>3, <2>1 DEF CallSound, Claims, Sending
  <2>3. call' = [call EXCEPT ![t] = k]
    BY <1>0, <1>5 DEF Goto
  <2>4. QED
    BY <1>3, <2>2, <2>3, CallStep
<1>6. QED
  BY <1>4, <1>5 DEF Consume

-----------------------------------------------------------------------------
(* The gateway. *)

LEMMA CheckStatusKeeps ==
  ASSUME RealInv, NEW t \in Threads, CheckStatus(t)
  PROVE  RealInv'
<1>0. PICK k : k = [call[t] EXCEPT !.pc = "reserve"]
  OBVIOUS
<1>1. call[t] \in Call /\ call[t].pc = "status" /\ CallSound(call[t])
  BY Served DEF CheckStatus, At
<1>2. Undisturbed
  BY DEF CheckStatus, Undisturbed
<1>3. CASE Finish(t)
  BY <1>1, <1>2, <1>3, UndisturbedSurroundings, PlainSteps
<1>4. CASE Goto(t, "reserve")
  <2>1. k \in Call /\ k.pc = "reserve" /\ k.conf = call[t].conf /\ k.req = call[t].req
    BY <1>0, <1>1 DEF Call, ConfirmSteps
  <2>2. CallSound(k)' /\ ~Claims(k)
    BY <1>1, <1>2, <2>1, UndisturbedSurroundings DEF CallSound, Claims, Sending
  <2>3. call' = [call EXCEPT ![t] = k]
    BY <1>0, <1>4 DEF Goto
  <2>4. QED
    BY <1>2, <2>2, <2>3, UndisturbedSurroundings, CallStep
<1>5. QED
  BY <1>3, <1>4 DEF CheckStatus

\* A step of a store or of the gateway leaves the rest of the world alone.
LEMMA QuietSurroundings ==
  ASSUME RealInv, UNCHANGED <<orders, confirmations, crashes>>
  PROVE  /\ OrderTypes' \/ dispatched' # dispatched
         /\ UNCHANGED <<prepared, crashes, pending, consumed, expired>>
         /\ pending' \subseteq pending /\ consumed \subseteq consumed'
         /\ consumed' \subseteq Confirmations /\ expired' \subseteq Confirmations
BY DEF RealInv, OrdersInv, OrderTypes, ConfirmationTypes, confirmations

LEMMA ReserveKeeps ==
  ASSUME RealInv, NEW t \in Threads, Reserve(t)
  PROVE  RealInv'
<1> DEFINE r == call[t].req
           new == Reserved(ledger, r, NoCycle)
<1>0. PICK k : k = [call[t] EXCEPT !.pc = "start"]
  OBVIOUS
<1>1. call[t] \in Call /\ call[t].pc = "reserve" /\ CallSound(call[t]) /\ r \in Requests
  BY Served DEF Reserve, At
<1>2. UNCHANGED <<orders, dispatched, confirmations, crashes>>
  BY DEF Reserve
<1>3. CanReserve(ledger, r, NoCycle) => Operated(ledger, new)
  BY <1>1 DEF Operated
<1>4. CASE Finish(t) /\ ReadOnly
  BY <1>1, <1>2, <1>4, UndisturbedSurroundings, PlainSteps DEF Undisturbed
<1>5. CASE CanReserve(ledger, r, NoCycle) /\ LedgerWriteFails(new) /\ Finish(t)
  BY <1>1, <1>2, <1>3, <1>5, LedgerWrites, QuietSurroundings, PlainSteps DEF RealInv
<1>6. CASE CanReserve(ledger, r, NoCycle) /\ LedgerWritten(new) /\ Goto(t, "start")
  <2>1. StoresInv' /\ FilesGrow
    BY <1>3, <1>6, LedgerWrites DEF RealInv
  <2>2. r \notin Recorded(ledger)
    BY <1>6 DEF CanReserve
  <2>3. dispatched[r] = 0
    BY <1>1, <2>2 DEF RealInv, OrdersInv, OrderTypes, ArmedIsRecorded
  <2>4. \A u \in Threads : Claims(call[u]) => call[u].req # r
    BY <2>2 DEF RealInv, CallsSound, CallSound
  <2>5. ledgerSaved' /\ r \in Recorded(ledger)'
    BY <1>1, <1>6 DEF LedgerWritten, Reserved, Recorded, RealInv, StoresInv, StoreTypes
  <2>6. k \in Call /\ k.pc = "start" /\ k.conf = call[t].conf /\ k.req = r
    BY <1>0, <1>1 DEF Call, ConfirmSteps
  <2>7. CallSound(k)'
    BY <1>1, <1>2, <2>3, <2>5, <2>6 DEF CallSound, Claims, Sending, confirmations
  <2>8. call' = [call EXCEPT ![t] = k]
    BY <1>0, <1>6 DEF Goto
  <2>9. QED
    BY <1>2, <2>1, <2>4, <2>6, <2>7, <2>8, QuietSurroundings, CallStep
<1>7. QED
  BY <1>4, <1>5, <1>6 DEF Reserve, LedgerStep, Proceed

LEMMA RecordStartKeeps ==
  ASSUME RealInv, NEW t \in Threads, RecordStart(t)
  PROVE  RealInv'
<1> DEFINE r == call[t].req
           new == Put(lifecycle, r, "PENDING")
<1>0. PICK k : k = [call[t] EXCEPT !.pc = "dispatch"]
  OBVIOUS
<1>1. call[t] \in Call /\ call[t].pc = "start" /\ CallSound(call[t]) /\ r \in Requests
  BY Served DEF RecordStart, At
<1>2. UNCHANGED <<orders, dispatched, confirmations, crashes>>
  BY DEF RecordStart
<1>3. "PENDING" \in ExecutionLifecycleState
  BY DEF ExecutionLifecycleState
<1>4. CASE Finish(t) /\ ReadOnly
  BY <1>1, <1>2, <1>4, UndisturbedSurroundings, PlainSteps DEF Undisturbed
<1>5. CASE LifecycleWriteFails(r, new) /\ Finish(t)
  BY <1>1, <1>2, <1>3, <1>5, LifecycleWrites, QuietSurroundings, PlainSteps DEF RealInv
<1>6. CASE LifecycleWritten(new) /\ Goto(t, "dispatch")
  <2>1. StoresInv' /\ FilesGrow /\ r \in lifeSaved'
    BY <1>1, <1>3, <1>6, LifecycleWrites DEF RealInv
  <2>2. \A u \in Threads \ {t} : Claims(call[u]) => call[u].req # r
    BY <1>1 DEF RealInv, ClaimsAreExclusive, Claims
  <2>3. k \in Call /\ k.pc = "dispatch" /\ k.conf = call[t].conf /\ k.req = r
    BY <1>0, <1>1 DEF Call, ConfirmSteps
  <2>4. CallSound(k)'
    BY <1>1, <1>2, <2>1, <2>3 DEF CallSound, Claims, Sending, confirmations, FilesGrow
  <2>5. call' = [call EXCEPT ![t] = k]
    BY <1>0, <1>6 DEF Goto
  <2>6. QED
    BY <1>2, <2>1, <2>2, <2>3, <2>4, <2>5, QuietSurroundings, CallStep
<1>7. QED
  BY <1>4, <1>5, <1>6 DEF RecordStart, LifecycleStep, Proceed

\* What the broker does keeps the orders orders.
LEMMA BrokerKeepsOrders ==
  ASSUME orders \in [Tickets -> Order], NEW x \in Tickets,
         \/ \E r \in Requests, s \in {"working", "open"} : NewOrder(x, r, NoCycle, s)
         \/ ClosedNow(x) \/ EndedNow(x)
  PROVE  orders' \in [Tickets -> Order]
<1> USE DEF Order, OrderState
<1>1. ASSUME NEW r \in Requests, NEW s \in {"working", "open"}, NewOrder(x, r, NoCycle, s)
      PROVE  orders' \in [Tickets -> Order]
  BY <1>1 DEF NewOrder
<1>2. ASSUME NEW s \in OrderState, orders' = [orders EXCEPT ![x].state = s]
      PROVE  orders' \in [Tickets -> Order]
  BY <1>2
<1>3. QED
  BY <1>1, <1>2 DEF ClosedNow, EndedNow

\* The adapter is called for a claimed request: it was not sent before, both
\* files have it, and no other thread claims it.
LEMMA DispatchKeeps ==
  ASSUME RealInv, NEW t \in Threads, Dispatch(t)
  PROVE  RealInv'
<1> DEFINE r == call[t].req
<1>1. call[t] \in Call /\ call[t].pc = "dispatch" /\ CallSound(call[t]) /\ r \in Requests
  BY Served DEF Dispatch, At
<1>2. /\ dispatched' = [dispatched EXCEPT ![r] = dispatched[r] + 1]
      /\ UNCHANGED <<stores, prepared, pending, consumed, expired, crashes>>
  BY DEF Dispatch, ReadOnly, confirmations
<1>3. orders' \in [Tickets -> Order]
  <2>1. orders \in [Tickets -> Order]
    BY DEF RealInv, OrdersInv, OrderTypes
  <2>2. CASE UNCHANGED orders
    BY <2>1, <2>2
  <2>3. CASE \E x \in Tickets, s \in {"working", "open"} : NewOrder(x, r, NoCycle, s)
    BY <1>1, <2>1, <2>3, BrokerKeepsOrders
  <2>4. QED
    BY <2>2, <2>3 DEF Dispatch, NoOrder
<1>4. ASSUME NEW k \in Call, call' = [call EXCEPT ![t] = k], k.req = r,
             k.pc \in {"bind", "markRejected", "markUnknown"}
      PROVE  RealInv'
  <2>1. StoresInv' /\ ConfirmationTypes' /\ PendingIsFresh'
    BY <1>2, StoresUntouched DEF RealInv, ConfirmationTypes, PendingIsFresh
  <2>2. ledgerSaved /\ r \in Recorded(ledger) /\ r \in lifeSaved /\ dispatched[r] = 0
    BY <1>1 DEF CallSound, Claims
  <2>3. OrdersInv'
    BY <1>1, <1>2, <1>3, <2>2
       DEF RealInv, OrdersInv, OrderTypes, ArmedIsRecorded, AtMostOneDispatch, stores
  <2>4. call'[t] = k /\ \A u \in Threads \ {t} : call'[u] = call[u]
    BY <1>4 DEF RealInv, CallsSound
  <2>5. \A u \in Threads \ {t} : Claims(call[u]) => call[u].req # r
    BY <1>1 DEF RealInv, ClaimsAreExclusive, Claims
  <2>6. ASSUME NEW u \in Threads PROVE CallSound(call[u])'
    <3>1. CASE u = t
      BY <3>1, <1>1, <1>4, <2>4 DEF CallSound, Claims, Sending
    <3>2. CASE u # t
      <4>1. CallSound(call[u]) /\ call'[u] = call[u]
        BY <3>2, <2>4 DEF RealInv, CallsSound
      <4>2. Claims(call[u]) => dispatched'[call[u].req] = dispatched[call[u].req]
        BY <4>1, <1>2, <2>5, <3>2 DEF RealInv, OrdersInv, OrderTypes, CallSound, Claims
      <4>3. QED
        BY <4>1, <4>2, <1>2 DEF CallSound, Claims, Sending, stores
    <3>3. QED
      BY <3>1, <3>2
  <2>7. call' = [u \in Threads |-> call'[u]] /\ ClaimsAreExclusive'
    BY <1>4, <2>4 DEF RealInv, CallsSound, ClaimsAreExclusive, Claims
  <2>8. QED
    BY <2>1, <2>3, <2>6, <2>7 DEF RealInv, CallsSound
<1>5. ASSUME NEW s \in {"markRejected", "markUnknown"}, Goto(t, s) PROVE RealInv'
  <2> DEFINE k == [call[t] EXCEPT !.pc = s]
  <2>1. k \in Call /\ k.req = r /\ k.pc = s
    BY <1>1 DEF Call, ConfirmSteps
  <2>2. call' = [call EXCEPT ![t] = k]
    BY <1>5 DEF Goto
  <2> HIDE DEF k
  <2>3. QED
    BY <1>4, <2>1, <2>2
<1>6. ASSUME NEW x \in Tickets, call' = [call EXCEPT ![t].pc = "bind", ![t].ticket = x]
      PROVE  RealInv'
  <2> DEFINE k == [call[t] EXCEPT !.pc = "bind", !.ticket = x]
  <2>1. k \in Call /\ k.req = r /\ k.pc = "bind"
    BY <1>1 DEF Call, ConfirmSteps
  <2>2. call' = [call EXCEPT ![t] = k]
    BY <1>6 DEF RealInv, CallsSound
  <2> HIDE DEF k
  <2>3. QED
    BY <1>4, <2>1, <2>2
<1>7. QED
  BY <1>5, <1>6 DEF Dispatch

\* Recording what the adapter answered, in the ledger or in the lifecycle.
LEMMA LedgerStepKeeps ==
  ASSUME RealInv, NEW t \in Threads, NEW allowed \in BOOLEAN, NEW new,
         allowed => Operated(ledger, new), call[t].pc # "idle",
         NEW s \in {"accept", "confirm", "putRejected", "putUnknown", "conclude"},
         LedgerStep(t, allowed, new, s),
         UNCHANGED <<orders, dispatched, confirmations, crashes>>
  PROVE  RealInv'
<1>1. Finish(t) \/ Goto(t, s)
  BY DEF LedgerStep, Proceed
<1>2. CASE ReadOnly
  BY <1>1, <1>2, UndisturbedSurroundings, PlainSteps DEF Undisturbed
<1>3. CASE Operated(ledger, new) /\ (LedgerWritten(new) \/ LedgerWriteFails(new))
  <2>1. StoresInv' /\ FilesGrow
    BY <1>3, LedgerWrites DEF RealInv
  <2>2. QED
    BY <1>1, <2>1, QuietSurroundings, PlainSteps
<1>4. QED
  BY <1>2, <1>3 DEF LedgerStep

LEMMA LifecycleStepKeeps ==
  ASSUME RealInv, NEW t \in Threads, NEW allowed \in BOOLEAN, NEW r \in Requests,
         NEW s \in ExecutionLifecycleState, call[t].pc # "idle",
         LifecycleStep(t, allowed, r, s, "idle"),
         UNCHANGED <<orders, dispatched, confirmations, crashes>>
  PROVE  RealInv'
<1>1. Finish(t)
  BY DEF LifecycleStep, Proceed
<1>2. CASE ReadOnly
  BY <1>1, <1>2, UndisturbedSurroundings, PlainSteps DEF Undisturbed
<1>3. CASE \/ LifecycleWritten(Put(lifecycle, r, s))
           \/ LifecycleWriteFails(r, Put(lifecycle, r, s))
  <2>1. StoresInv' /\ FilesGrow
    BY <1>3, LifecycleWrites DEF RealInv
  <2>2. QED
    BY <1>1, <2>1, QuietSurroundings, PlainSteps
<1>4. QED
  BY <1>2, <1>3 DEF LifecycleStep

LEMMA RecordingKeeps ==
  ASSUME RealInv, NEW t \in Threads,
         \/ BindExternalId(t) \/ MarkAccepted(t) \/ RecordAcceptance(t) \/ MarkRejected(t)
         \/ PutRejected(t) \/ MarkUnknown(t) \/ PutUnknown(t)
         \/ SettleLedger(t) \/ ConcludeLifecycle(t)
  PROVE  RealInv'
<1> DEFINE r == call[t].req
           x == call[t].ticket
           b == call[t].executed
<1>1. call[t].pc # "idle" /\ r \in Requests /\ x \in Tickets \cup {NoTicket} /\ b \in BOOLEAN
  BY Served
     DEF BindExternalId, MarkAccepted, RecordAcceptance, MarkRejected, PutRejected,
         MarkUnknown, PutUnknown, SettleLedger, ConcludeLifecycle, Mark, RecordOutcome, At, Call
<1>2. /\ CanBind(ledger, r, x) => Operated(ledger, Bound(ledger, r, x))
      /\ CanReconcile(ledger, r) => Operated(ledger, Reconciled(ledger, r, b))
  BY <1>1 DEF Operated
<1>3. \A s \in {"ACCEPTED", "REJECTED", "UNKNOWN"} :
        CanMark(ledger, r) => Operated(ledger, Marked(ledger, r, s))
  BY <1>1 DEF Operated
<1>4. /\ CanBind(ledger, r, x) \in BOOLEAN /\ CanMark(ledger, r) \in BOOLEAN
      /\ CanReconcile(ledger, r) \in BOOLEAN
      /\ \A s \in ExecutionLifecycleState : CanPut(lifecycle, r, s) \in BOOLEAN
  BY DEF CanBind, CanMark, CanReconcile, CanPut
<1> HIDE DEF r, x, b
<1>5. CASE BindExternalId(t)
  BY <1>1, <1>2, <1>4, <1>5, LedgerStepKeeps DEF BindExternalId, r, x
<1>6. ASSUME NEW here, NEW s \in {"ACCEPTED", "REJECTED", "UNKNOWN"},
             NEW next \in {"confirm", "putRejected", "putUnknown"}, Mark(t, here, s, next)
      PROVE  RealInv'
  BY <1>1, <1>3, <1>4, <1>6, LedgerStepKeeps DEF Mark, r
<1>7. ASSUME NEW here, NEW s \in ExecutionLifecycleState, RecordOutcome(t, here, s)
      PROVE  RealInv'
  BY <1>1, <1>4, <1>7, LifecycleStepKeeps DEF RecordOutcome, r
<1>8. CASE SettleLedger(t)
  BY <1>1, <1>2, <1>4, <1>8, LedgerStepKeeps DEF SettleLedger, r, b
<1>9. CASE ConcludeLifecycle(t)
  <2> DEFINE verdict == IF call[t].executed THEN "ACCEPTED" ELSE "REJECTED"
             allowed == IF call[t].closing THEN CanPut(lifecycle, r, verdict)
                        ELSE lifecycle[r] # "NONE"
  <2>1. verdict \in ExecutionLifecycleState /\ allowed \in BOOLEAN
    BY <1>4 DEF ExecutionLifecycleState, CanPut
  <2>2. /\ LifecycleStep(t, allowed, r, verdict, "idle")
        /\ UNCHANGED <<orders, dispatched, confirmations, crashes>>
    BY <1>9 DEF ConcludeLifecycle, r
  <2> HIDE DEF verdict, allowed
  <2>3. QED
    BY <1>1, <2>1, <2>2, LifecycleStepKeeps
<1>10. QED
  BY <1>5, <1>6, <1>7, <1>8, <1>9
     DEF MarkAccepted, RecordAcceptance, MarkRejected, PutRejected, MarkUnknown, PutUnknown,
         ExecutionLifecycleState

LEMMA ClosePositionKeeps ==
  ASSUME RealInv, NEW t \in Threads, ClosePosition(t)
  PROVE  RealInv'
<1>1. call[t] \in Call /\ call[t].pc = "close"
  BY Served DEF ClosePosition, At
<1>2. /\ ReadOnly /\ UNCHANGED <<dispatched, confirmations, crashes>>
      /\ Finish(t) \/ Goto(t, "settle")
  BY DEF ClosePosition
<1>3. OrderTypes'
  <2>1. CASE UNCHANGED orders
    BY <1>2, <2>1 DEF RealInv, OrdersInv, OrderTypes
  <2>2. CASE ClosedNow(call[t].ticket)
    BY ZenonT(30), <1>2, <2>2 DEF ClosedNow, RealInv, OrdersInv, OrderTypes, Order, OrderState
  <2>3. QED
    BY <2>1, <2>2 DEF ClosePosition, NoOrder
<1>4. StoresInv' /\ FilesGrow
  BY <1>2, StoresUntouched DEF RealInv, ReadOnly
<1>5. /\ UNCHANGED <<prepared, pending, consumed, expired>>
      /\ consumed' \subseteq Confirmations /\ expired' \subseteq Confirmations
  BY <1>2 DEF confirmations, RealInv, ConfirmationTypes
<1>6. QED
  BY <1>1, <1>2, <1>3, <1>4, <1>5, PlainSteps

-----------------------------------------------------------------------------
(* The surroundings, and all steps together. *)

\* What stays true of every call when only the world around it moves.
LEMMA SurroundingsKeep ==
  ASSUME RealInv, (\E c \in Confirmations : Expire(c)) \/ (\E x \in Tickets : BrokerMoves(x))
         \/ UNCHANGED vars
  PROVE  RealInv'
<1>1. UNCHANGED <<stores, dispatched, prepared, pending, consumed, call, crashes>>
  BY DEF Expire, BrokerMoves, ReadOnly, vars, confirmations
<1>2. expired' \subseteq Confirmations
  BY DEF Expire, BrokerMoves, vars, confirmations, RealInv, ConfirmationTypes
<1>3. orders' \in [Tickets -> Order]
  <2>1. orders \in [Tickets -> Order]
    BY DEF RealInv, OrdersInv, OrderTypes
  <2>2. CASE UNCHANGED orders
    BY <2>1, <2>2
  <2>3. CASE \E x \in Tickets : BrokerMoves(x)
    BY <2>1, <2>3, BrokerKeepsOrders DEF BrokerMoves
  <2>4. QED
    BY <2>2, <2>3 DEF Expire, vars
<1>4. StoresInv' /\ OrdersInv' /\ ConfirmationTypes' /\ PendingIsFresh'
  BY <1>1, <1>2, <1>3, StoresUntouched
     DEF RealInv, OrdersInv, OrderTypes, ArmedIsRecorded, AtMostOneDispatch, ConfirmationTypes,
         PendingIsFresh, stores
<1>5. CallsSound' /\ ClaimsAreExclusive'
  BY <1>1
     DEF RealInv, CallsSound, CallSound, Claims, Sending, ClaimsAreExclusive, stores
<1>6. QED
  BY <1>4, <1>5 DEF RealInv

\* A crash keeps what the files have; no call survives it, and no confirmation.
LEMMA CrashKeeps == ASSUME RealInv, Crash PROVE RealInv'
<1>1. /\ ledger' = IF ledgerSaved THEN ledger ELSE EmptyLedger
      /\ lifecycle' = [r \in Requests |-> IF r \in lifeSaved THEN lifecycle[r] ELSE "NONE"]
      /\ UNCHANGED <<ledgerSaved, lifeSaved, checkpoint, faults, prepared, expired, orders,
                     dispatched>>
      /\ pending' = {} /\ consumed' = {} /\ crashes' = crashes + 1
      /\ call' = [t \in Threads |-> Idle]
  BY DEF Crash, Reloaded
<1>2. EmptyLedger \in [Requests -> ExecutionLedgerRecord]
  BY DEF EmptyLedger, AbsentRecord, ExecutionLedgerRecord, LedgerStatusOrAbsent
<1>3. ledger' \in [Requests -> ExecutionLedgerRecord]
  BY <1>1, <1>2 DEF RealInv, StoresInv, StoreTypes
<1>4. lifecycle' \in [Requests -> LifecycleStateOrNone] /\ LifeKept'
  BY <1>1 DEF RealInv, StoresInv, StoreTypes, LifeKept, LifecycleStateOrNone
<1>5. StoresInv'
  BY <1>1, <1>3, <1>4 DEF RealInv, StoresInv, StoreTypes
<1>6. OrdersInv'
  BY <1>1 DEF RealInv, OrdersInv, OrderTypes, ArmedIsRecorded, AtMostOneDispatch
<1>7. ConfirmationTypes' /\ PendingIsFresh'
  BY <1>1 DEF RealInv, ConfirmationTypes, PendingIsFresh
<1>8. CallsSound' /\ ClaimsAreExclusive'
  BY <1>1, IdleIsSound DEF CallsSound, CallSound, Claims, Sending, ClaimsAreExclusive
<1>9. QED
  BY <1>5, <1>6, <1>7, <1>8 DEF RealInv

LEMMA InitIsSound == Init => RealInv
<1> SUFFICES ASSUME Init PROVE RealInv
  OBVIOUS
<1> USE DEF Init, NoStores, NothingSent
<1>1. StoresInv
  BY DEF StoresInv, StoreTypes, LifeKept, EmptyLedger, AbsentRecord, ExecutionLedgerRecord,
         LedgerStatusOrAbsent, EmptyLifecycle, LifecycleStateOrNone
<1>2. OrdersInv
  BY DEF OrdersInv, OrderTypes, ArmedIsRecorded, AtMostOneDispatch, Unissued, Order, OrderState
<1>3. ConfirmationTypes /\ PendingIsFresh
  BY DEF ConfirmationTypes, PendingIsFresh, Unprepared
<1>4. CallsSound /\ ClaimsAreExclusive
  BY IdleIsSound DEF CallsSound, CallSound, Claims, Sending, ClaimsAreExclusive
<1>5. QED
  BY <1>1, <1>2, <1>3, <1>4 DEF RealInv

LEMMA NextKeepsRealInv == RealInv /\ [Next]_vars => RealInv'
<1> SUFFICES ASSUME RealInv, [Next]_vars PROVE RealInv'
  OBVIOUS
<1>1. ASSUME NEW t \in Threads, ConfirmStep(t) PROVE RealInv'
  BY <1>1, LookUpKeeps, ConsumeKeeps, CheckStatusKeeps, ReserveKeeps, RecordStartKeeps,
     DispatchKeeps, RecordingKeeps
     DEF ConfirmStep
<1>2. ASSUME NEW t \in Threads, SettleStep(t) PROVE RealInv'
  BY <1>2, ClosePositionKeeps, RecordingKeeps DEF SettleStep
<1>3. ASSUME NEW t \in Threads,
             \/ \E r \in Requests : StartPrepare(t, r)
             \/ \E k \in Confirmations : Prepare(t, k)
             \/ \E k \in Confirmations, r \in Requests, b \in BOOLEAN : StartConfirm(t, k, r, b)
             \/ \E r \in Requests : StartClose(t, r)
             \/ \E r \in Requests, b \in BOOLEAN : StartReconcile(t, r, b)
      PROVE  RealInv'
  BY <1>3, StartPrepareKeeps, PrepareKeeps, StartConfirmKeeps, StartCloseKeeps,
     StartReconcileKeeps
<1>4. QED
  BY <1>1, <1>2, <1>3, SurroundingsKeep, CrashKeeps DEF Next

LEMMA RealInvariance == Spec => []RealInv
BY InitIsSound, NextKeepsRealInv, PTL DEF Spec

-----------------------------------------------------------------------------
(* The theorems. *)

\* Every variable keeps its type, through every interleaving, failed write and
\* restart: see TypeOK.
THEOREM RealTypeCorrectness == Spec => []TypeOK
<1>1. RealInv => TypeOK
  BY DEF RealInv, StoresInv, OrdersInv, ConfirmationTypes, CallsSound, CallSound, TypeOK
<1>2. QED
  BY <1>1, RealInvariance, PTL

\* A REAL order is sent at most once: see AtMostOneDispatch.
THEOREM RealNoSecondDispatch == Spec => []AtMostOneDispatch
<1>1. RealInv => AtMostOneDispatch
  BY DEF RealInv, OrdersInv
<1>2. QED
  BY <1>1, RealInvariance, PTL

\* Both files have an order before it is sent, and from then on: see
\* ArmedIsRecorded.
THEOREM RealArmedIsRecorded == Spec => []ArmedIsRecorded
<1>1. RealInv => ArmedIsRecorded
  BY DEF RealInv, OrdersInv
<1>2. QED
  BY <1>1, RealInvariance, PTL

\* An order is sent for a spent confirmation of that very request, made in this
\* life of the process: see OrdersAreConfirmed.
THEOREM RealOrdersAreConfirmed == Spec => OrdersAreConfirmed
<1> DEFINE Confirmed == \A r \in Requests : dispatched'[r] > dispatched[r] =>
                          \E k \in consumed : prepared[k] = [req |-> r, life |-> crashes]
<1>1. ASSUME RealInv, NEW t \in Threads, Dispatch(t) PROVE Confirmed
  <2>1. call[t].pc = "dispatch" /\ CallSound(call[t]) /\ call[t].req \in Requests
    BY <1>1, Served DEF Dispatch, At
  <2>2. /\ call[t].conf \in consumed
        /\ prepared[call[t].conf] = [req |-> call[t].req, life |-> crashes]
    BY <2>1 DEF CallSound, Sending
  <2>3. \A r \in Requests : r # call[t].req => dispatched'[r] = dispatched[r]
    BY <1>1 DEF Dispatch, RealInv, OrdersInv, OrderTypes
  <2>4. \A r \in Requests : dispatched[r] \in Nat
    BY <1>1 DEF RealInv, OrdersInv, OrderTypes
  <2>5. QED
    BY <2>2, <2>3, <2>4
<1>2. ASSUME RealInv, UNCHANGED dispatched PROVE Confirmed
  <2>1. \A r \in Requests : dispatched[r] \in Nat
    BY SMTT(20), <1>2 DEF RealInv, OrdersInv, OrderTypes
  <2>2. QED
    BY <1>2, <2>1
<1>3. ASSUME [Next]_vars, \A t \in Threads : ~Dispatch(t) PROVE UNCHANGED dispatched
  BY <1>3
     DEF Next, vars, ConfirmStep, SettleStep, StartPrepare, Prepare, StartConfirm, StartClose,
         StartReconcile, LookUp, Consume, CheckStatus, Reserve, RecordStart, BindExternalId,
         MarkAccepted, RecordAcceptance, MarkRejected, PutRejected, MarkUnknown, PutUnknown,
         Mark, RecordOutcome, ClosePosition, SettleLedger, ConcludeLifecycle, Expire,
         BrokerMoves, Crash
<1>4. RealInv /\ [Next]_vars => [Confirmed]_vars
  BY <1>1, <1>2, <1>3
<1>5. QED
  BY <1>4, RealInvariance, PTL DEF Spec, OrdersAreConfirmed

-----------------------------------------------------------------------------
(* Verdicts.  The adapter must not report an order it placed as refused.     *)

Faithful == ~SilentReplies

\* A call that comes after the adapter's answer, up to recording it.
Answered(k) == k.pc \in {"bind", "accept", "markRejected", "markUnknown"}

\* What the steps of a call know of its request's record and orders.
Grounded(k) ==
  /\ Claims(k) => ledger[k.req].status = "RESERVED"
  /\ Answered(k) => dispatched[k.req] > 0
  /\ k.pc = "bind" => k.ticket \in Tickets /\ orders[k.ticket].req = k.req
  /\ k.pc = "markRejected" => OrdersOf(k.req) = {}
  /\ k.pc = "close" => k.ticket \in Tickets /\ orders[k.ticket].req = k.req /\ k.executed
  /\ k.pc = "settle" => k.req \in Recorded(ledger) /\ Known(k.req, k.executed)
CallsAreGrounded == \A t \in Threads : Grounded(call[t])

\* Nobody is about to send the order that a call is about to settle.
SettledIsUnclaimed ==
  \A t, u \in Threads : call[t].pc = "settle" /\ Claims(call[u]) => call[t].req # call[u].req

\* The ticket the ledger has for a request is that of an order of it.
TicketsAreOrders ==
  \A r \in Requests : ledger[r].ticket # NoTicket => orders[ledger[r].ticket].req = r

VerdictInv == BooksInv /\ CallsAreGrounded /\ SettledIsUnclaimed /\ TicketsAreOrders

SoundState == RealInv /\ VerdictInv
SoundStep == BookStep /\ VerdictInv'

\* What the invariant says of the stores and the orders.
LEMMA SoundTypes ==
  ASSUME SoundState
  PROVE  /\ StoreTypes /\ OrderTypes /\ BooksInv
         /\ ledger \in [Requests -> ExecutionLedgerRecord]
         /\ \A r \in Requests : ledger[r].ticket \in Tickets \cup {NoTicket}
         /\ \A r \in Requests : dispatched[r] \in Nat
BY DEF SoundState, RealInv, StoresInv, OrdersInv, VerdictInv, StoreTypes, OrderTypes,
       ExecutionLedgerRecord

\* An order of a request shows that the request was sent, so that nobody claims it.
LEMMA OrderedIsUnclaimed ==
  ASSUME SoundState, NEW r \in Requests, NEW x \in Tickets, orders[x].req = r
  PROVE  /\ dispatched[r] > 0 /\ r \in Recorded(ledger)
         /\ \A u \in Threads : Claims(call[u]) => call[u].req # r
<1>1. dispatched[r] > 0
  BY DEF SoundState, VerdictInv, BooksInv, OrdersAreOwned
<1>2. r \in Recorded(ledger)
  BY <1>1 DEF SoundState, VerdictInv, BooksInv, DispatchedIsDurable
<1>3. \A u \in Threads : Claims(call[u]) => dispatched[call[u].req] = 0
  BY Served DEF SoundState, CallSound
<1>4. QED
  BY <1>1, <1>2, <1>3

\* What others may rely on, they keep, when a step of one thread does not touch
\* what they claim, refuse or settle.
LEMMA OthersStayGrounded ==
  ASSUME SoundState, LedgerGrows, OrdersGrow,
         \A r \in Requests : dispatched[r] > 0 => dispatched'[r] > 0,
         NEW u \in Threads, NEW k, k = call[u],
         Claims(k) => ledger'[k.req].status = "RESERVED",
         k.pc \in {"markRejected", "settle"} => NoNewOrder(k.req)
  PROVE  Grounded(k)'
<1>1. Grounded(k) /\ k \in Call /\ (k.pc # "idle" => k.req \in Requests)
  BY Served DEF SoundState, VerdictInv, CallsAreGrounded
<1>2. Claims(k)' <=> Claims(k)
  BY DEF Claims
<1>3. k.pc = "settle" => k.req \in Recorded(ledger') /\ Known(k.req, k.executed)'
  BY <1>1, KnownStays DEF Grounded, LedgerGrows, Call
<1>4. k.pc = "markRejected" => (OrdersOf(k.req) = {})'
  BY <1>1, UnsentStays DEF Grounded
<1>5. k.pc \in {"bind", "close"} => orders'[k.ticket].req = k.req
  BY <1>1 DEF Grounded, OrdersGrow
<1>6. Answered(k) => dispatched'[k.req] > 0
  BY <1>1 DEF Grounded, Answered
<1>7. QED
  BY <1>1, <1>2, <1>3, <1>4, <1>5, <1>6 DEF Grounded, Answered

\* A step of one thread.
LEMMA ThreadStep ==
  ASSUME SoundState, BookStep, LedgerGrows, OrdersGrow, TicketsAreOrders',
         \A r \in Requests : dispatched[r] > 0 => dispatched'[r] > 0,
         NEW t \in Threads, NEW k, call' = [call EXCEPT ![t] = k], Grounded(k)',
         \A u \in Threads \ {t} : Claims(call[u]) => ledger'[call[u].req].status = "RESERVED",
         \A u \in Threads \ {t} :
           call[u].pc \in {"markRejected", "settle"} => NoNewOrder(call[u].req),
         k.pc = "settle" => \A u \in Threads \ {t} : Claims(call[u]) => call[u].req # k.req,
         Claims(k) => \A u \in Threads \ {t} : call[u].pc = "settle" => call[u].req # k.req
  PROVE  SoundStep
<1>1. call'[t] = k /\ \A u \in Threads \ {t} : call'[u] = call[u]
  BY DEF SoundState, RealInv, CallsSound
<1>2. BooksInv'
  BY SoundTypes, StepsKeepBooks
<1>3. ASSUME NEW u \in Threads PROVE Grounded(call[u])'
  <2>1. CASE u = t
    BY <1>1, <2>1 DEF Grounded, Claims, Answered
  <2>2. CASE u # t
    <3>1. PICK m : m = call[u]
      OBVIOUS
    <3>2. Grounded(m)' /\ call'[u] = m
      BY <1>1, <2>2, <3>1, OthersStayGrounded
    <3>3. QED
      BY <3>2 DEF Grounded, Claims, Answered
  <2>3. QED
    BY <2>1, <2>2
<1>4. SettledIsUnclaimed'
  <2>1. ~(k.pc = "settle" /\ Claims(k))
    BY DEF Claims
  <2>2. QED
    BY <1>1, <2>1 DEF SoundState, VerdictInv, SettledIsUnclaimed, Claims
<1>5. QED
  BY <1>2, <1>3, <1>4 DEF SoundStep, VerdictInv, CallsAreGrounded

\* A step that writes neither the ledger nor an order.
QuietBooks == UNCHANGED <<ledger, ledgerSaved, orders, dispatched>>

LEMMA QuietStep ==
  ASSUME SoundState, QuietBooks, NEW t \in Threads, NEW k, call' = [call EXCEPT ![t] = k],
         Grounded(k), Claims(k) => Claims(call[t]) /\ k.req = call[t].req,
         k.pc = "settle" => \A u \in Threads \ {t} : Claims(call[u]) => call[u].req # k.req
  PROVE  SoundStep
<1> USE DEF QuietBooks
<1>1. BookStep
  BY DEF BookStep
<1>2. LedgerGrows /\ OrdersGrow /\ \A r : NoNewOrder(r)
  BY StandingStill
<1>3. TicketsAreOrders'
  BY DEF SoundState, VerdictInv, TicketsAreOrders
<1>4. Grounded(k)'
  <2>1. \A r, b : Known(r, b)' <=> Known(r, b)
    BY DEF Known, WasFilled, OrdersOf
  <2>2. OrdersOf(k.req)' = OrdersOf(k.req)
    BY DEF OrdersOf
  <2>3. QED
    BY <2>1, <2>2 DEF Grounded, Recorded, Claims, Answered
<1>5. \A u \in Threads \ {t} : Claims(call[u]) => ledger'[call[u].req].status = "RESERVED"
  BY DEF SoundState, VerdictInv, CallsAreGrounded, Grounded
<1>6. Claims(k) => \A u \in Threads \ {t} : call[u].pc = "settle" => call[u].req # k.req
  BY DEF SoundState, VerdictInv, SettledIsUnclaimed
<1>7. QED
  BY <1>1, <1>2, <1>3, <1>4, <1>5, <1>6, ThreadStep

\* Where the end of a call and a step to another place lead.
LEMMA GotoIs ==
  ASSUME SoundState, NEW t \in Threads, NEW s, Goto(t, s)
  PROVE  \E k : /\ call' = [call EXCEPT ![t] = k]
               /\ k.pc = s /\ k.req = call[t].req
               /\ k.ticket = call[t].ticket /\ k.executed = call[t].executed
<1>1. call[t] \in Call /\ call = [u \in Threads |-> call[u]]
  BY DEF SoundState, RealInv, CallsSound, CallSound
<1> DEFINE k == [call[t] EXCEPT !.pc = s]
<1>2. call' = [call EXCEPT ![t] = k]
  BY <1>1 DEF Goto
<1>3. /\ k.pc = s /\ k.req = call[t].req
      /\ k.ticket = call[t].ticket /\ k.executed = call[t].executed
  BY <1>1 DEF Call
<1>4. QED
  BY <1>2, <1>3

\* The places at which a call relies on nothing.
RestSteps == {"idle", "prepare", "lookup", "consume", "status", "reserve", "confirm",
              "putRejected", "putUnknown", "conclude"}

LEMMA RestIsGrounded ==
  \A k : k.pc \in RestSteps => Grounded(k) /\ ~Claims(k) /\ k.pc # "settle"
BY DEF RestSteps, Grounded, Claims, Answered

\* A quiet step to such a place.
LEMMA QuietRest ==
  ASSUME SoundState, QuietBooks, NEW t \in Threads,
         Finish(t) \/ \E s \in RestSteps : Goto(t, s)
  PROVE  SoundStep
<1>1. PICK k : call' = [call EXCEPT ![t] = k] /\ k.pc \in RestSteps
  BY GotoIs, IdleIsSound DEF Finish, RestSteps
<1>2. QED
  BY <1>1, RestIsGrounded, QuietStep

\* The steps that write neither the ledger nor an order, and after which a call
\* relies on nothing more than before.
LEMMA QuietStepsKeepVerdicts ==
  ASSUME SoundState, NEW t \in Threads,
         \/ LookUp(t) \/ Consume(t) \/ CheckStatus(t) \/ RecordStart(t) \/ RecordAcceptance(t)
         \/ PutRejected(t) \/ PutUnknown(t) \/ ConcludeLifecycle(t)
         \/ \E c \in Confirmations : Prepare(t, c)
  PROVE  SoundStep
<1>1. CASE \/ LookUp(t) \/ Consume(t) \/ CheckStatus(t) \/ \E c \in Confirmations : Prepare(t, c)
  <2>1. QuietBooks
    BY <1>1 DEF LookUp, Consume, CheckStatus, Prepare, QuietBooks, ReadOnly, stores
  <2>2. Finish(t) \/ \E s \in RestSteps : Goto(t, s)
    BY <1>1 DEF LookUp, Consume, CheckStatus, Prepare, RestSteps
  <2>3. QED
    BY <2>1, <2>2, QuietRest
<1>2. CASE RecordAcceptance(t) \/ PutRejected(t) \/ PutUnknown(t) \/ ConcludeLifecycle(t)
  <2>1. Finish(t)
    BY <1>2 DEF RecordAcceptance, PutRejected, PutUnknown, ConcludeLifecycle, RecordOutcome,
                LifecycleStep, Proceed
  <2>2. QuietBooks
    BY <1>2 DEF RecordAcceptance, PutRejected, PutUnknown, ConcludeLifecycle, RecordOutcome,
                LifecycleStep, QuietBooks, ReadOnly, stores, LifecycleWritten, LifecycleWriteFails
  <2>3. QED
    BY <2>1, <2>2, QuietRest
<1>3. CASE RecordStart(t)
  <2>1. QuietBooks /\ call[t].pc = "start"
    BY <1>3 DEF RecordStart, At, LifecycleStep, QuietBooks, ReadOnly, stores, LifecycleWritten,
                LifecycleWriteFails
  <2>2. CASE Goto(t, "dispatch")
    <3>1. PICK k : call' = [call EXCEPT ![t] = k] /\ k.pc = "dispatch" /\ k.req = call[t].req
      BY <2>2, GotoIs
    <3>2. Grounded(call[t])
      BY DEF SoundState, VerdictInv, CallsAreGrounded
    <3>3. Grounded(k) /\ Claims(call[t])
      BY <2>1, <3>1, <3>2 DEF Grounded, Claims, Answered
    <3>4. QED
      BY <2>1, <3>1, <3>3, QuietStep
  <2>3. QED
    BY <1>3, <2>1, <2>2, QuietRest DEF RecordStart, LifecycleStep, Proceed
<1>4. QED
  BY <1>1, <1>2, <1>3

\* Calls that begin.
LEMMA StartsKeepVerdicts ==
  ASSUME SoundState, NEW t \in Threads,
         \/ \E r \in Requests : StartPrepare(t, r)
         \/ \E c \in Confirmations, r \in Requests, b \in BOOLEAN : StartConfirm(t, c, r, b)
  PROVE  SoundStep
<1>1. QuietBooks
  BY DEF StartPrepare, StartConfirm, QuietBooks, ReadOnly, stores
<1>2. \E k : call' = [call EXCEPT ![t] = k] /\ k.pc \in RestSteps
  <2>1. ASSUME NEW r \in Requests, StartPrepare(t, r)
        PROVE  \E k : call' = [call EXCEPT ![t] = k] /\ k.pc \in RestSteps
    <3> DEFINE k == [Idle EXCEPT !.pc = "prepare", !.req = r]
    <3>1. call' = [call EXCEPT ![t] = k] /\ k.pc \in RestSteps
      BY <2>1 DEF StartPrepare, Idle, RestSteps
    <3>2. QED
      BY <3>1
  <2>2. ASSUME NEW c \in Confirmations, NEW r \in Requests, NEW b \in BOOLEAN,
               StartConfirm(t, c, r, b)
        PROVE  \E k : call' = [call EXCEPT ![t] = k] /\ k.pc \in RestSteps
    <3> DEFINE k == [Idle EXCEPT !.pc = "lookup", !.conf = c, !.req = r, !.ready = b]
    <3>1. call' = [call EXCEPT ![t] = k] /\ k.pc \in RestSteps
      BY <2>2 DEF StartConfirm, Idle, RestSteps
    <3>2. QED
      BY <3>1
  <2>3. QED
    BY <2>1, <2>2
<1>3. PICK k : call' = [call EXCEPT ![t] = k] /\ k.pc \in RestSteps
  BY <1>2
<1>4. QED
  BY <1>1, <1>3, RestIsGrounded, QuietStep

\* The ticket the ledger has for a request is one of its orders.
LEMMA StartCloseKeepsVerdicts ==
  ASSUME SoundState, NEW t \in Threads, NEW r \in Requests, StartClose(t, r)
  PROVE  SoundStep
<1> DEFINE k == [Idle EXCEPT !.pc = "close", !.req = r, !.closing = TRUE,
                             !.ticket = ledger[r].ticket, !.executed = TRUE]
<1>1. QuietBooks /\ call' = [call EXCEPT ![t] = k]
  BY DEF StartClose, QuietBooks, ReadOnly, stores
<1>2. k.pc = "close" /\ k.req = r /\ k.ticket = ledger[r].ticket /\ k.executed = TRUE
  BY DEF Idle
<1>3. ledger[r].ticket \in Tickets /\ orders[ledger[r].ticket].req = r
  BY SoundTypes DEF StartClose, SoundState, VerdictInv, TicketsAreOrders
<1> HIDE DEF k
<1>4. Grounded(k) /\ ~Claims(k)
  BY <1>2, <1>3 DEF Grounded, Claims, Answered
<1>5. QED
  BY <1>1, <1>2, <1>4, QuietStep

\* What the operator declares is so, and nobody is about to send the order.
LEMMA StartReconcileKeepsVerdicts ==
  ASSUME SoundState, NEW t \in Threads, NEW r \in Requests, NEW b \in BOOLEAN,
         StartReconcile(t, r, b)
  PROVE  SoundStep
<1> DEFINE k == [Idle EXCEPT !.pc = "settle", !.req = r, !.executed = b]
<1>1. QuietBooks /\ call' = [call EXCEPT ![t] = k]
  BY DEF StartReconcile, QuietBooks, ReadOnly, stores
<1>2. k.pc = "settle" /\ k.req = r /\ k.executed = b
  BY DEF Idle
<1>3. r \in Recorded(ledger) /\ Known(r, b)
  BY DEF StartReconcile, Declared, Recorded, Known
<1>4. \A u \in Threads : Claims(call[u]) => call[u].req # r
  BY DEF StartReconcile, Declared, Claims, ConfirmSteps
<1> HIDE DEF k
<1>5. Grounded(k) /\ ~Claims(k)
  BY <1>2, <1>3 DEF Grounded, Claims, Answered
<1>6. QED
  BY <1>1, <1>2, <1>4, <1>5, QuietStep

\* A truthful write at a request that nobody else claims.
LEMMA WriteStep ==
  ASSUME SoundState, NEW t \in Threads, NEW r \in Requests, NEW new, TruthfulWrite(new),
         \A q \in Requests \ {r} : new[q] = ledger[q],
         \/ new[r].ticket \in {NoTicket, ledger[r].ticket}
         \/ orders[new[r].ticket].req = r,
         \A u \in Threads \ {t} : Claims(call[u]) => call[u].req # r,
         NEW k, call' = [call EXCEPT ![t] = k], Grounded(k)', k.pc # "settle",
         Claims(k) => \A u \in Threads \ {t} : call[u].pc = "settle" => call[u].req # k.req
  PROVE  SoundStep
<1>1. BookStep
  BY DEF BookStep
<1>2. LedgerGrows /\ OrdersGrow /\ \A q : NoNewOrder(q)
  BY WritesGrow, SoundTypes
<1>3. ledger' \in {ledger, new} /\ UNCHANGED <<orders, dispatched>>
  BY DEF TruthfulWrite, LedgerWritten, LedgerWriteFails
<1>4. TicketsAreOrders'
  BY <1>3 DEF SoundState, VerdictInv, TicketsAreOrders
<1>5. \A u \in Threads \ {t} : Claims(call[u]) => ledger'[call[u].req].status = "RESERVED"
  <2> SUFFICES ASSUME NEW u \in Threads \ {t}, Claims(call[u])
               PROVE  ledger'[call[u].req].status = "RESERVED"
    OBVIOUS
  <2>1. call[u].req \in Requests \ {r} /\ ledger[call[u].req].status = "RESERVED"
    BY Served DEF SoundState, VerdictInv, CallsAreGrounded, Grounded, Claims
  <2>2. QED
    BY <1>3, <2>1
<1>6. QED
  BY <1>1, <1>2, <1>3, <1>4, <1>5, ThreadStep

\* A call that has recorded what it knew, or failed to.
LEMMA RecordStep ==
  ASSUME SoundState, NEW t \in Threads, call[t].req \in Requests, NEW new,
         UNCHANGED <<orders, dispatched>>, Truthful(new),
         LedgerWritten(new) \/ LedgerWriteFails(new),
         \A q \in Requests \ {call[t].req} : new[q] = ledger[q],
         \/ new[call[t].req].ticket \in {NoTicket, ledger[call[t].req].ticket}
         \/ orders[new[call[t].req].ticket].req = call[t].req,
         \A u \in Threads \ {t} : Claims(call[u]) => call[u].req # call[t].req,
         NEW s \in RestSteps \cup {"accept"}, s = "accept" => dispatched[call[t].req] > 0,
         Finish(t) \/ Goto(t, s)
  PROVE  SoundStep
<1>1. TruthfulWrite(new)
  BY DEF TruthfulWrite
<1>2. PICK k : /\ call' = [call EXCEPT ![t] = k]
               /\ k.pc \in RestSteps \/ (k.pc = "accept" /\ k.req = call[t].req /\ s = "accept")
  BY GotoIs, IdleIsSound DEF Finish, RestSteps
<1>3. Grounded(k)' /\ ~Claims(k) /\ k.pc # "settle"
  BY <1>2 DEF Grounded, Claims, Answered, RestSteps
<1>4. QED
  BY <1>1, <1>2, <1>3, WriteStep

\* The same, with the cases of a ledger step.
LEMMA LedgerStepKeepsVerdicts ==
  ASSUME SoundState, NEW t \in Threads, call[t].req \in Requests, NEW allowed, NEW new,
         UNCHANGED <<orders, dispatched>>, allowed => Truthful(new),
         \A q \in Requests \ {call[t].req} : new[q] = ledger[q],
         \/ new[call[t].req].ticket \in {NoTicket, ledger[call[t].req].ticket}
         \/ orders[new[call[t].req].ticket].req = call[t].req,
         \A u \in Threads \ {t} : Claims(call[u]) => call[u].req # call[t].req,
         NEW s \in (RestSteps \ {"idle"}) \cup {"accept"},
         s = "accept" => dispatched[call[t].req] > 0,
         LedgerStep(t, allowed, new, s)
  PROVE  SoundStep
<1>1. CASE ReadOnly /\ Finish(t)
  BY <1>1, QuietRest DEF QuietBooks, ReadOnly, stores
<1>2. CASE allowed /\ LedgerWritten(new) /\ Proceed(t, s)
  <2>1. Goto(t, s)
    BY <1>2 DEF Proceed
  <2>2. QED
    BY <1>2, <2>1, RecordStep
<1>3. CASE allowed /\ LedgerWriteFails(new) /\ Finish(t)
  BY <1>3, RecordStep
<1>4. QED
  BY <1>1, <1>2, <1>3 DEF LedgerStep

\* What a call does to the record of its request.
LEMMA RecordsKeepVerdicts ==
  ASSUME SoundState, NEW t \in Threads,
         \/ BindExternalId(t) \/ MarkAccepted(t) \/ MarkRejected(t) \/ MarkUnknown(t)
         \/ SettleLedger(t)
  PROVE  SoundStep
<1> DEFINE r == call[t].req
           x == call[t].ticket
           b == call[t].executed
<1>1. /\ r \in Requests /\ x \in Tickets \cup {NoTicket} /\ b \in BOOLEAN
      /\ Answered(call[t]) \/ call[t].pc = "settle"
  BY Served
     DEF SoundState, BindExternalId, MarkAccepted, MarkRejected, MarkUnknown, SettleLedger, Mark,
         At, Call, Answered
<1>2. /\ Grounded(call[t]) /\ StoreTypes /\ NoCycle \in Cycles \cup {NoCycle}
      /\ ledger \in [Requests -> ExecutionLedgerRecord]
  BY SoundTypes DEF SoundState, VerdictInv, CallsAreGrounded
<1>3. \A u \in Threads \ {t} : Claims(call[u]) => call[u].req # r
  <2>1. \A u \in Threads : Claims(call[u]) => dispatched[call[u].req] = 0
    BY Served DEF SoundState, CallSound
  <2>2. Answered(call[t]) => dispatched[r] > 0
    BY <1>2 DEF Grounded
  <2>3. QED
    BY <1>1, <2>1, <2>2 DEF SoundState, VerdictInv, SettledIsUnclaimed
<1>4. \A q \in Requests \ {r} : \A s :
        /\ Bound(ledger, r, x)[q] = ledger[q] /\ Marked(ledger, r, s)[q] = ledger[q]
        /\ Reconciled(ledger, r, b)[q] = ledger[q]
  BY DEF Bound, Marked, Reconciled
<1>5. /\ Bound(ledger, r, x)[r].ticket \in {x, ledger[r].ticket}
      /\ \A s : Marked(ledger, r, s)[r].ticket = ledger[r].ticket
      /\ Reconciled(ledger, r, b)[r].ticket = ledger[r].ticket
  BY <1>1, <1>2 DEF Bound, Marked, Reconciled, ExecutionLedgerRecord
<1>6. UNCHANGED <<orders, dispatched>>
  BY DEF BindExternalId, MarkAccepted, MarkRejected, MarkUnknown, SettleLedger, Mark
<1>7. /\ CanBind(ledger, r, x) => Truthful(Bound(ledger, r, x))
      /\ CanMark(ledger, r) => /\ Truthful(Marked(ledger, r, "ACCEPTED"))
                               /\ Truthful(Marked(ledger, r, "UNKNOWN"))
      /\ CanMark(ledger, r) /\ OrdersOf(r) = {} => Truthful(Marked(ledger, r, "REJECTED"))
      /\ CanReconcile(ledger, r) /\ Known(r, b) => Truthful(Reconciled(ledger, r, b))
  BY SMTT(20), <1>1, <1>2, TruthfulOperations, KnownIsTrue
<1>8. CASE BindExternalId(t)
  <2>1. /\ LedgerStep(t, CanBind(ledger, r, x), Bound(ledger, r, x), "accept")
        /\ call[t].pc = "bind"
    BY <1>8 DEF BindExternalId, At
  <2>2. orders[x].req = r /\ dispatched[r] > 0
    BY <1>2, <2>1 DEF Grounded, Answered
  <2>3. \/ Bound(ledger, r, x)[r].ticket \in {NoTicket, ledger[r].ticket}
        \/ orders[Bound(ledger, r, x)[r].ticket].req = r
    BY <1>5, <2>2
  <2> HIDE DEF r, x, b
  <2>4. QED
    BY <1>1, <1>3, <1>4, <1>6, <1>7, <2>1, <2>2, <2>3, LedgerStepKeepsVerdicts DEF r
<1>9. ASSUME NEW s \in {"ACCEPTED", "REJECTED", "UNKNOWN"}, NEW here,
             NEW next \in {"confirm", "putRejected", "putUnknown"}, Mark(t, here, s, next),
             s = "REJECTED" => here = "markRejected"
      PROVE  SoundStep
  <2>1. /\ LedgerStep(t, CanMark(ledger, r), Marked(ledger, r, s), next)
        /\ call[t].pc = here
    BY <1>9 DEF Mark, At
  <2>2. CanMark(ledger, r) => Truthful(Marked(ledger, r, s))
    BY <1>2, <1>7, <1>9, <2>1 DEF Grounded
  <2>3. Marked(ledger, r, s)[r].ticket \in {NoTicket, ledger[r].ticket}
    BY <1>5
  <2>4. next \in RestSteps \ {"idle"} /\ next # "accept"
    BY DEF RestSteps
  <2> HIDE DEF r, x, b
  <2>5. QED
    BY <1>1, <1>3, <1>4, <1>6, <2>1, <2>2, <2>3, <2>4, LedgerStepKeepsVerdicts DEF r
<1>10. CASE SettleLedger(t)
  <2>1. /\ LedgerStep(t, CanReconcile(ledger, r), Reconciled(ledger, r, b), "conclude")
        /\ call[t].pc = "settle"
    BY <1>10 DEF SettleLedger, At
  <2>2. CanReconcile(ledger, r) => Truthful(Reconciled(ledger, r, b))
    BY <1>2, <1>7, <2>1 DEF Grounded
  <2>3. Reconciled(ledger, r, b)[r].ticket \in {NoTicket, ledger[r].ticket}
    BY <1>5
  <2>4. "conclude" \in RestSteps \ {"idle"}
    BY DEF RestSteps
  <2> HIDE DEF r, x, b
  <2>5. QED
    BY <1>1, <1>3, <1>4, <1>6, <2>1, <2>2, <2>3, <2>4, LedgerStepKeepsVerdicts DEF r
<1> HIDE DEF r, x, b
<1>11. MarkAccepted(t) => SoundStep
  BY <1>9 DEF MarkAccepted
<1>12. MarkRejected(t) => SoundStep
  BY <1>9 DEF MarkRejected
<1>13. MarkUnknown(t) => SoundStep
  BY <1>9 DEF MarkUnknown
<1>14. QED
  BY <1>8, <1>10, <1>11, <1>12, <1>13

\* A request that is reserved was not there before, so nobody is settling it.
LEMMA ReserveKeepsVerdicts ==
  ASSUME SoundState, NEW t \in Threads, Reserve(t)
  PROVE  SoundStep
<1> DEFINE r == call[t].req
           new == Reserved(ledger, r, NoCycle)
<1>1. r \in Requests /\ StoreTypes /\ ledger \in [Requests -> ExecutionLedgerRecord]
  BY Served, SoundTypes DEF SoundState, Reserve, At
<1>2. UNCHANGED <<orders, dispatched>>
  BY DEF Reserve
<1>3. CASE ReadOnly /\ Finish(t)
  BY <1>2, <1>3, QuietRest DEF QuietBooks, ReadOnly, stores
<1>4. CASE /\ CanReserve(ledger, r, NoCycle)
           /\ \/ LedgerWritten(new) /\ Goto(t, "start")
              \/ LedgerWriteFails(new) /\ Finish(t)
  <2>1. TruthfulWrite(new)
    BY <1>1, <1>2, <1>4, TruthfulOperations DEF TruthfulWrite
  <2>2. r \notin Recorded(ledger)
    BY <1>4 DEF CanReserve
  <2>3. \A u \in Threads : Claims(call[u]) \/ call[u].pc = "settle" => call[u].req # r
    BY <2>2, Served DEF SoundState, VerdictInv, CallsAreGrounded, Grounded, CallSound
  <2>4. /\ \A q \in Requests \ {r} : new[q] = ledger[q]
        /\ new[r].ticket = NoTicket /\ new[r].status = "RESERVED"
    BY <1>1 DEF Reserved
  <2>5. PICK k : /\ call' = [call EXCEPT ![t] = k]
                 /\ k.pc = "start" => k.req = r /\ LedgerWritten(new)
                 /\ k.pc \in {"start", "idle"}
    BY <1>4, GotoIs, IdleIsSound DEF Finish
  <2>6. Grounded(k)'
    BY <2>4, <2>5 DEF Grounded, Claims, Answered, LedgerWritten
  <2> HIDE DEF r, new
  <2>7. \A u \in Threads \ {t} : Claims(call[u]) => call[u].req # r
    BY <2>3
  <2>8. Claims(k) => \A u \in Threads \ {t} : call[u].pc = "settle" => call[u].req # k.req
    BY <2>3, <2>5 DEF Claims
  <2>9. new[r].ticket \in {NoTicket, ledger[r].ticket} /\ k.pc # "settle"
    BY <2>4, <2>5
  <2>10. QED
    BY <1>1, <2>1, <2>4, <2>5, <2>6, <2>7, <2>8, <2>9, WriteStep
<1>5. Proceed(t, "start") => Goto(t, "start")
  BY DEF Proceed
<1>6. LedgerStep(t, CanReserve(ledger, r, NoCycle), new, "start")
  BY DEF Reserve
<1> HIDE DEF r, new
<1>7. QED
  BY <1>3, <1>4, <1>5, <1>6 DEF LedgerStep

\* The adapter is called for a reserved request whose order was never sent, and
\* it only calls refused what left no order.
LEMMA DispatchKeepsVerdicts ==
  ASSUME SoundState, Faithful, NEW t \in Threads, Dispatch(t)
  PROVE  SoundStep
<1> DEFINE r == call[t].req
<1>1. /\ r \in Requests /\ call[t] \in Call /\ call = [u \in Threads |-> call[u]]
      /\ Claims(call[t]) /\ CallSound(call[t]) /\ Grounded(call[t])
  BY Served DEF Dispatch, At, SoundState, Claims, VerdictInv, CallsAreGrounded, RealInv, CallsSound
<1>2. ledgerSaved /\ ledger[r].status = "RESERVED" /\ dispatched[r] = 0
  BY <1>1 DEF CallSound, Grounded
<1>3. UNCHANGED <<ledger, ledgerSaved>> /\ dispatched' = [dispatched EXCEPT ![r] = @ + 1]
  BY DEF Dispatch, ReadOnly, stores
<1>4. \/ NoOrder
      \/ \E x \in Tickets, s \in {"working", "open"} : NewOrder(x, r, NoCycle, s)
  BY DEF Dispatch
<1>5. ExecutorCall(r)
  BY <1>2, <1>3, <1>4 DEF ExecutorCall
<1>6. LedgerGrows /\ OrdersGrow /\ \A q \in Requests \ {r} : NoNewOrder(q)
  BY <1>1, <1>5, CallsGrow, SoundTypes
<1>7. /\ dispatched'[r] > 0
      /\ \A q \in Requests : dispatched[q] > 0 => dispatched'[q] > 0
  BY <1>1, <1>2, <1>3, SoundTypes DEF OrderTypes
<1>8. \E k : /\ call' = [call EXCEPT ![t] = k] /\ k.req = r
             /\ \/ k.pc = "markUnknown"
                \/ k.pc = "markRejected" /\ NoOrder
                \/ k.pc = "bind" /\ k.ticket \in Tickets /\ orders'[k.ticket].req = r
  <2>1. ASSUME NEW s, Goto(t, s)
        PROVE  \E k : call' = [call EXCEPT ![t] = k] /\ k.req = r /\ k.pc = s
    BY <2>1, GotoIs
  <2>2. ASSUME NEW x \in Tickets, NEW s \in {"working", "open"}, NewOrder(x, r, NoCycle, s),
               call' = [call EXCEPT ![t].pc = "bind", ![t].ticket = x]
        PROVE  \E k : /\ call' = [call EXCEPT ![t] = k] /\ k.req = r /\ k.pc = "bind"
                      /\ k.ticket \in Tickets /\ orders'[k.ticket].req = r
    <3> DEFINE k == [call[t] EXCEPT !.pc = "bind", !.ticket = x]
    <3>1. call' = [call EXCEPT ![t] = k] /\ k.req = r /\ k.pc = "bind" /\ k.ticket = x
      BY <1>1, <2>2 DEF Call
    <3>2. orders'[x].req = r
      BY <2>2, SoundTypes DEF NewOrder, OrderTypes
    <3>3. QED
      BY <3>1, <3>2
  <2>3. QED
    BY <2>1, <2>2 DEF Dispatch, Faithful
<1>9. PICK k : /\ call' = [call EXCEPT ![t] = k] /\ k.req = r
               /\ \/ k.pc = "markUnknown"
                  \/ k.pc = "markRejected" /\ NoOrder
                  \/ k.pc = "bind" /\ k.ticket \in Tickets /\ orders'[k.ticket].req = r
  BY <1>8
<1>10. Grounded(k)'
  <2>1. OrdersOf(r) = {}
    BY <1>1, <1>2 DEF OrdersOf, SoundState, VerdictInv, BooksInv, OrdersAreOwned
  <2>2. k.pc = "markRejected" => (OrdersOf(k.req) = {})'
    BY <1>9, <2>1 DEF NoOrder, OrdersOf
  <2>3. dispatched'[k.req] > 0 /\ (k.pc = "bind" => k.ticket \in Tickets /\ orders'[k.ticket].req = k.req)
    BY <1>7, <1>9
  <2> HIDE DEF r
  <2>4. k.pc \in {"bind", "markRejected", "markUnknown"}
    BY <1>9
  <2>5. QED
    BY <2>2, <2>3, <2>4 DEF Grounded, Claims, Answered
<1>11. TicketsAreOrders'
  <2> SUFFICES ASSUME NEW q \in Requests, ledger[q].ticket # NoTicket
               PROVE  orders'[ledger[q].ticket].req = q
    BY <1>3 DEF TicketsAreOrders
  <2>1. orders[ledger[q].ticket].req = q /\ ledger[q].ticket \in Tickets
    BY SoundTypes DEF SoundState, VerdictInv, TicketsAreOrders
  <2>2. QED
    BY <1>6, <2>1 DEF OrdersGrow
<1>12. \A u \in Threads \ {t} : Claims(call[u]) => ledger'[call[u].req].status = "RESERVED"
  BY <1>3 DEF SoundState, VerdictInv, CallsAreGrounded, Grounded
<1>13. \A u \in Threads \ {t} :
         call[u].pc \in {"markRejected", "settle"} => NoNewOrder(call[u].req)
  <2> SUFFICES ASSUME NEW u \in Threads \ {t}, call[u].pc \in {"markRejected", "settle"}
               PROVE  NoNewOrder(call[u].req)
    OBVIOUS
  <2>1. call[u].req \in Requests /\ Grounded(call[u])
    BY Served DEF SoundState, VerdictInv, CallsAreGrounded
  <2>2. call[u].req # r
    BY <1>1, <1>2, <2>1 DEF Grounded, Answered, SoundState, VerdictInv, SettledIsUnclaimed
  <2>3. QED
    BY <1>6, <2>1, <2>2
<1>14. BookStep
  BY <1>1, <1>5 DEF BookStep
<1>15. k.pc # "settle" /\ ~Claims(k)
  BY <1>9 DEF Claims
<1> HIDE DEF r
<1>16. QED
  BY <1>6, <1>7, <1>9, <1>10, <1>11, <1>12, <1>13, <1>14, <1>15, ThreadStep

\* An order that moves at the broker keeps its request, and what it ended as.
LEMMA MoveStep ==
  ASSUME SoundState, UNCHANGED <<ledger, ledgerSaved, dispatched>>, NEW x \in Tickets,
         EndedNow(x) \/ ClosedNow(x)
  PROVE  /\ BookStep /\ LedgerGrows /\ OrdersGrow /\ TicketsAreOrders'
         /\ \A r : NoNewOrder(r)
         /\ \A u \in Threads : Claims(call[u]) => ledger'[call[u].req].status = "RESERVED"
<1>1. OrderMoves(x)
  BY DEF OrderMoves
<1>2. BookStep
  BY <1>1 DEF BookStep
<1>3. LedgerGrows /\ OrdersGrow /\ \A r : NoNewOrder(r)
  BY <1>1, MovesGrow, SoundTypes
<1>4. TicketsAreOrders'
  <2> SUFFICES ASSUME NEW q \in Requests, ledger[q].ticket # NoTicket
               PROVE  orders'[ledger[q].ticket].req = q
    BY DEF TicketsAreOrders
  <2>1. orders[ledger[q].ticket].req = q /\ ledger[q].ticket \in Tickets
    BY SoundTypes DEF SoundState, VerdictInv, TicketsAreOrders
  <2>2. QED
    BY <1>3, <2>1 DEF OrdersGrow
<1>5. \A u \in Threads : Claims(call[u]) => ledger'[call[u].req].status = "RESERVED"
  BY DEF SoundState, VerdictInv, CallsAreGrounded, Grounded
<1>6. QED
  BY <1>2, <1>3, <1>4, <1>5

\* A position that was closed had been filled, whatever the adapter reports.
LEMMA CloseKeepsVerdicts ==
  ASSUME SoundState, NEW t \in Threads, ClosePosition(t)
  PROVE  SoundStep
<1> DEFINE x == call[t].ticket
           r == call[t].req
<1>1. UNCHANGED <<ledger, ledgerSaved, dispatched>>
  BY DEF ClosePosition, ReadOnly, stores
<1>2. r \in Requests /\ x \in Tickets /\ orders[x].req = r /\ call[t].executed = TRUE
  BY Served DEF SoundState, VerdictInv, CallsAreGrounded, Grounded, ClosePosition, At, Call
<1>3. CASE NoOrder /\ Finish(t)
  BY <1>1, <1>3, QuietRest DEF QuietBooks, NoOrder
<1>4. CASE ClosedNow(x) /\ (Goto(t, "settle") \/ Finish(t))
  <2>1. PICK k : /\ call' = [call EXCEPT ![t] = k] /\ k.pc \in {"settle", "idle"}
                 /\ k.pc = "settle" => k.req = r /\ k.executed = TRUE
    BY <1>2, <1>4, GotoIs, IdleIsSound DEF Finish
  <2>2. /\ BookStep /\ LedgerGrows /\ OrdersGrow /\ TicketsAreOrders'
        /\ \A q : NoNewOrder(q)
        /\ \A u \in Threads : Claims(call[u]) => ledger'[call[u].req].status = "RESERVED"
    BY <1>1, <1>2, <1>4, MoveStep
  <2>3. r \in Recorded(ledger) /\ \A u \in Threads : Claims(call[u]) => call[u].req # r
    BY <1>2, OrderedIsUnclaimed
  <2>4. ASSUME NEW q, q = r PROVE Known(q, TRUE)' /\ q \in Recorded(ledger')
    <3>1. orders'[x].state = "closed" /\ \A y \in Tickets : orders'[y].req = orders[y].req
      BY <1>2, <1>4, SoundTypes DEF ClosedNow, OrderTypes, Order
    <3>2. OrdersOf(call[t].req) = {x}
      BY <1>2 DEF OrdersOf, SoundState, VerdictInv, BooksInv, OrdersAreUnique
    <3>3. OrdersOf(q)' = {x}
      BY <2>4, <3>1, <3>2 DEF OrdersOf
    <3>4. Known(q, TRUE)'
      BY <3>1, <3>3 DEF Known, WasFilled, Filled
    <3>5. q \in Recorded(ledger')
      BY <1>1, <2>3, <2>4
    <3>6. QED
      BY <3>4, <3>5
  <2>5. k.pc = "settle" => k.req \in Recorded(ledger') /\ Known(k.req, k.executed)'
    <3> SUFFICES ASSUME k.pc = "settle"
                 PROVE  k.req \in Recorded(ledger') /\ Known(k.req, k.executed)'
      OBVIOUS
    <3>1. PICK q : q = k.req
      OBVIOUS
    <3>2. q = r /\ k.req = q /\ k.executed = TRUE
      BY <2>1, <3>1
    <3>3. Known(q, TRUE)' /\ q \in Recorded(ledger')
      BY <2>4, <3>2
    <3>4. QED
      BY <3>2, <3>3 DEF Known, WasFilled, OrdersOf
  <2>6. Grounded(k)' /\ ~Claims(k)
    BY <2>1, <2>5 DEF Grounded, Claims, Answered
  <2>7. k.pc = "settle" => \A u \in Threads \ {t} : Claims(call[u]) => call[u].req # k.req
    BY <2>1, <2>3
  <2> HIDE DEF x, r
  <2>8. QED
    BY <1>1, <2>1, <2>2, <2>6, <2>7, ThreadStep
<1>5. QED
  BY <1>3, <1>4 DEF ClosePosition

LEMMA BrokerKeepsVerdicts ==
  ASSUME SoundState, NEW x \in Tickets, BrokerMoves(x)
  PROVE  SoundStep
<1>1. UNCHANGED <<ledger, ledgerSaved, dispatched, call>> /\ (EndedNow(x) \/ ClosedNow(x))
  BY DEF BrokerMoves, stores
<1>2. /\ BookStep /\ LedgerGrows /\ OrdersGrow /\ TicketsAreOrders'
      /\ \A r : NoNewOrder(r)
      /\ \A u \in Threads : Claims(call[u]) => ledger'[call[u].req].status = "RESERVED"
  BY <1>1, MoveStep
<1>3. BooksInv'
  BY <1>2, StepsKeepBooks, SoundTypes
<1>4. ASSUME NEW u \in Threads PROVE Grounded(call[u])'
  <2>1. PICK m : m = call[u]
    OBVIOUS
  <2>2. Grounded(m)' /\ call'[u] = m
    BY <1>1, <1>2, <2>1, OthersStayGrounded
  <2>3. QED
    BY <2>2 DEF Grounded, Claims, Answered
<1>5. SettledIsUnclaimed'
  BY <1>1 DEF SoundState, VerdictInv, SettledIsUnclaimed, Claims
<1>6. QED
  BY <1>2, <1>3, <1>4, <1>5 DEF SoundStep, VerdictInv, CallsAreGrounded

\* A crash leaves no call behind, and takes no order's record.
LEMMA CrashKeepsVerdicts == ASSUME SoundState, Crash PROVE SoundStep
<1>1. Restart
  BY DEF Crash, Restart
<1>2. BookStep /\ BooksInv'
  BY <1>1, StepsKeepBooks, SoundTypes DEF BookStep
<1>3. TicketsAreOrders'
  BY DEF Crash, Reloaded, EmptyLedger, AbsentRecord, SoundState, VerdictInv, TicketsAreOrders
<1>4. \A t \in Threads : call'[t] = Idle
  BY DEF Crash
<1>5. CallsAreGrounded' /\ SettledIsUnclaimed'
  BY <1>4, IdleIsSound DEF CallsAreGrounded, Grounded, SettledIsUnclaimed, Claims, Answered
<1>6. QED
  BY <1>2, <1>3, <1>5 DEF SoundStep, VerdictInv

LEMMA NextIsSound == SoundState /\ Faithful /\ [Next]_vars => SoundStep
<1> SUFFICES ASSUME SoundState, Faithful, [Next]_vars PROVE SoundStep
  OBVIOUS
<1>1. CASE UNCHANGED vars \/ \E c \in Confirmations : Expire(c)
  <2>1. UNCHANGED <<ledger, ledgerSaved, orders, dispatched, call>>
    BY <1>1 DEF vars, Expire, ReadOnly, stores
  <2>2. BookStep /\ BooksInv'
    BY <2>1, StepsKeepBooks, SoundTypes DEF BookStep
  <2>3. CallsAreGrounded' /\ SettledIsUnclaimed' /\ TicketsAreOrders'
    BY <2>1 DEF SoundState, VerdictInv, CallsAreGrounded, SettledIsUnclaimed, TicketsAreOrders,
                Grounded, Claims, Answered, Known, WasFilled, OrdersOf, Recorded
  <2>4. QED
    BY <2>2, <2>3 DEF SoundStep, VerdictInv
<1>2. ASSUME NEW t \in Threads, ConfirmStep(t) PROVE SoundStep
  BY <1>2, QuietStepsKeepVerdicts, ReserveKeepsVerdicts, DispatchKeepsVerdicts,
     RecordsKeepVerdicts
     DEF ConfirmStep
<1>3. ASSUME NEW t \in Threads, SettleStep(t) PROVE SoundStep
  BY <1>3, QuietStepsKeepVerdicts, RecordsKeepVerdicts, CloseKeepsVerdicts DEF SettleStep
<1>4. ASSUME NEW t \in Threads,
             \/ \E r \in Requests : StartPrepare(t, r)
             \/ \E k \in Confirmations : Prepare(t, k)
             \/ \E k \in Confirmations, r \in Requests, b \in BOOLEAN : StartConfirm(t, k, r, b)
             \/ \E r \in Requests : StartClose(t, r)
             \/ \E r \in Requests, b \in BOOLEAN : StartReconcile(t, r, b)
      PROVE  SoundStep
  BY <1>4, StartsKeepVerdicts, QuietStepsKeepVerdicts, StartCloseKeepsVerdicts,
     StartReconcileKeepsVerdicts
<1>5. QED
  BY <1>1, <1>2, <1>3, <1>4, BrokerKeepsVerdicts, CrashKeepsVerdicts DEF Next

LEMMA SoundInvariance == Faithful /\ Spec => []SoundState
<1>1. Init => VerdictInv
  <2> SUFFICES ASSUME Init PROVE VerdictInv
    OBVIOUS
  <2>1. BooksInv
    BY EmptyBooks DEF Init
  <2>2. TicketsAreOrders
    BY DEF Init, NoStores, EmptyLedger, AbsentRecord, TicketsAreOrders
  <2>3. CallsAreGrounded /\ SettledIsUnclaimed
    BY IdleIsSound DEF Init, CallsAreGrounded, Grounded, SettledIsUnclaimed, Claims, Answered
  <2>4. QED
    BY <2>1, <2>2, <2>3 DEF VerdictInv
<1>2. RealInv /\ VerdictInv /\ Faithful /\ [Next]_vars => VerdictInv'
  BY NextIsSound DEF SoundState, SoundStep
<1>3. Faithful => Faithful'
  BY DEF Faithful
<1>4. QED
  BY <1>1, <1>2, <1>3, RealInvariance, PTL DEF Spec, SoundState

\* Whatever the threads, the failed writes and the restarts, what the ledger
\* finally says of a REAL request is what became of its order, as long as the
\* adapter reports no placed order as refused: see VerdictsAreTrue.
THEOREM RealTrueVerdicts == Faithful /\ Spec => []VerdictsAreTrue
BY SoundInvariance, BooksAreTrue, PTL DEF SoundState, VerdictInv

\* And then no order is left behind when a new one may be prepared: see
\* ResumeLeavesNothingBehind.
THEOREM RealNothingLeftBehind == Faithful /\ Spec => []ResumeLeavesNothingBehind
<1>1. SoundState => ResumeLeavesNothingBehind
  BY SoundTypes, BooksLeaveNothing DEF ResumeLeavesNothingBehind
<1>2. QED
  BY <1>1, SoundInvariance, PTL

\* The REAL order path implements the same abstract order desk as the DEMO one.
THEOREM RealIsAnOrderDesk == Faithful /\ Spec => ImplementsOrderDesk
<1>1. Init => Desk!DeskInit
  BY EmptyDesk DEF Init
<1>2. SoundState /\ Faithful /\ [Next]_vars => [Desk!DeskNext]_(Desk!deskVars)
  BY NextIsSound, StepsAreDeskSteps, SoundTypes DEF SoundStep
<1>3. Faithful => Faithful'
  BY DEF Faithful
<1>4. QED
  BY <1>1, <1>2, <1>3, SoundInvariance, PTL DEF Spec, ImplementsOrderDesk, Desk!DeskSpec

=============================================================================
