----------------------------- MODULE StoreProofs -----------------------------
(***************************************************************************)
(* Lemmas about the stores and the orders, for both order paths: what a    *)
(* write, good or bad, keeps of their types; that every operation the      *)
(* ledger allows advances it and gives no ticket to a second request; and  *)
(* what a step of either path must do to the ledger and the orders so that *)
(* verdicts stay true and the abstract order desk is implemented.          *)
(***************************************************************************)
EXTENDS SentOrders, TLAPS

\* What a ledger operation builds from a ledger is a ledger.
LEMMA LedgerChangesAreLedgers ==
  ASSUME NEW L \in [Requests -> ExecutionLedgerRecord], NEW r,
         NEW c \in Cycles \cup {NoCycle}, NEW x \in Tickets \cup {NoTicket},
         NEW s \in ExecutionLedgerStatus, NEW b \in BOOLEAN
  PROVE  /\ Reserved(L, r, c) \in [Requests -> ExecutionLedgerRecord]
         /\ Marked(L, r, s) \in [Requests -> ExecutionLedgerRecord]
         /\ Bound(L, r, x) \in [Requests -> ExecutionLedgerRecord]
         /\ Reconciled(L, r, b) \in [Requests -> ExecutionLedgerRecord]
BY ZenonT(30) DEF Reserved, Marked, Bound, Reconciled, ReconciledStatus,
       ExecutionLedgerRecord, LedgerStatusOrAbsent, ExecutionLedgerStatus

\* What put and reconcile build from a lifecycle is a lifecycle.
LEMMA PutIsALifecycle ==
  ASSUME NEW L \in [Requests -> LifecycleStateOrNone], NEW r,
         NEW s \in ExecutionLifecycleState
  PROVE  Put(L, r, s) \in [Requests -> LifecycleStateOrNone]
BY DEF Put, LifecycleStateOrNone, ExecutionLifecycleState

\* Writing a ledger, well or badly, keeps the types of the stores.
LEMMA LedgerWriteTypes ==
  ASSUME StoreTypes, NEW new \in [Requests -> ExecutionLedgerRecord],
         LedgerWritten(new) \/ LedgerWriteFails(new)
  PROVE  StoreTypes'
<1> USE DEF StoreTypes, LedgerWritten, LedgerWriteFails
<1>1. ledger' \in [Requests -> ExecutionLedgerRecord]
  OBVIOUS
<1>2. ledgerSaved' \in BOOLEAN
  OBVIOUS
<1>3. faults' \in Nat
  OBVIOUS
<1>4. UNCHANGED <<lifecycle, lifeSaved, checkpoint>>
  OBVIOUS
<1>5. QED
  BY <1>1, <1>2, <1>3, <1>4

\* Writing a lifecycle, well or badly, keeps the types of the stores.
LEMMA LifecycleWriteTypes ==
  ASSUME StoreTypes, NEW r, NEW new \in [Requests -> LifecycleStateOrNone],
         LifecycleWritten(new) \/ LifecycleWriteFails(r, new)
  PROVE  StoreTypes'
<1> USE DEF StoreTypes, LifecycleWritten, LifecycleWriteFails
<1>1. lifecycle' \in [Requests -> LifecycleStateOrNone]
  OBVIOUS
<1>2. lifeSaved' \subseteq Requests
  OBVIOUS
<1>3. faults' \in Nat
  OBVIOUS
<1>4. UNCHANGED <<ledger, ledgerSaved, checkpoint>>
  OBVIOUS
<1>5. QED
  BY <1>1, <1>2, <1>3, <1>4

\* So does a step that writes no store.
LEMMA ReadOnlyTypes == ASSUME StoreTypes, ReadOnly PROVE StoreTypes'
BY DEF StoreTypes, ReadOnly, stores

-----------------------------------------------------------------------------

\* Every operation the ledger allows advances it.
LEMMA OperationsAdvance ==
  ASSUME NEW L \in [Requests -> ExecutionLedgerRecord], NEW r \in Requests,
         NEW c \in Cycles \cup {NoCycle}, NEW x \in Tickets \cup {NoTicket},
         NEW s \in {"ACCEPTED", "REJECTED", "UNKNOWN"}, NEW b \in BOOLEAN
  PROVE  /\ CanReserve(L, r, c) => AdvancesTo(L, Reserved(L, r, c))
         /\ CanMark(L, r) => AdvancesTo(L, Marked(L, r, s))
         /\ CanBind(L, r, x) => AdvancesTo(L, Bound(L, r, x))
         /\ CanReconcile(L, r) => AdvancesTo(L, Reconciled(L, r, b))
         /\ AdvancesTo(L, L)
<1> USE DEF AdvancesTo, Recorded, ExecutionLedgerRecord, FinalStatus
<1>1. CanReserve(L, r, c) => AdvancesTo(L, Reserved(L, r, c))
  BY DEF CanReserve, Reserved
<1>2. CanMark(L, r) => AdvancesTo(L, Marked(L, r, s))
  BY DEF CanMark, Marked
<1>3. CanBind(L, r, x) => AdvancesTo(L, Bound(L, r, x))
  BY DEF CanBind, Bound
<1>4. CanReconcile(L, r) => AdvancesTo(L, Reconciled(L, r, b))
  BY DEF CanReconcile, Reconciled, ReconciledStatus
<1>5. AdvancesTo(L, L)
  OBVIOUS
<1>6. QED
  BY <1>1, <1>2, <1>3, <1>4, <1>5

\* What a step must do to advance the ledger the file holds.
Advance == ledgerSaved => ledgerSaved' /\ AdvancesTo(ledger, ledger')

\* A write of what an operation built advances it whether or not it succeeds.
LEMMA WritesAdvance ==
  ASSUME StoreTypes, NEW new \in [Requests -> ExecutionLedgerRecord],
         AdvancesTo(ledger, new), LedgerWritten(new) \/ LedgerWriteFails(new)
  PROVE  Advance
<1>1. AdvancesTo(ledger, ledger)
  BY DEF AdvancesTo
<1>2. QED
  BY <1>1 DEF Advance, LedgerWritten, LedgerWriteFails, StoreTypes

\* A step that leaves the ledger alone advances it, too.
LEMMA UnchangedAdvances == ASSUME UNCHANGED <<ledger, ledgerSaved>> PROVE Advance
BY DEF Advance, AdvancesTo

\* The ledger new is what an allowed operation makes of L.
Operated(L, new) ==
  \E r \in Requests :
    \/ \E c \in Cycles \cup {NoCycle} : CanReserve(L, r, c) /\ new = Reserved(L, r, c)
    \/ \E s \in {"ACCEPTED", "REJECTED", "UNKNOWN"} : CanMark(L, r) /\ new = Marked(L, r, s)
    \/ \E x \in Tickets \cup {NoTicket} : CanBind(L, r, x) /\ new = Bound(L, r, x)
    \/ \E b \in BOOLEAN : CanReconcile(L, r) /\ new = Reconciled(L, r, b)

\* An operation makes a ledger of a ledger, and advances it.
LEMMA OperatedAdvances ==
  ASSUME NEW L \in [Requests -> ExecutionLedgerRecord], NEW new, Operated(L, new)
  PROVE  new \in [Requests -> ExecutionLedgerRecord] /\ AdvancesTo(L, new)
<1> PICK r \in Requests :
      \/ \E c \in Cycles \cup {NoCycle} : CanReserve(L, r, c) /\ new = Reserved(L, r, c)
      \/ \E s \in {"ACCEPTED", "REJECTED", "UNKNOWN"} : CanMark(L, r) /\ new = Marked(L, r, s)
      \/ \E x \in Tickets \cup {NoTicket} : CanBind(L, r, x) /\ new = Bound(L, r, x)
      \/ \E b \in BOOLEAN : CanReconcile(L, r) /\ new = Reconciled(L, r, b)
  BY DEF Operated
<1> USE DEF ExecutionLedgerStatus
<1>1. ASSUME NEW c \in Cycles \cup {NoCycle}, CanReserve(L, r, c), new = Reserved(L, r, c)
      PROVE  new \in [Requests -> ExecutionLedgerRecord] /\ AdvancesTo(L, new)
  BY <1>1, LedgerChangesAreLedgers, OperationsAdvance
<1>2. ASSUME NEW s \in {"ACCEPTED", "REJECTED", "UNKNOWN"}, CanMark(L, r), new = Marked(L, r, s)
      PROVE  new \in [Requests -> ExecutionLedgerRecord] /\ AdvancesTo(L, new)
  BY <1>2, LedgerChangesAreLedgers, OperationsAdvance
<1>3. ASSUME NEW x \in Tickets \cup {NoTicket}, CanBind(L, r, x), new = Bound(L, r, x)
      PROVE  new \in [Requests -> ExecutionLedgerRecord] /\ AdvancesTo(L, new)
  BY <1>3, LedgerChangesAreLedgers, OperationsAdvance
<1>4. ASSUME NEW b \in BOOLEAN, CanReconcile(L, r), new = Reconciled(L, r, b)
      PROVE  new \in [Requests -> ExecutionLedgerRecord] /\ AdvancesTo(L, new)
  BY <1>4, LedgerChangesAreLedgers, OperationsAdvance
<1>5. QED
  BY <1>1, <1>2, <1>3, <1>4

-----------------------------------------------------------------------------

UniqueTickets(L) ==
  \A q, r \in Requests : q # r /\ L[q].ticket # NoTicket => L[q].ticket # L[r].ticket

\* No operation of the ledger gives a ticket to a second request.
LEMMA OperatedKeepsTickets ==
  ASSUME NEW L \in [Requests -> ExecutionLedgerRecord], UniqueTickets(L),
         \A r \in Requests : L[r].status = "ABSENT" => L[r].ticket = NoTicket,
         NEW new, Operated(L, new)
  PROVE  /\ UniqueTickets(new)
         /\ \A r \in Requests : new[r].status = "ABSENT" => new[r].ticket = NoTicket
<1> USE DEF UniqueTickets, ExecutionLedgerRecord
<1>1. ASSUME NEW r \in Requests, NEW c, CanReserve(L, r, c), new = Reserved(L, r, c)
      PROVE  UniqueTickets(new) /\ \A q \in Requests : new[q].status = "ABSENT" => new[q].ticket = NoTicket
  BY <1>1 DEF Reserved
<1>2. ASSUME NEW r \in Requests, NEW s \in ExecutionLedgerStatus, new = Marked(L, r, s)
      PROVE  UniqueTickets(new) /\ \A q \in Requests : new[q].status = "ABSENT" => new[q].ticket = NoTicket
  BY <1>2 DEF Marked, ExecutionLedgerStatus
<1>3. ASSUME NEW r \in Requests, NEW x, CanBind(L, r, x), new = Bound(L, r, x)
      PROVE  UniqueTickets(new) /\ \A q \in Requests : new[q].status = "ABSENT" => new[q].ticket = NoTicket
  BY <1>3 DEF CanBind, Bound, Recorded
<1>4. \A r, b : Reconciled(L, r, b) = Marked(L, r, ReconciledStatus(b))
  BY DEF Reconciled, Marked
<1>5. \A b : ReconciledStatus(b) \in ExecutionLedgerStatus
  BY DEF ReconciledStatus, ExecutionLedgerStatus
<1>6. {"ACCEPTED", "REJECTED", "UNKNOWN"} \subseteq ExecutionLedgerStatus
  BY DEF ExecutionLedgerStatus
<1>7. QED
  BY <1>1, <1>2, <1>3, <1>4, <1>5, <1>6 DEF Operated

-----------------------------------------------------------------------------
(* The books: the ledger and the orders together.                            *)

\* What a status says of the orders of its request.  A refused request has no
\* order at all, and this is more than VerdictsAreTrue asks: an order that was
\* void when the request was marked as rejected would do there.
VerdictIsTrue(r, s) ==
  /\ s = "REJECTED" => OrdersOf(r) = {}
  /\ s = "RECONCILED_EXECUTED" => WasFilled(r)
  /\ s = "RECONCILED_NOT_EXECUTED" => ~MayBeFilled(r)

\* An order belongs to a request the executor was called for, and it is the
\* only order of that request.
OrdersAreOwned ==
  \A x \in Tickets :
    /\ orders[x] = Unissued \/ (orders[x].req \in Requests /\ orders[x].state # "unissued")
    /\ orders[x].req \in Requests => dispatched[orders[x].req] > 0
OrdersAreUnique ==
  \A x, y \in Tickets : orders[x].req \in Requests /\ orders[y].req = orders[x].req => x = y

BooksInv ==
  /\ DispatchedIsDurable
  /\ OrdersAreOwned /\ OrdersAreUnique
  /\ \A r \in Requests : VerdictIsTrue(r, ledger[r].status)

\* What a step may do to the books: write a ledger whose new verdicts are true,
\* call the executor for a reserved request it was never called for, move an
\* order at the broker, or restart.
Truthful(new) ==
  /\ Operated(ledger, new)
  /\ \A r \in Requests : new[r].status # ledger[r].status => VerdictIsTrue(r, new[r].status)
TruthfulWrite(new) ==
  /\ Truthful(new)
  /\ LedgerWritten(new) \/ LedgerWriteFails(new)
  /\ UNCHANGED <<orders, dispatched>>

ExecutorCall(r) ==
  /\ ledgerSaved /\ ledger[r].status = "RESERVED" /\ dispatched[r] = 0
  /\ dispatched' = [dispatched EXCEPT ![r] = @ + 1]
  /\ \/ NoOrder
     \/ \E x \in Tickets, c \in Cycles \cup {NoCycle}, s \in {"working", "open"} : NewOrder(x, r, c, s)
  /\ UNCHANGED <<ledger, ledgerSaved>>

OrderMoves(x) ==
  /\ EndedNow(x) \/ ClosedNow(x)
  /\ UNCHANGED <<ledger, ledgerSaved, dispatched>>

Restart == Reloaded /\ UNCHANGED <<orders, dispatched>>

BookStep ==
  \/ UNCHANGED <<ledger, ledgerSaved, orders, dispatched>>
  \/ \E new : TruthfulWrite(new)
  \/ \E r \in Requests : ExecutorCall(r)
  \/ \E x \in Tickets : OrderMoves(x)
  \/ Restart

\* Which operations are truthful.
LEMMA TruthfulOperations ==
  ASSUME StoreTypes, NEW r \in Requests, NEW c \in Cycles \cup {NoCycle},
         NEW x \in Tickets \cup {NoTicket}, NEW b \in BOOLEAN
  PROVE  /\ CanReserve(ledger, r, c) => Truthful(Reserved(ledger, r, c))
         /\ CanBind(ledger, r, x) => Truthful(Bound(ledger, r, x))
         /\ CanMark(ledger, r) => /\ Truthful(Marked(ledger, r, "ACCEPTED"))
                                  /\ Truthful(Marked(ledger, r, "UNKNOWN"))
                                  /\ OrdersOf(r) = {} => Truthful(Marked(ledger, r, "REJECTED"))
         /\ CanReconcile(ledger, r) /\ VerdictIsTrue(r, ReconciledStatus(b)) =>
              Truthful(Reconciled(ledger, r, b))
<1>1. ledger \in [Requests -> ExecutionLedgerRecord]
  BY DEF StoreTypes
<1> USE <1>1 DEF ExecutionLedgerRecord
<1>2. ASSUME CanReserve(ledger, r, c)
      PROVE  Truthful(Reserved(ledger, r, c))
  <2>1. Operated(ledger, Reserved(ledger, r, c))
    BY <1>2 DEF Operated
  <2>2. QED
    BY <2>1 DEF Truthful, Reserved, VerdictIsTrue
<1>3. ASSUME CanBind(ledger, r, x)
      PROVE  Truthful(Bound(ledger, r, x))
  <2>1. Operated(ledger, Bound(ledger, r, x))
    BY <1>3 DEF Operated
  <2>2. QED
    BY <2>1 DEF Truthful, Bound
<1>4. ASSUME CanMark(ledger, r), NEW s \in {"ACCEPTED", "REJECTED", "UNKNOWN"},
             s = "REJECTED" => OrdersOf(r) = {}
      PROVE  Truthful(Marked(ledger, r, s))
  <2>1. Operated(ledger, Marked(ledger, r, s))
    BY <1>4 DEF Operated
  <2>2. QED
    BY <1>4, <2>1 DEF Truthful, Marked, VerdictIsTrue
<1>5. ASSUME CanReconcile(ledger, r), VerdictIsTrue(r, ReconciledStatus(b))
      PROVE  Truthful(Reconciled(ledger, r, b))
  <2>1. Operated(ledger, Reconciled(ledger, r, b))
    BY <1>5 DEF Operated
  <2> DEFINE s == ReconciledStatus(b)
  <2> HIDE DEF s
  <2>2. Reconciled(ledger, r, b) = [ledger EXCEPT ![r].status = s]
    BY DEF Reconciled, s
  <2>3. VerdictIsTrue(r, s)
    BY <1>5 DEF s
  <2>4. QED
    BY <2>1, <2>2, <2>3 DEF Truthful
<1>6. QED
  BY <1>2, <1>3, <1>4, <1>5

\* An operation at r leaves the other records alone, and keeps r's cycle once
\* it is reserved.
LEMMA OperationsStayAtTheirRequest ==
  ASSUME NEW L \in [Requests -> ExecutionLedgerRecord], NEW r \in Requests,
         NEW q \in Requests \ {r}, NEW c, NEW x, NEW s, NEW b
  PROVE  /\ Reserved(L, r, c)[q] = L[q]
         /\ Bound(L, r, x)[q] = L[q]
         /\ Marked(L, r, s)[q] = L[q]
         /\ Reconciled(L, r, b)[q] = L[q]
BY DEF Reserved, Bound, Marked, Reconciled

\* True verdicts are what the property asks for, and they leave no order behind
\* when the recovery verdict lets the runtime resume.
LEMMA BooksAreTrue == BooksInv => VerdictsAreTrue
BY DEF BooksInv, VerdictIsTrue, VerdictsAreTrue, MayBeFilled

LEMMA BooksLeaveNothing ==
  ASSUME StoreTypes, OrderTypes, BooksInv, CanResume(ledger, lifecycle, checkpoint)
  PROVE  EveryOrderIsSettled
<1> SUFFICES ASSUME NEW x \in Tickets, orders[x].req # NoRequest
             PROVE  /\ orders[x].state # "working"
                    /\ ledger[orders[x].req].status = ReconciledStatus(orders[x].state \in Filled)
  BY DEF EveryOrderIsSettled
<1> DEFINE r == orders[x].req
           s == ledger[r].status
<1>1. r \in Requests /\ x \in OrdersOf(r)
  BY DEF OrderTypes, Order, OrdersOf
<1>2. r \in Recorded(ledger) /\ s \in ExecutionLedgerStatus
  BY <1>1 DEF BooksInv, DispatchedIsDurable, OrdersAreOwned, Recorded, StoreTypes,
              ExecutionLedgerRecord, LedgerStatusOrAbsent
<1>3. s \notin {"UNKNOWN", "RESERVED", "ACCEPTED"}
  BY <1>1, <1>2 DEF CanResume, Unresolved
<1>4. s # "REJECTED"
  BY <1>1 DEF BooksInv, VerdictIsTrue
<1>5. CASE s = "RECONCILED_EXECUTED"
  <2>1. PICK y \in OrdersOf(r) : orders[y].state \in Filled
    BY <1>1, <1>5 DEF BooksInv, VerdictIsTrue, WasFilled
  <2>2. y = x
    BY <1>1, <2>1 DEF BooksInv, OrdersAreUnique, OrdersOf
  <2>3. QED
    BY <1>5, <2>1, <2>2 DEF Filled, ReconciledStatus
<1>6. CASE s = "RECONCILED_NOT_EXECUTED"
  <2>1. orders[x].state \notin Filled \cup {"working"}
    BY <1>1, <1>6 DEF BooksInv, VerdictIsTrue, MayBeFilled
  <2>2. QED
    BY <1>6, <2>1 DEF ReconciledStatus
<1>7. QED
  BY <1>2, <1>3, <1>4, <1>5, <1>6 DEF ExecutionLedgerStatus

\* A truthful write keeps the books, whether or not it succeeds.
LEMMA WriteKeepsBooks ==
  ASSUME StoreTypes, OrderTypes, BooksInv, NEW new, TruthfulWrite(new)
  PROVE  BooksInv'
<1>1. Advance
  BY OperatedAdvances, WritesAdvance DEF TruthfulWrite, Truthful, StoreTypes
<1>2. DispatchedIsDurable'
  BY <1>1 DEF TruthfulWrite, BooksInv, DispatchedIsDurable, Advance, AdvancesTo
<1>3. OrdersAreOwned' /\ OrdersAreUnique'
  BY DEF TruthfulWrite, BooksInv, OrdersAreOwned, OrdersAreUnique
<1>4. \A r \in Requests : VerdictIsTrue(r, ledger'[r].status)
  BY DEF TruthfulWrite, Truthful, BooksInv, LedgerWritten, LedgerWriteFails
<1>5. \A r, s : VerdictIsTrue(r, s) <=> VerdictIsTrue(r, s)'
  BY DEF TruthfulWrite, VerdictIsTrue, OrdersOf, WasFilled, MayBeFilled
<1>6. QED
  BY <1>2, <1>3, <1>4, <1>5 DEF BooksInv

\* An order sent for a reserved request that had none keeps the books.
LEMMA CallKeepsBooks ==
  ASSUME StoreTypes, OrderTypes, BooksInv, NEW r \in Requests, ExecutorCall(r)
  PROVE  BooksInv'
<1> USE DEF ExecutorCall
<1>1. dispatched'[r] = 1 /\ \A q \in Requests \ {r} : dispatched'[q] = dispatched[q]
  BY DEF OrderTypes
<1>2. \A x \in Tickets : orders[x].req # r
  BY DEF BooksInv, OrdersAreOwned
<1>3. DispatchedIsDurable'
  BY <1>1 DEF BooksInv, DispatchedIsDurable, Recorded
<1>4. CASE NoOrder
  <2>1. OrdersAreOwned' /\ OrdersAreUnique'
    BY <1>1, <1>4 DEF NoOrder, BooksInv, OrdersAreOwned, OrdersAreUnique
  <2>2. \A q, s : VerdictIsTrue(q, s) <=> VerdictIsTrue(q, s)'
    BY <1>4 DEF NoOrder, VerdictIsTrue, OrdersOf, WasFilled, MayBeFilled
  <2>3. QED
    BY <1>3, <2>1, <2>2 DEF BooksInv
<1>5. ASSUME NEW x \in Tickets, NEW c \in Cycles \cup {NoCycle}, NEW s \in {"working", "open"}, NewOrder(x, r, c, s)
      PROVE  BooksInv'
  <2>1. /\ orders[x] = Unissued
        /\ orders'[x] = [req |-> r, cycle |-> c, state |-> s]
        /\ \A y \in Tickets \ {x} : orders'[y] = orders[y]
    BY <1>5 DEF NewOrder, OrderTypes
  <2>2. orders'[x].req = r /\ orders'[x].state = s
    BY <2>1
  <2>3. OrdersAreOwned'
    BY <1>1, <2>1, <2>2 DEF BooksInv, OrdersAreOwned
  <2>4. OrdersAreUnique'
    BY <1>2, <2>1, <2>2 DEF BooksInv, OrdersAreUnique
  <2>5. \A q \in Requests \ {r} : OrdersOf(q)' = OrdersOf(q)
    BY <2>1, <2>2, NonesAreDistinct DEF OrdersOf, Unissued
  <2>6. \A q \in Requests \ {r} : \A v : VerdictIsTrue(q, v) => VerdictIsTrue(q, v)'
    <3> SUFFICES ASSUME NEW q \in Requests \ {r}, NEW v, VerdictIsTrue(q, v)
                 PROVE  VerdictIsTrue(q, v)'
      OBVIOUS
    <3>1. \A y \in OrdersOf(q) : y \in Tickets /\ orders'[y] = orders[y]
      BY <2>1, NonesAreDistinct DEF OrdersOf, Unissued
    <3>2. QED
      BY <2>5, <3>1 DEF VerdictIsTrue, WasFilled, MayBeFilled
  <2>7. VerdictIsTrue(r, ledger[r].status)'
    BY DEF VerdictIsTrue
  <2>8. QED
    BY <1>3, <2>3, <2>4, <2>6, <2>7 DEF BooksInv
<1>6. QED
  BY <1>4, <1>5

\* What the broker does to an order keeps the books: a filled order stays
\* filled, and one that was void never moves.
LEMMA MoveKeepsBooks ==
  ASSUME StoreTypes, OrderTypes, BooksInv, NEW x \in Tickets, OrderMoves(x)
  PROVE  BooksInv'
<1>1. PICK s \in {"open", "closed", "void"} :
        /\ orders' = [orders EXCEPT ![x].state = s]
        /\ orders[x].state \in {"working", "open"}
        /\ orders[x].state \in Filled => s \in Filled
  BY DEF OrderMoves, EndedNow, ClosedNow, Filled
<1>2. /\ orders'[x].req = orders[x].req /\ orders'[x].state = s
      /\ \A y \in Tickets \ {x} : orders'[y] = orders[y]
  BY <1>1 DEF OrderTypes, Order
<1>3. orders[x].req \in Requests
  BY <1>1 DEF BooksInv, OrdersAreOwned, Unissued
<1>4. DispatchedIsDurable'
  BY DEF OrderMoves, BooksInv, DispatchedIsDurable
<1>5. OrdersAreOwned' /\ OrdersAreUnique'
  BY <1>2, <1>3 DEF OrderMoves, BooksInv, OrdersAreOwned, OrdersAreUnique
<1>6. \A r : OrdersOf(r)' = OrdersOf(r)
  BY <1>2 DEF OrdersOf
<1>7. \A r, v : VerdictIsTrue(r, v) => VerdictIsTrue(r, v)'
  <2> SUFFICES ASSUME NEW r, NEW v, VerdictIsTrue(r, v) PROVE VerdictIsTrue(r, v)'
    OBVIOUS
  <2>1. v = "RECONCILED_EXECUTED" => WasFilled(r)'
    BY <1>1, <1>2, <1>6 DEF VerdictIsTrue, WasFilled, OrdersOf
  <2>2. v = "RECONCILED_NOT_EXECUTED" => ~MayBeFilled(r)'
    <3>1. v = "RECONCILED_NOT_EXECUTED" => x \notin OrdersOf(r)
      BY <1>1 DEF VerdictIsTrue, MayBeFilled, Filled
    <3>2. QED
      BY <1>2, <1>6, <3>1 DEF VerdictIsTrue, MayBeFilled, OrdersOf
  <2>3. QED
    BY <1>6, <2>1, <2>2 DEF VerdictIsTrue
<1>8. QED
  BY <1>4, <1>5, <1>7 DEF BooksInv, OrderMoves

\* A restart loses no verdict: without a ledger file no order was ever sent.
LEMMA RestartKeepsBooks ==
  ASSUME StoreTypes, OrderTypes, BooksInv, Restart
  PROVE  BooksInv'
<1> USE DEF Restart, Reloaded
<1>1. DispatchedIsDurable'
  BY DEF BooksInv, DispatchedIsDurable
<1>2. OrdersAreOwned' /\ OrdersAreUnique'
  BY DEF BooksInv, OrdersAreOwned, OrdersAreUnique
<1>3. \A r \in Requests : VerdictIsTrue(r, ledger'[r].status)
  BY DEF BooksInv, VerdictIsTrue, EmptyLedger, AbsentRecord
<1>4. \A r, s : VerdictIsTrue(r, s) <=> VerdictIsTrue(r, s)'
  BY DEF VerdictIsTrue, OrdersOf, WasFilled, MayBeFilled
<1>5. QED
  BY <1>1, <1>2, <1>3, <1>4 DEF BooksInv

\* So every step of either path keeps the books.
LEMMA StepsKeepBooks ==
  ASSUME StoreTypes, OrderTypes, BooksInv, BookStep
  PROVE  BooksInv'
<1>1. CASE UNCHANGED <<ledger, ledgerSaved, orders, dispatched>>
  BY <1>1 DEF BooksInv, DispatchedIsDurable, OrdersAreOwned, OrdersAreUnique, VerdictIsTrue,
              OrdersOf, WasFilled, MayBeFilled, Recorded
<1>2. QED
  BY <1>1, WriteKeepsBooks, CallKeepsBooks, MoveKeepsBooks, RestartKeepsBooks DEF BookStep

\* The books are in order when nothing was ever sent.
LEMMA EmptyBooks == NoStores /\ NothingSent => BooksInv
BY NonesAreDistinct
   DEF NoStores, NothingSent, BooksInv, DispatchedIsDurable, OrdersAreOwned, OrdersAreUnique,
       VerdictIsTrue, EmptyLedger, AbsentRecord, Unissued

-----------------------------------------------------------------------------
(* What a call in progress may rely on while others write.                   *)

\* Without a restart no record is lost or changes its cycle, an order stays its
\* request's, and one that has ended its work keeps its outcome.
LedgerGrows ==
  /\ ledgerSaved => ledgerSaved'
  /\ \A r \in Recorded(ledger) : r \in Recorded(ledger') /\ ledger'[r].cycle = ledger[r].cycle
OrdersGrow ==
  \A x \in Tickets : orders[x].req \in Requests =>
    /\ orders'[x].req = orders[x].req /\ orders'[x].cycle = orders[x].cycle
    /\ orders[x].state # "working" =>
         /\ orders'[x].state # "working"
         /\ orders'[x].state \in Filled <=> orders[x].state \in Filled
NoNewOrder(r) == \A x \in Tickets : orders'[x].req = r => orders[x].req = r

LEMMA WritesGrow ==
  ASSUME StoreTypes, NEW new, TruthfulWrite(new)
  PROVE  LedgerGrows /\ OrdersGrow /\ \A r : NoNewOrder(r)
<1>1. AdvancesTo(ledger, new)
  BY OperatedAdvances DEF TruthfulWrite, Truthful, StoreTypes
<1>2. LedgerGrows
  BY <1>1 DEF TruthfulWrite, LedgerWritten, LedgerWriteFails, LedgerGrows, AdvancesTo
<1>3. QED
  BY <1>2 DEF TruthfulWrite, OrdersGrow, NoNewOrder

LEMMA CallsGrow ==
  ASSUME OrderTypes, BooksInv, NEW r \in Requests, ExecutorCall(r)
  PROVE  LedgerGrows /\ OrdersGrow /\ \A q \in Requests \ {r} : NoNewOrder(q)
<1>1. LedgerGrows
  BY DEF ExecutorCall, LedgerGrows
<1>2. CASE NoOrder
  BY <1>1, <1>2 DEF NoOrder, OrdersGrow, NoNewOrder
<1>3. ASSUME NEW x \in Tickets, NEW c \in Cycles \cup {NoCycle}, NEW s \in {"working", "open"},
             NewOrder(x, r, c, s)
      PROVE  OrdersGrow /\ \A q \in Requests \ {r} : NoNewOrder(q)
  <2>1. /\ orders[x] = Unissued
        /\ orders'[x] = [req |-> r, cycle |-> c, state |-> s]
        /\ \A y \in Tickets \ {x} : orders'[y] = orders[y]
    BY <1>3 DEF NewOrder, OrderTypes
  <2>2. orders'[x].req = r /\ orders[x].req = NoRequest
    BY <2>1 DEF Unissued
  <2>3. QED
    BY <2>1, <2>2, NonesAreDistinct DEF OrdersGrow, NoNewOrder
<1>4. QED
  BY <1>1, <1>2, <1>3 DEF ExecutorCall

LEMMA MovesGrow ==
  ASSUME OrderTypes, NEW x \in Tickets, OrderMoves(x)
  PROVE  LedgerGrows /\ OrdersGrow /\ \A r : NoNewOrder(r)
<1>1. LedgerGrows
  BY DEF OrderMoves, LedgerGrows
<1>2. PICK s \in {"open", "closed", "void"} :
        /\ orders' = [orders EXCEPT ![x].state = s]
        /\ orders[x].state = "working" \/ (orders[x].state = "open" /\ s = "closed")
  BY DEF OrderMoves, EndedNow, ClosedNow
<1>3. /\ orders'[x].req = orders[x].req /\ orders'[x].cycle = orders[x].cycle
      /\ orders'[x].state = s
      /\ \A y \in Tickets \ {x} : orders'[y] = orders[y]
  BY <1>2 DEF OrderTypes, Order
<1>4. OrdersGrow
  BY <1>2, <1>3 DEF OrdersGrow, Filled
<1>5. \A r : NoNewOrder(r)
  BY <1>3 DEF NoNewOrder
<1>6. QED
  BY <1>1, <1>4, <1>5

LEMMA StandingStill ==
  ASSUME UNCHANGED <<ledger, ledgerSaved, orders>>
  PROVE  LedgerGrows /\ OrdersGrow /\ \A r : NoNewOrder(r)
BY DEF LedgerGrows, OrdersGrow, NoNewOrder, Recorded

\* The outcome b of a request is known: no order of it is working, and one was
\* filled or none.  What is known stays true, and makes a true verdict.
Known(r, b) ==
  /\ b <=> WasFilled(r)
  /\ \A x \in OrdersOf(r) : orders[x].state # "working"

LEMMA KnownStays ==
  ASSUME NEW r \in Requests, NEW b \in BOOLEAN, Known(r, b), OrdersGrow, NoNewOrder(r)
  PROVE  Known(r, b)'
<1>1. OrdersOf(r)' = OrdersOf(r)
  BY DEF OrdersOf, OrdersGrow, NoNewOrder
<1>2. \A x \in OrdersOf(r) :
        /\ orders'[x].state # "working"
        /\ orders'[x].state \in Filled <=> orders[x].state \in Filled
  BY DEF Known, OrdersOf, OrdersGrow
<1>3. WasFilled(r)' <=> WasFilled(r)
  BY <1>1, <1>2 DEF WasFilled
<1>4. QED
  BY <1>1, <1>2, <1>3 DEF Known

LEMMA KnownIsTrue ==
  ASSUME NEW r \in Requests, NEW b \in BOOLEAN, Known(r, b)
  PROVE  VerdictIsTrue(r, ReconciledStatus(b))
BY DEF Known, VerdictIsTrue, ReconciledStatus, WasFilled, MayBeFilled

\* The one order of a request tells what became of the request.
LEMMA OrderIsKnown ==
  ASSUME BooksInv, NEW r \in Requests, NEW x \in Tickets, orders[x].req = r,
         orders[x].state # "working", NEW b \in BOOLEAN, b <=> orders[x].state \in Filled
  PROVE  Known(r, b)
<1>1. OrdersOf(r) = {x}
  BY DEF OrdersOf, BooksInv, OrdersAreUnique
<1>2. QED
  BY <1>1 DEF Known, WasFilled

LEMMA UnsentStays ==
  ASSUME NEW r, OrdersOf(r) = {}, NoNewOrder(r)
  PROVE  (OrdersOf(r) = {})'
BY DEF OrdersOf, NoNewOrder

-----------------------------------------------------------------------------
(* The abstract order desk.                                                  *)

\* The ways in which a step of the stores is a step of the desk.
DeskStutters == UNCHANGED <<ShownDesk, ShownSent, ShownFilled>>
DeskEnters == UNCHANGED <<ShownSent, ShownFilled>> /\
  \E entry \in [{r \in Requests : Shown(r) = "none"} -> {"none", "open", "not executed"}] :
    \A r \in Requests : Shown(r)' = IF Shown(r) = "none" THEN entry[r] ELSE Shown(r)
DeskSends(r) ==
  /\ Shown(r) = "open" /\ r \notin ShownSent /\ ShownSent' = ShownSent \cup {r}
  /\ ShownFilled' \in {ShownFilled, ShownFilled \cup {r}}
  /\ UNCHANGED ShownDesk
DeskFills(r) ==
  /\ Shown(r) = "open" /\ r \in ShownSent \ ShownFilled
  /\ ShownFilled' = ShownFilled \cup {r}
  /\ UNCHANGED <<ShownDesk, ShownSent>>
DeskSettles(r) ==
  /\ Shown(r) = "open"
  /\ Shown(r)' = IF r \in ShownFilled THEN "executed" ELSE "not executed"
  /\ \A q \in Requests \ {r} : Shown(q)' = Shown(q)
  /\ UNCHANGED <<ShownSent, ShownFilled>>

LEMMA DeskMoves ==
  ASSUME \/ DeskStutters \/ DeskEnters
         \/ \E r \in Requests : DeskSends(r) \/ DeskFills(r) \/ DeskSettles(r)
  PROVE  [Desk!DeskNext]_(Desk!deskVars)
<1> USE DEF Desk!DeskNext, Desk!deskVars
<1>1. \A s : Desk!InStatus(s) = {r \in Requests : Shown(r) = s}
  BY DEF Desk!InStatus, ShownDesk
<1>2. CASE DeskStutters
  BY <1>2 DEF DeskStutters
<1>3. CASE DeskEnters
  <2>1. PICK entry \in [Desk!InStatus("none") -> {"none", "open", "not executed"}] :
          \A r \in Requests : Shown(r)' = IF Shown(r) = "none" THEN entry[r] ELSE Shown(r)
    BY <1>1, <1>3 DEF DeskEnters
  <2>2. Desk!Enter(entry)
    BY <1>1, <1>3, <2>1 DEF Desk!Enter, DeskEnters, ShownDesk
  <2>3. QED
    BY <2>2
<1>4. ASSUME NEW r \in Requests, DeskSends(r) \/ DeskFills(r) \/ DeskSettles(r)
      PROVE  Desk!Send(r) \/ Desk!Fill(r) \/ Desk!Settle(r)
  <2>1. DeskSends(r) => Desk!Send(r)
    BY <1>1 DEF DeskSends, Desk!Send
  <2>2. DeskFills(r) => Desk!Fill(r)
    BY <1>1 DEF DeskFills, Desk!Fill
  <2>3. DeskSettles(r) => Desk!Settle(r)
    BY <1>1 DEF DeskSettles, Desk!Settle, ShownDesk
  <2>4. QED
    BY <1>4, <2>1, <2>2, <2>3
<1>5. QED
  BY <1>2, <1>3, <1>4

\* What an operation of the ledger does to one record.
LEMMA OperatedRecord ==
  ASSUME StoreTypes, NEW new, Operated(ledger, new)
  PROVE  \E r \in Requests :
           /\ \A q \in Requests \ {r} : new[q] = ledger[q]
           /\ \/ ledger[r].status = "ABSENT" /\ new[r].status = "RESERVED"
              \/ new[r].status = ledger[r].status
              \/ /\ ledger[r].status \in {"RESERVED", "UNKNOWN", "ACCEPTED"}
                 /\ new[r].status \in ExecutionLedgerStatus \ {"RESERVED"}
<1> PICK r \in Requests :
      \/ \E c \in Cycles \cup {NoCycle} : CanReserve(ledger, r, c) /\ new = Reserved(ledger, r, c)
      \/ \E s \in {"ACCEPTED", "REJECTED", "UNKNOWN"} : CanMark(ledger, r) /\ new = Marked(ledger, r, s)
      \/ \E x \in Tickets \cup {NoTicket} : CanBind(ledger, r, x) /\ new = Bound(ledger, r, x)
      \/ \E b \in BOOLEAN : CanReconcile(ledger, r) /\ new = Reconciled(ledger, r, b)
  BY DEF Operated
<1>1. ledger \in [Requests -> ExecutionLedgerRecord]
  BY DEF StoreTypes
<1> USE <1>1 DEF ExecutionLedgerRecord, ExecutionLedgerStatus
<1>2. ASSUME NEW c \in Cycles \cup {NoCycle}, CanReserve(ledger, r, c), new = Reserved(ledger, r, c)
      PROVE  /\ ledger[r].status = "ABSENT" /\ new[r].status = "RESERVED"
             /\ \A q \in Requests \ {r} : new[q] = ledger[q]
  BY <1>2 DEF CanReserve, Reserved, Recorded
<1>3. ASSUME NEW s \in {"ACCEPTED", "REJECTED", "UNKNOWN"}, CanMark(ledger, r), new = Marked(ledger, r, s)
      PROVE  /\ ledger[r].status \in {"RESERVED", "UNKNOWN"} /\ new[r].status = s
             /\ \A q \in Requests \ {r} : new[q] = ledger[q]
  BY <1>3 DEF CanMark, Marked
<1>4. ASSUME NEW x \in Tickets \cup {NoTicket}, new = Bound(ledger, r, x)
      PROVE  /\ new[r].status = ledger[r].status
             /\ \A q \in Requests \ {r} : new[q] = ledger[q]
  BY <1>4 DEF Bound
<1>5. ASSUME NEW b \in BOOLEAN, CanReconcile(ledger, r), new = Reconciled(ledger, r, b)
      PROVE  /\ ledger[r].status \in {"RESERVED", "UNKNOWN", "ACCEPTED"}
             /\ new[r].status \in {"RECONCILED_EXECUTED", "RECONCILED_NOT_EXECUTED"}
             /\ \A q \in Requests \ {r} : new[q] = ledger[q]
  BY <1>5 DEF CanReconcile, Reconciled, ReconciledStatus
<1>6. QED
  BY <1>2, <1>3, <1>4, <1>5

\* Before the ledger file exists, the desk shows nothing, and its first write
\* may show many requests at once; none of them was ever sent, so none is shown
\* as executed.  Afterwards a write shows what it did to one request.
LEMMA WriteOnDesk ==
  ASSUME StoreTypes, OrderTypes, BooksInv, NEW new, TruthfulWrite(new)
  PROVE  \/ DeskStutters \/ DeskEnters \/ \E r \in Requests : DeskSettles(r)
<1>1. UNCHANGED <<ShownSent, ShownFilled>>
  BY DEF TruthfulWrite, ShownSent, ShownFilled, WasFilled, OrdersOf
<1>2. \A r \in Requests : ledger[r].status \in LedgerStatusOrAbsent
  BY DEF StoreTypes, ExecutionLedgerRecord
<1>3. ledgerSaved \in BOOLEAN
  BY DEF StoreTypes
<1>4. CASE LedgerWriteFails(new)
  <2>1. \A r \in Requests : Shown(r)' = Shown(r)
    BY <1>3, <1>4 DEF LedgerWriteFails, Shown, Recorded
  <2>2. QED
    BY <1>1, <2>1 DEF DeskStutters, ShownDesk
<1>5. CASE LedgerWritten(new) /\ ~ledgerSaved
  <2> DEFINE entry == [r \in Requests |-> Shown(r)']
  <2>1. \A r \in Requests : Shown(r) = "none"
    BY <1>5 DEF Shown
  <2>2. \A r \in Requests : ledger'[r].status # "RECONCILED_EXECUTED"
    <3> SUFFICES ASSUME NEW r \in Requests, ledger'[r].status = "RECONCILED_EXECUTED"
                 PROVE  FALSE
      OBVIOUS
    <3>1. VerdictIsTrue(r, ledger'[r].status)
      BY <1>5 DEF TruthfulWrite, Truthful, LedgerWritten, BooksInv
    <3>2. PICK x \in Tickets : orders[x].req = r
      BY <3>1 DEF VerdictIsTrue, WasFilled, OrdersOf
    <3>3. dispatched[r] > 0
      BY <3>2 DEF BooksInv, OrdersAreOwned
    <3>4. QED
      BY <1>5, <3>3 DEF BooksInv, DispatchedIsDurable
  <2>3. \A r \in Requests : entry[r] \in {"none", "open", "not executed"}
    BY <2>2 DEF Shown
  <2>4. entry \in [{r \in Requests : Shown(r) = "none"} -> {"none", "open", "not executed"}]
    BY <2>1, <2>3
  <2>5. \A r \in Requests : Shown(r)' = IF Shown(r) = "none" THEN entry[r] ELSE Shown(r)
    BY <2>1
  <2> HIDE DEF entry
  <2>6. QED
    BY <1>1, <2>4, <2>5 DEF DeskEnters
<1>6. CASE LedgerWritten(new) /\ ledgerSaved
  <2>1. ledger' = new /\ ledgerSaved'
    BY <1>6 DEF LedgerWritten
  <2>2. PICK r \in Requests :
          /\ \A q \in Requests \ {r} : new[q] = ledger[q]
          /\ \/ ledger[r].status = "ABSENT" /\ new[r].status = "RESERVED"
             \/ new[r].status = ledger[r].status
             \/ /\ ledger[r].status \in {"RESERVED", "UNKNOWN", "ACCEPTED"}
                /\ new[r].status \in ExecutionLedgerStatus \ {"RESERVED"}
    BY OperatedRecord DEF TruthfulWrite, Truthful
  <2>3. \A q \in Requests \ {r} : Shown(q)' = Shown(q)
    BY <1>6, <2>1, <2>2 DEF Shown, Recorded
  <2>4. CASE ledger[r].status = "ABSENT" /\ new[r].status = "RESERVED"
    <3> DEFINE entry == [q \in {p \in Requests : Shown(p) = "none"} |-> IF q = r THEN "open" ELSE "none"]
    <3>1. Shown(r) = "none" /\ Shown(r)' = "open"
      BY <1>6, <2>1, <2>4 DEF Shown, Recorded, FinalStatus
    <3>2. entry \in [{p \in Requests : Shown(p) = "none"} -> {"none", "open", "not executed"}]
      OBVIOUS
    <3>3. \A q \in Requests : Shown(q)' = IF Shown(q) = "none" THEN entry[q] ELSE Shown(q)
      BY <2>3, <3>1
    <3> HIDE DEF entry
    <3>4. QED
      BY <1>1, <3>2, <3>3 DEF DeskEnters
  <2>5. CASE new[r].status = ledger[r].status
    <3>1. Shown(r)' = Shown(r)
      BY <1>6, <2>1, <2>5 DEF Shown, Recorded
    <3>2. QED
      BY <1>1, <2>3, <3>1 DEF DeskStutters, ShownDesk
  <2>6. CASE /\ ledger[r].status \in {"RESERVED", "UNKNOWN", "ACCEPTED"}
             /\ new[r].status \in ExecutionLedgerStatus \ {"RESERVED"}
    <3>1. Shown(r) = "open"
      BY <1>6, <2>6 DEF Shown, Recorded, FinalStatus
    <3>2. CASE new[r].status \in {"ACCEPTED", "UNKNOWN"}
      <4>1. Shown(r)' = "open"
        BY <2>1, <3>2 DEF Shown, Recorded, FinalStatus
      <4>2. QED
        BY <1>1, <2>3, <3>1, <4>1 DEF DeskStutters, ShownDesk
    <3>3. CASE new[r].status \in FinalStatus
      <4>1. VerdictIsTrue(r, new[r].status)
        BY <2>6, <3>3 DEF TruthfulWrite, Truthful, FinalStatus
      <4>2. new[r].status = "RECONCILED_EXECUTED" <=> r \in ShownFilled
        BY <3>3, <4>1 DEF VerdictIsTrue, ShownFilled, WasFilled, MayBeFilled, FinalStatus
      <4>3. Shown(r)' = IF r \in ShownFilled THEN "executed" ELSE "not executed"
        BY <2>1, <3>3, <4>2 DEF Shown, Recorded, FinalStatus
      <4>4. QED
        BY <1>1, <2>3, <3>1, <4>3 DEF DeskSettles
    <3>4. QED
      BY <2>6, <3>2, <3>3 DEF ExecutionLedgerStatus, FinalStatus
  <2>7. QED
    BY <2>2, <2>4, <2>5, <2>6
<1>7. QED
  BY <1>3, <1>4, <1>5, <1>6 DEF TruthfulWrite

\* An executor call is a desk sending, or filling what it sends.
LEMMA CallOnDesk ==
  ASSUME StoreTypes, OrderTypes, BooksInv, NEW r \in Requests, ExecutorCall(r)
  PROVE  DeskSends(r)
<1> USE DEF ExecutorCall
<1>1. Shown(r) = "open" /\ UNCHANGED ShownDesk
  BY DEF Shown, Recorded, FinalStatus, ShownDesk
<1>2. r \notin ShownSent /\ ShownSent' = ShownSent \cup {r}
  BY DEF ShownSent, OrderTypes
<1>3. \A x \in Tickets : orders[x].req # r
  BY DEF BooksInv, OrdersAreOwned
<1>4. \A q \in Requests \ {r} : WasFilled(q)' <=> WasFilled(q)
  <2>1. CASE NoOrder
    BY <2>1 DEF NoOrder, WasFilled, OrdersOf
  <2>2. ASSUME NEW x \in Tickets, NEW c \in Cycles \cup {NoCycle}, NEW s \in {"working", "open"},
               NewOrder(x, r, c, s)
        PROVE  \A q \in Requests \ {r} : WasFilled(q)' <=> WasFilled(q)
    <3>1. /\ orders[x] = Unissued
          /\ orders'[x] = [req |-> r, cycle |-> c, state |-> s]
          /\ \A y \in Tickets \ {x} : orders'[y] = orders[y]
      BY <2>2 DEF NewOrder, OrderTypes
    <3>2. orders'[x].req = r /\ orders[x].req = NoRequest
      BY <3>1 DEF Unissued
    <3>3. QED
      BY <3>1, <3>2, NonesAreDistinct DEF WasFilled, OrdersOf
  <2>3. QED
    BY <2>1, <2>2
<1>5. ~WasFilled(r)
  BY <1>3 DEF WasFilled, OrdersOf
<1>6. ShownFilled' \in {ShownFilled, ShownFilled \cup {r}}
  BY <1>4, <1>5 DEF ShownFilled
<1>7. QED
  BY <1>1, <1>2, <1>6 DEF DeskSends

\* A working order that is filled is filled while its request is open: a verdict
\* would have had to foresee it.  No other move shows.
LEMMA MoveOnDesk ==
  ASSUME StoreTypes, OrderTypes, BooksInv, NEW x \in Tickets, OrderMoves(x)
  PROVE  DeskStutters \/ \E r \in Requests : DeskFills(r)
<1>1. UNCHANGED <<ShownDesk, ShownSent>>
  BY DEF OrderMoves, ShownDesk, Shown, Recorded, ShownSent
<1>2. PICK s \in {"open", "closed", "void"} :
        /\ orders' = [orders EXCEPT ![x].state = s]
        /\ \/ orders[x].state = "working" /\ s \in {"open", "void"}
           \/ orders[x].state = "open" /\ s = "closed"
  BY DEF OrderMoves, EndedNow, ClosedNow
<1>3. /\ orders'[x].req = orders[x].req /\ orders'[x].state = s
      /\ \A y \in Tickets \ {x} : orders'[y] = orders[y]
  BY <1>2 DEF OrderTypes, Order
<1>4. PICK r \in Requests : orders[x].req = r /\ x \in OrdersOf(r)
  BY <1>2 DEF BooksInv, OrdersAreOwned, Unissued, OrdersOf
<1>5. \A q \in Requests \ {r} : WasFilled(q)' <=> WasFilled(q)
  BY <1>3, <1>4 DEF WasFilled, OrdersOf
<1>6. WasFilled(r)' <=> s \in Filled
  BY <1>3, <1>4 DEF WasFilled, OrdersOf, BooksInv, OrdersAreUnique
<1>7. WasFilled(r) <=> orders[x].state \in Filled
  BY <1>4 DEF WasFilled, OrdersOf, BooksInv, OrdersAreUnique
<1>8. \A q \in Requests :
        (q \in ShownFilled <=> WasFilled(q)) /\ (q \in ShownFilled' <=> WasFilled(q)')
  BY DEF ShownFilled
<1>9. ShownFilled \subseteq Requests /\ ShownFilled' \subseteq Requests
  BY DEF ShownFilled
<1>10. CASE orders[x].state = "working" /\ s = "open"
  <2>1. WasFilled(r)' /\ ~WasFilled(r)
    BY <1>6, <1>7, <1>10 DEF Filled
  <2>2. r \notin ShownFilled /\ ShownFilled' = ShownFilled \cup {r}
    BY <1>4, <1>5, <1>8, <1>9, <2>1
  <2>3. dispatched[r] > 0
    BY <1>4 DEF BooksInv, OrdersAreOwned
  <2>4. ledgerSaved /\ r \in Recorded(ledger)
    BY <1>4, <2>3 DEF BooksInv, DispatchedIsDurable
  <2>5. VerdictIsTrue(r, ledger[r].status) /\ MayBeFilled(r) /\ ~WasFilled(r)
    BY <1>4, <1>7, <1>10 DEF BooksInv, MayBeFilled, Filled
  <2>6. ledger[r].status \notin FinalStatus
    BY <1>4, <2>5 DEF VerdictIsTrue, FinalStatus
  <2>7. Shown(r) = "open"
    BY <2>4, <2>6 DEF Shown, FinalStatus
  <2>8. DeskFills(r)
    BY <1>1, <1>4, <2>2, <2>3, <2>7 DEF DeskFills, ShownSent
  <2>9. QED
    BY <1>4, <2>8
<1>11. CASE ~(orders[x].state = "working" /\ s = "open")
  <2>1. WasFilled(r)' <=> WasFilled(r)
    BY <1>2, <1>6, <1>7, <1>11 DEF Filled
  <2>2. UNCHANGED ShownFilled
    BY <1>5, <1>8, <1>9, <2>1
  <2>3. QED
    BY <1>1, <2>2 DEF DeskStutters
<1>12. QED
  BY <1>10, <1>11

\* A restart shows the same desk: what was not on disk was not shown.
LEMMA RestartOnDesk == ASSUME StoreTypes, Restart PROVE DeskStutters
<1> USE DEF Restart, Reloaded
<1>1. \A r \in Requests : Shown(r)' = Shown(r)
  BY DEF Shown, Recorded, StoreTypes
<1>2. UNCHANGED <<ShownSent, ShownFilled>>
  BY DEF ShownSent, ShownFilled, WasFilled, OrdersOf
<1>3. QED
  BY <1>1, <1>2 DEF DeskStutters, ShownDesk

\* Every step of either path is a step of the desk or a stutter.
LEMMA StepsAreDeskSteps ==
  ASSUME StoreTypes, OrderTypes, BooksInv, BookStep
  PROVE  [Desk!DeskNext]_(Desk!deskVars)
<1>1. CASE UNCHANGED <<ledger, ledgerSaved, orders, dispatched>>
  <2>1. DeskStutters
    BY <1>1 DEF DeskStutters, ShownDesk, Shown, Recorded, ShownSent, ShownFilled, WasFilled, OrdersOf
  <2>2. QED
    BY <2>1, DeskMoves
<1>2. QED
  BY <1>1, WriteOnDesk, CallOnDesk, MoveOnDesk, RestartOnDesk, DeskMoves DEF BookStep

\* With empty stores and nothing sent, the desk is empty.
LEMMA EmptyDesk == NoStores /\ NothingSent => Desk!DeskInit
<1> SUFFICES ASSUME NoStores, NothingSent PROVE Desk!DeskInit
  OBVIOUS
<1>1. ShownDesk = [r \in Requests |-> "none"]
  BY DEF NoStores, ShownDesk, Shown
<1>2. ShownSent = {}
  BY DEF NothingSent, ShownSent
<1>3. ShownFilled = {}
  BY DEF NothingSent, ShownFilled, WasFilled, OrdersOf, Unissued, Filled
<1>4. QED
  BY <1>1, <1>2, <1>3 DEF Desk!DeskInit

=============================================================================
