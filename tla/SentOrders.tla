----------------------------- MODULE SentOrders -----------------------------
(***************************************************************************)
(* The orders the broker adapter has sent, as the broker knows them, beside*)
(* what the stores say of them; shared by the DEMO and the REAL order path.*)
(* The REAL adapter of MetaTrader 5 inherits execute, query_order and      *)
(* close_position from the DEMO one.                                       *)
(***************************************************************************)
EXTENDS SavedStores

VARIABLES
  orders,      \* the broker: what became of each ticket
  dispatched   \* history: execute calls made on the adapter for each request

\* A ticket is "unissued", an order still "working" at the broker, an "open"
\* position, a position that was "closed", or an order that was "void":
\* canceled, rejected or expired without a deal.
OrderState == {"unissued", "working", "open", "closed", "void"}
Order == [req : Requests \cup {NoRequest}, cycle : Cycles \cup {NoCycle},
          state : OrderState]
Unissued == [req |-> NoRequest, cycle |-> NoCycle, state |-> "unissued"]
Filled == {"open", "closed"}

NothingSent ==
  /\ orders = [x \in Tickets |-> Unissued]
  /\ dispatched = [r \in Requests |-> 0]

\* The broker's side of adapter.execute: no order, or one with a new ticket.
NoOrder == UNCHANGED orders
NewOrder(x, r, c, s) ==
  /\ orders[x] = Unissued
  /\ orders' = [orders EXCEPT ![x] = [req |-> r, cycle |-> c, state |-> s]]

\* An open position is closed.
ClosedNow(x) ==
  /\ orders[x].state = "open"
  /\ orders' = [orders EXCEPT ![x].state = "closed"]

\* A working order is filled or ends without a deal.
EndedNow(x) ==
  /\ orders[x].state = "working"
  /\ \E s \in {"open", "void"} : orders' = [orders EXCEPT ![x].state = s]

-----------------------------------------------------------------------------
(* Properties of the stores and the orders together. *)

\* Every variable has its type.
OrderTypes ==
  /\ orders \in [Tickets -> Order]
  /\ dispatched \in [Requests -> Nat]

\* The adapter is called at most once for a request_id, whatever threads,
\* failed writes and restarts do (gateway.py and real_gateway.py: the checks
\* for an earlier record and the reservation before the order is sent).
AtMostOneDispatch == \A r \in Requests : dispatched[r] <= 1

\* No order exists that the ledger file does not know: a restart right after
\* the adapter call finds the request (gateway.py:105-106).
DispatchedIsDurable ==
  \A r \in Requests : dispatched[r] > 0 => ledgerSaved /\ r \in Recorded(ledger)

\* What the ledger finally says of a request agrees with the broker: a
\* request is only called executed if its order was filled, and only called
\* rejected or not executed if it was not (mark_rejected, reconcile).
OrdersOf(r) == {x \in Tickets : orders[x].req = r}
WasFilled(r) == \E x \in OrdersOf(r) : orders[x].state \in Filled
MayBeFilled(r) == \E x \in OrdersOf(r) : orders[x].state \in Filled \cup {"working"}
VerdictsAreTrue ==
  \A r \in Requests :
    /\ ledger[r].status = "RECONCILED_EXECUTED" => WasFilled(r)
    /\ ledger[r].status \in {"REJECTED", "RECONCILED_NOT_EXECUTED"} => ~MayBeFilled(r)

\* No order is left at the broker without a true verdict.
EveryOrderIsSettled ==
  \A x \in Tickets : orders[x].req # NoRequest =>
    /\ orders[x].state # "working"
    /\ ledger[orders[x].req].status = ReconciledStatus(orders[x].state \in Filled)

\* What the stores show of an order desk: a durable record is an open request,
\* its final status the desk's verdict.
Shown(r) ==
  IF ~ledgerSaved \/ r \notin Recorded(ledger) THEN "none"
  ELSE IF ledger[r].status = "RECONCILED_EXECUTED" THEN "executed"
  ELSE IF ledger[r].status \in FinalStatus THEN "not executed"
  ELSE "open"
ShownDesk == [r \in Requests |-> Shown(r)]
ShownSent == {r \in Requests : dispatched[r] > 0}
ShownFilled == {r \in Requests : WasFilled(r)}

\* The stores implement the abstract order desk.
Desk == INSTANCE OrderDesk WITH desk <- ShownDesk, sent <- ShownSent, filled <- ShownFilled
ImplementsOrderDesk == Desk!DeskSpec
=============================================================================
