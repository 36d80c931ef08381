--------------------------- MODULE ExecutionStores ---------------------------
(***************************************************************************)
(* The two durable stores that describe one order, as data: the execution  *)
(* ledger (execution/execution_ledger.py) and the execution lifecycle      *)
(* (execution/execution_lifecycle.py), and the restart verdict that        *)
(* core/recovery_coordinator.py draws from the pair.                       *)
(*                                                                         *)
(* A store is a total function on Requests; "ABSENT" and "NONE" stand for  *)
(* a key that is not in the dictionary.  Each mutation of the source is a  *)
(* guard Can... (the negation of the ValueError it raises) and the new     *)
(* value of the store.  The module has no state of its own.                *)
(***************************************************************************)
EXTENDS FiniteSets

CONSTANTS
  Requests,    \* request_id values
  Cycles,      \* cycle_id values (SeniorContextCycle.cycle_id)
  Tickets,     \* external_id values: the broker's order tickets
  NoRequest,   \* None, for a request_id
  NoCycle,     \* None, for a cycle_id
  NoTicket     \* None, for an external_id

ASSUME NonesAreDistinct ==
  /\ NoRequest \notin Requests
  /\ NoCycle \notin Cycles
  /\ NoTicket \notin Tickets

-----------------------------------------------------------------------------
(* The execution ledger. *)

ExecutionLedgerStatus ==
  {"RESERVED", "ACCEPTED", "REJECTED", "UNKNOWN",
   "RECONCILED_EXECUTED", "RECONCILED_NOT_EXECUTED"}

LedgerStatusOrAbsent == ExecutionLedgerStatus \cup {"ABSENT"}

ExecutionLedgerRecord ==
  [status : LedgerStatusOrAbsent,
   cycle  : Cycles \cup {NoCycle},
   ticket : Tickets \cup {NoTicket}]

AbsentRecord == [status |-> "ABSENT", cycle |-> NoCycle, ticket |-> NoTicket]

EmptyLedger == [r \in Requests |-> AbsentRecord]

\* ExecutionLedger.records()
Recorded(ledger) == {r \in Requests : ledger[r].status # "ABSENT"}

\* Mutant: the reservation does not look for an earlier record.
CanReserveAgain(ledger, r, c) ==
  c # NoCycle => \A q \in Recorded(ledger) \ {r} : ledger[q].cycle # c

CanReserve(ledger, r, c) ==
  /\ r \notin Recorded(ledger)
  /\ c # NoCycle => \A q \in Recorded(ledger) : ledger[q].cycle # c

Reserved(ledger, r, c) ==
  [ledger EXCEPT ![r] = [status |-> "RESERVED", cycle |-> c, ticket |-> NoTicket]]

\* Mutant: a record may be marked whatever its status.
CanMarkAny(ledger, r) == r \in Recorded(ledger)

\* ExecutionLedger._transition: mark_accepted, mark_rejected, mark_unknown
CanMark(ledger, r) == ledger[r].status \in {"RESERVED", "UNKNOWN"}

Marked(ledger, r, s) == [ledger EXCEPT ![r].status = s]

\* Mutant: the ticket may already be another request's.
CanBindTaken(ledger, r, x) ==
  /\ x # NoTicket
  /\ r \in Recorded(ledger)
  /\ ledger[r].ticket \in {NoTicket, x}

CanBind(ledger, r, x) ==
  /\ x # NoTicket
  /\ r \in Recorded(ledger)
  /\ ledger[r].ticket \in {NoTicket, x}
  /\ \A q \in Recorded(ledger) \ {r} : ledger[q].ticket # x

\* Mutant: the ticket goes into the field of the cycle.
BoundAsCycle(ledger, r, x) == [ledger EXCEPT ![r].cycle = x]

Bound(ledger, r, x) == [ledger EXCEPT ![r].ticket = x]

CanReconcile(ledger, r) == ledger[r].status \in {"UNKNOWN", "RESERVED", "ACCEPTED"}

ReconciledStatus(executed) ==
  IF executed THEN "RECONCILED_EXECUTED" ELSE "RECONCILED_NOT_EXECUTED"

Reconciled(ledger, r, executed) ==
  [ledger EXCEPT ![r].status = ReconciledStatus(executed)]

FindByCycleId(ledger, c) == {r \in Recorded(ledger) : ledger[r].cycle = c}

\* Statuses no ledger operation leaves.
FinalStatus == {"REJECTED", "RECONCILED_EXECUTED", "RECONCILED_NOT_EXECUTED"}

\* The calls on the ledger as data: those that change it, and status(), which
\* only reads.  A call that is not Allowed raises ValueError.
Reservation == [kind : {"reserve"}, req : Requests, arg : Cycles \cup {NoCycle}]
Marking == [kind : {"mark"}, req : Requests, arg : {"ACCEPTED", "REJECTED", "UNKNOWN"}]
Binding == [kind : {"bind"}, req : Requests, arg : Tickets]
Settlement == [kind : {"reconcile"}, req : Requests,
               arg : {"RECONCILED_EXECUTED", "RECONCILED_NOT_EXECUTED"}]
Inquiry == [kind : {"status"}, req : Requests, arg : {"none"}]

LedgerCall == Reservation \cup Marking \cup Binding \cup Settlement \cup Inquiry
NoCall == [kind |-> "none", req |-> NoRequest, arg |-> "none"]

Allowed(ledger, op) ==
  CASE op.kind = "reserve"   -> CanReserve(ledger, op.req, op.arg)
    [] op.kind = "mark"      -> CanMark(ledger, op.req)
    [] op.kind = "bind"      -> CanBind(ledger, op.req, op.arg)
    [] op.kind = "reconcile" -> CanReconcile(ledger, op.req)
    [] op.kind = "status"    -> TRUE

Effect(ledger, op) ==
  CASE op.kind = "reserve"              -> Reserved(ledger, op.req, op.arg)
    [] op.kind \in {"mark", "reconcile"} -> Marked(ledger, op.req, op.arg)
    [] op.kind = "bind"                 -> Bound(ledger, op.req, op.arg)
    [] op.kind = "status"               -> ledger

-----------------------------------------------------------------------------
(* The execution lifecycle. *)

ExecutionLifecycleState == {"PENDING", "ACCEPTED", "REJECTED", "UNKNOWN"}

LifecycleStateOrNone == ExecutionLifecycleState \cup {"NONE"}

EmptyLifecycle == [r \in Requests |-> "NONE"]

CanPut(lifecycle, r, s) == lifecycle[r] = "UNKNOWN" => s = "UNKNOWN"

Put(lifecycle, r, s) == [lifecycle EXCEPT ![r] = s]

-----------------------------------------------------------------------------
(* RecoveryCoordinator.assess *)

AllowedPairs(state) ==
  CASE state = "PENDING"  -> {"RESERVED"}
    [] state = "UNKNOWN"  -> {"UNKNOWN", "RESERVED"}
    [] state = "ACCEPTED" -> {"ACCEPTED", "RECONCILED_EXECUTED"}
    [] state = "REJECTED" -> {"REJECTED", "RECONCILED_NOT_EXECUTED"}
    [] state = "NONE"     -> {}

\* The requests assess() calls pending, unknown or inconsistent.
Unresolved(ledger, lifecycle, checkpoint) ==
  LET known == {r \in Requests : r \in Recorded(ledger) \/ lifecycle[r] # "NONE"}
      pending == {r \in known : lifecycle[r] = "PENDING"}
      unknown == {r \in known : \/ lifecycle[r] = "UNKNOWN"
                                \/ ledger[r].status \in {"UNKNOWN", "RESERVED"}}
      mismatched == {r \in known : ledger[r].status \notin AllowedPairs(lifecycle[r])}
      outstanding == {r \in known : ledger[r].status = "ACCEPTED"}
      unidentified == {r \in known : /\ ledger[r].status = "RECONCILED_EXECUTED"
                                     /\ ledger[r].ticket = NoTicket}
      lostCheckpoint == {r \in {checkpoint} \ {NoRequest} :
                           r \notin Recorded(ledger) \/ lifecycle[r] = "NONE"}
  IN  pending \cup unknown \cup mismatched \cup outstanding \cup unidentified
        \cup lostCheckpoint

\* Mutant: an accepted order does not keep the runtime from resuming.
CanResumeWithAccepted(ledger, lifecycle, checkpoint) ==
  \A r \in Unresolved(ledger, lifecycle, checkpoint) : ledger[r].status = "ACCEPTED"

\* RecoveryAssessment.can_resume: FRESH or SAFE_TO_RESUME
CanResume(ledger, lifecycle, checkpoint) ==
  Unresolved(ledger, lifecycle, checkpoint) = {}
=============================================================================
