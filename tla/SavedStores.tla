----------------------------- MODULE SavedStores -----------------------------
(***************************************************************************)
(* The stores of the process as it runs: the execution ledger and the      *)
(* execution lifecycle in memory and on disk, and the runtime checkpoint,  *)
(* shared by the DEMO and the REAL order path (core/operational_runtime.py).*)
(* A write may fail with OSError, and a restart finds what was saved.      *)
(***************************************************************************)
EXTENDS ExecutionStores, Naturals

CONSTANT MaxFaults   \* bound: failed store writes in a behaviour

ASSUME FaultsAreBounded == MaxFaults \in Nat

VARIABLES
  ledger,       \* what ExecutionLedger._load leaves in _records
  ledgerSaved,  \* the ledger file exists; it then holds exactly `ledger`
  lifecycle,    \* what ExecutionLifecycleStore._load leaves in _records
  lifeSaved,    \* the request_ids the lifecycle file holds
  checkpoint,   \* last_request_id of the checkpoint file
  faults        \* failed writes so far

stores == <<ledger, ledgerSaved, lifecycle, lifeSaved, checkpoint, faults>>

NoStores ==
  /\ ledger = EmptyLedger
  /\ ledgerSaved = FALSE
  /\ lifecycle = EmptyLifecycle
  /\ lifeSaved = {}
  /\ checkpoint = NoRequest
  /\ faults = 0

ReadOnly == UNCHANGED stores

\* ExecutionLedger._mutate_locked.  When the write fails the mutation stays
\* in memory, and the next _load undoes it unless there is no file yet.
LedgerWritten(new) ==
  /\ ledger' = new
  /\ ledgerSaved' = TRUE
  /\ UNCHANGED <<lifecycle, lifeSaved, checkpoint, faults>>

LedgerWriteFails(new) ==
  /\ faults < MaxFaults
  /\ faults' = faults + 1
  /\ ledger' \in {ledger, IF ledgerSaved THEN ledger ELSE new}
  /\ UNCHANGED <<ledgerSaved, lifecycle, lifeSaved, checkpoint>>

\* ExecutionLifecycleStore._mutate_locked.  _load merges the file into the
\* dictionary, so a failed write of a key the file lacks stays in memory, and
\* the next successful write of any key saves it too.
LifecycleWritten(new) ==
  /\ lifecycle' = new
  /\ lifeSaved' = {r \in Requests : new[r] # "NONE"}
  /\ UNCHANGED <<ledger, ledgerSaved, checkpoint, faults>>

LifecycleWriteFails(r, new) ==
  /\ faults < MaxFaults
  /\ faults' = faults + 1
  /\ lifecycle' \in {lifecycle, IF r \in lifeSaved THEN lifecycle ELSE new}
  /\ UNCHANGED <<ledger, ledgerSaved, lifeSaved, checkpoint>>

\* A restart: memory that no file holds is lost.
Reloaded ==
  /\ ledger' = IF ledgerSaved THEN ledger ELSE EmptyLedger
  /\ lifecycle' = [r \in Requests |-> IF r \in lifeSaved THEN lifecycle[r] ELSE "NONE"]
  /\ UNCHANGED <<ledgerSaved, lifeSaved, checkpoint, faults>>

-----------------------------------------------------------------------------
(* Parts of properties. *)

\* Every variable has its type.
StoreTypes ==
  /\ ledger \in [Requests -> ExecutionLedgerRecord]
  /\ ledgerSaved \in BOOLEAN
  /\ lifecycle \in [Requests -> LifecycleStateOrNone]
  /\ lifeSaved \subseteq Requests
  /\ checkpoint \in Requests \cup {NoRequest}
  /\ faults \in Nat

\* A final status, a bound ticket and the cycle of a durable record are never
\* changed or lost.
AdvancesTo(old, new) ==
  \A r \in Recorded(old) :
    /\ r \in Recorded(new)
    /\ new[r].cycle = old[r].cycle
    /\ old[r].ticket # NoTicket => new[r].ticket = old[r].ticket
    /\ old[r].status \in FinalStatus => new[r].status = old[r].status
    /\ new[r].status = "RESERVED" => old[r].status = "RESERVED"
=============================================================================
