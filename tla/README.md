# A formal model of Controlador Trading

Controlador Trading turns market data into a decision (COMPRA, VENDA, AGUARDAR),
weighs its risk, sends an order to a broker and records what became of it. These
modules model the part in which a mistake costs money and a test can hardly
reach it: **the life of an order**, from the trading cycle or the human
confirmation that asks for it to the verdict both execution stores give of it,
with threads, failed writes, a
crashing process, a broker that answers late or wrongly, and an operator who
reconciles by hand. Beside that path they model the components that decide whether an order
may be asked for at all, or that keep something an operator relies on: the
automation and its limits, the kill switch and the records, the market report,
the chain of learning, the study material, preferences and notifications, alerts,
and the rate limit.

TLC checks the model on small instances. TLAPS proves every safety property, every
action property and both refinements that the passing runs check, for every instance:
any number of threads, requests, failures and crashes. The liveness of the DEMO path
stays with TLC.

Source paths below are relative to the repository (`src/` in `PROJECT.json`).

1. [The system](#1-the-system): components, state, operations, interactions, hazards
2. [The modules](#2-the-modules): which models what, and where they abstract
3. [The runs](#3-the-runs): what each shows, bounds, fairness
4. [Disagreements with the documents](#4-disagreements-with-the-documents)
5. [The proofs](#5-the-proofs)
6. [The plan](#6-the-plan): what is still to be modelled, and in which order
7. [What is not modelled](#7-what-is-not-modelled)

## 1. The system

One process (`app.py`) serves every request on a thread of its own
(`ThreadingWSGIServer`). All threads share the singletons built by
`core/operational_runtime.py:37-83`: one ledger, one lifecycle store, one
checkpoint, one kill switch, one safety store. DEMO and REAL share the ledger,
the lifecycle and the checkpoint. None of these objects has a thread lock; the
two execution stores take an exclusive lock on a file around each mutation.

```
 POST /api/runtime/cycle    POST /api/runtime/{close,reconcile}    POST /api/runtime/real/*
          |                                |                              |
   TradingRuntime.run          TradingRuntime                   RealRuntimeController
   readiness, recovery         .reconcile_external_cycle        RealManualConfirmationGate
          |                                |                              |
   ExecutionGateway                        |                   RealExecutionGateway
          |         \                      |                     /        |
          |          +---- ExecutionLedger, ExecutionLifecycleStore,      |
          |                checkpoint (files shared by all threads)       |
   ICMarketsMT5DemoAdapter -- broker: orders, deals, positions -- ICMarketsMT5RealAdapter
```

### Components

For each: its state, its operations, who it interacts with, what is hard about
it, and what makes it correct. *[M]* marks what the modules model, *[M in part]*
where something is left out; section 2 and `PROJECT.json` say what.

**Execution ledger** *[M in part]* (`execution/execution_ledger.py`). State: a JSON file
of records per request_id (status, cycle_id, external_id) and a dictionary in
memory that every call first reloads. Operations: `reserve`, `mark_accepted`,
`mark_rejected`, `mark_unknown`, `bind_external_id`, `reconcile`,
`find_by_cycle_id`, `status`, `record_for`, `records`. Mutations hold a file
lock, reads hold none. Hard: threads between load, mutation and write; a write
that fails; a crash. Correct: a request is reserved once and durably; a record,
its cycle, its ticket and a final status are never lost or changed; a ticket
names one request.

**Execution lifecycle** *[M]* (`execution/execution_lifecycle.py`). State: a JSON
file and a dictionary of PENDING, ACCEPTED, REJECTED or UNKNOWN per request_id.
Operations: `put`, `get`, `reconcile`. Its load *merges* the file into the
dictionary, so a record whose write failed lives on in memory. Correct: UNKNOWN
is left only by a reconciliation; the pair with the ledger says what happened.

**DEMO gateway** *[M]* (`execution/gateway.py`). State: ids processed by this
process. One operation, `execute`: validation, market data report, kill switch,
duplicate checks, reservation, lifecycle record, broker call, recording of the
result, with `_mark_rejected` and `_mark_unknown` on the error paths, which
swallow what the stores raise. Correct: an order is sent at most once, and only
after its reservation is durable.

**Trading runtime** *[M in part]* (`core/trading_runtime.py`,
`core/execution_coordinator.py`). `run` loops over analysis, readiness, gateway,
checkpoint; `reconcile_external_cycle` validates an operator's ticket against
both stores, binds it, asks the broker and settles both stores;
`validate_external_cycle_identity` is the first half of that. Hard: everything it
decides was read before a broker call, and every store is written by others
meanwhile. Correct: a verdict agrees with the broker, and can be reached by
asking again.

**Restart recovery and checkpoint** *[M]* (`core/recovery_coordinator.py`,
`core/runtime_checkpoint.py`). `assess` compares checkpoint, lifecycle and ledger
and names every request that is pending, unknown or inconsistent; a cycle starts
only if there is none. Correct: it lets nothing outstanding be left behind, and
what it refuses can be put right.

**DEMO broker adapter** *[M: what it may answer]*
(`execution/icmarkets_mt5_demo_adapter.py`). `execute`, `query_order`,
`close_position` over the MetaTrader 5 library, whose connection is global to the
process. Hard: an answer may be missing, late, or say less than what happened.

**HTTP application** *[M: the order endpoints]* (`app.py`). Concurrent requests of
an operator who may be mistaken, repeat a request, or close and reconcile while a
cycle runs.

**REAL execution** *[M in part]* (`core/real_runtime_controller.py`,
`execution/real_gateway.py`, `core/real_manual_confirmation.py`,
`execution/adapter_gateway.py`, `core/p114_real_safety_gate.py`,
`core/p117_real_admission.py`). State: pending and consumed confirmations with a
time to live, in memory only; orders in the shared stores. Operations: `prepare`,
`confirm`, `reconcile`, `close_and_reconcile`. Hard: check-then-act on the
confirmations by several threads, expiry, safety evaluated before the
confirmation is judged, a crash between ledger and lifecycle. Correct: a REAL
order is sent once, for a confirmation of that very order made in this life of
the process, and both stores know of it before the broker does.

**Controlled automation** *[M in part]* (P41-P50:
`integration/controlled_automation_service.py`, `core/automation_lifecycle_store.py`,
`core/p46_automation_lifecycle.py`). State: cycles in a dictionary all threads share
and in a file that is loaded, changed and replaced without a lock. Operations:
`admit`, `mark_dispatched`, `block`; `complete` exists and nothing in the service
calls it. Hard: memory is changed before the file; a save carries whatever the file
held when it was read. Correct: no order goes out whose cycle the file does not
have; a saved state never goes back.

**Decision and risk** *[M in part]* (`analysis/`, `core/decision_engine.py`,
`core/risk_manager.py`) and **risk policy and budgets** *[M]*
(`core/p39_pretrade_risk.py`, `core/p40_risk_budget.py`,
`core/automation_risk_policy.py`). Sequential; limits on losses, operations and
exposure, over an account that was read a moment ago, perhaps in part. Correct: an
approved order fits every limit on the account as it was when it was read, and missing
information never approves.

**Operational safety** *[M in part]* (`core/kill_switch.py`,
`core/operational_safety_store.py`, `core/market_data_runtime_state.py`,
`core/market_data_runtime_integrity.py`). State: the kill switch in memory and in a
file that the decision audit also rewrites; one market report for all threads.
Hard: the file's content is gathered in two reads; the report belongs to whoever
wrote it last. Correct: a thrown switch stays thrown, through a restart too; no
order on another instrument's report or on old candles.

**Operation memory and audit** *[M in part]* (`core/operation_memory.py`,
`core/operation_memory_store.py`, `core/p4_operational_recorder.py`,
`core/persistent_operational_recorder.py`, `audit/`). State: chronological records of
decisions and of operations, in two files. Hard: the time of a cycle is taken before
its market is read, so that cycles reach the recorder in another order; one of the
two files may not be written. Correct: a saved operation has its saved decision, and
what is saved is only added to.

**Market data providers** *[M in part]* (`data/`,
`execution/icmarkets_mt5_market_data.py`). Candles of a symbol and timeframe, the
forming one never among them. Hard: a provider that is behind; an age that is
counted from the candle's opening in one place and from its close in another.

**Learning and adaptation chain** *[M in part]* (P51-P119, P128, P138, P139). About
seventy pure boundaries; each takes frozen artefacts, checks them and returns a new
one. Hard: nothing but ids ties a late artefact to an early one, and ids are given
by callers. Correct: nothing is learned, adapted, used or released that the early
boundaries did not corroborate, approve or validate, however artefacts are mixed.

**Study material** *[M in part]* (`core/p128_learning_source_gate.py`, the learning part of
`integration/ecosystem_service.py`). State: sources, resources, observations, shared
by all threads. Hard: handlers look a source up and judge that object later; sources
and resources are tied by an id only one of them strips. Correct: knowledge is
admitted, and observations validated, of checked https sources alone.

**Preferences and ecosystem state** *[M in part]*
(`integration/ecosystem_configuration_runtime.py`, `core/ecosystem_preferences.py`,
`core/ecosystem_state_store.py`, `core/ecosystem_notifications.py`). State: preferences
and notifications in memory and in two rows of a database. Hard: numbering,
appending, listing and saving are four steps; what is stored is read back by a
stricter reader. Correct: what was answered is stored; the service starts again.

**Alerts** *[M in part]* (`core/p33_operational_alerts.py` to
`core/p35_alert_deduplication.py`). Correct: an alert that stands reaches the sink,
once unless the sink failed.

**Web security guard** *[M in part]* (`security_guard.py`). A sliding-window rate limit
whose buckets are shared by all threads. Correct: at most `limit` accepted requests
of a client in any window; the number of tracked clients is bounded.

**Runtime process lock** *[assumed]* (`core/runtime_process_lock.py`). Non-blocking;
keeps a second process from the same stores. The model assumes it works.

Not modelled: **SaaS, tenants, storage** (`saas/`, `security/`, `storage/`), **cTrader
and remote bridge** (`execution/ctrader_*`, `execution/remote_mt5_bridge.py`), **web
interface, MQL5 panel, deployment scripts** (`web/`, `mql5/`, `deployment/`); see
section 7.

### Hazards

`PROJECT.json` lists every hazard at its line, with the properties that would
catch it or the reason why none does. The ones the present modules are
aimed at:

- two threads pass the duplicate checks for one request before either reserves it;
- a crash, or a failed write, between any two of: reservation, lifecycle record,
  broker call, binding of the ticket, ledger status, lifecycle status, checkpoint;
- a reconciliation that settles an order while the gateway is still recording it;
- decisions taken after a broker call on what the stores held before it;
- a ticket the operator enters while the gateway binds its own;
- an order that was sent and reported as not sent;
- a restart that resumes beside an order nobody has settled, or never resumes;
- a dictionary that two threads reload, change and write, while a third reads;
- a confirmation that two threads use, that expires, or that a restart has lost;
- a cycle that memory has as dispatched and the file has not, or the reverse;
- two saves of one unlocked file, and a save that could not read it;
- a limit that is compared before or after the operation it is about, and a counter
  nobody knows that counts as zero;
- a kill switch, a decision and an operation saved by different threads, in another
  order than they happened;
- a market report another thread wrote between readiness and gateway;
- artefacts of different cycles, proposals or hypotheses brought together at a late
  boundary;
- a source that one handler looked up and another has judged meanwhile;
- an event or a preference that is in memory and not stored, or stored and cannot be
  read back;
- an alert that a failing sink swallows, and a request too many at the edge of the
  window.

## 2. The modules

| Module | Models | State |
|---|---|---|
| `ExecutionStores` | the two stores and the recovery verdict as data: for each mutation of the source, a guard `Can...` (what it raises on, negated) and the new value | none |
| `SavedStores` | the stores of the process in memory and on disk: writes, failed writes, restart | ledger, lifecycle, checkpoint |
| `SentOrders` | the orders at the broker beside the stores, and the properties that relate the two | orders, dispatched |
| `DemoExecution` | the DEMO order path: cycles, gateway, reconciliation, close, manual reconciliation, broker, crash | see below |
| `RealExecution` | the REAL order path: prepare, confirm, gateway, close, reconcile, expiry, crash; and its properties | see below |
| `DemoExecutionProperties` | what `DemoExecution` must guarantee | - |
| `OrderDesk` | the abstract promise of the stores: opened before sent, sent at most once while open, one true verdict | desk, sent, filled |
| `StoreProofs` | lemmas about the stores, for both paths | - |
| `DemoExecutionProofs`, `RealExecutionProofs` | theorems about the two paths | - |
| `SharedLedger` | inside `ExecutionLedger`: lock, reload, mutation, write, unlocked reads, several threads and instances | file, records, lock, threads |
| `SharedLifecycle` | inside `ExecutionLifecycleStore`: lock, merging reload, mutation, save, unlocked reads, failed saves, restart | lifeFile, lifeRecords, lifeLock, lifeCall |
| `AtomicLedger` | the abstract promise of a ledger call: it takes effect at one moment, on disk; and what a status read through a shared dictionary may be | durable, had, phase, asked, answer |
| `RiskLimits` | decision engine, risk manager, P39, P40 and the readiness report as operators | none |
| `ReplacedFile` | a file rewritten whole through one temporary file, as data | none |
| `AutomationCycle` | the automation around a cycle: account, admission, saves, hand-off, restart | account, cycles, cycleFile, run, orders |
| `OperationRecords` | decisions, operations, kill switch and their two files | audit, memory, switch, two files |
| `MarketReport` | the one market report, and candles that age | now, report, reading |
| `Papers` | the artefacts of the boundaries, held by anybody in any mixture | papers, established |
| `LearningEvidence` | P47-P55, P128, P138, P139: from a finished cycle to trusted knowledge | papers |
| `AdaptationGates` | P56-P76: from knowledge to the context of the next cycle | papers |
| `KnowledgeGates` | P77-P95: hypotheses, validation, knowledge in use | papers |
| `FeedbackGates` | P96-P119: observation of knowledge in operation, and the release of REAL execution | papers |
| `LearningLibrary` | sources, resources, observations on request threads | sources, resources, observations |
| `EcosystemState` | notifications and preferences in memory and database | center, preferences, stored |
| `RateLimit` | `SecurityGuard.allow` on threads | tracked, bucket, served |
| `Alerts` | assessment, delivery and deduplication (P33-P35) | alerts, lastKeys, notified |
| `SharedStoresProofs` | theorems about `SharedLedger` and `SharedLifecycle` | - |
| `AutomationProofs` | theorems about `AutomationCycle` and `RiskLimits` | - |
| `AdaptationProofs` | theorems about `LearningEvidence` and `AdaptationGates` | - |
| `KnowledgeProofs` | theorems about `KnowledgeGates` and `FeedbackGates` | - |
| `ServicesProofs` | theorems about `LearningLibrary`, `MarketReport`, `Alerts`, `EcosystemState`, `OperationRecords`, `RateLimit` | - |
| `MCDemoExecution`, `MCRealExecution`, `MCSharedLedger` | symmetry and the sharing pattern for TLC | - |
| `MCServices` | the components beside the order's path, one at a time | part |

`DemoExecution` and `RealExecution` EXTEND `SentOrders`, which EXTENDS
`SavedStores`, which EXTENDS `ExecutionStores`: the two paths share the operators
of the stores and of the broker, and the refinement mapping (`Desk`) under which
both implement `OrderDesk`. They are checked apart: no run mixes DEMO and REAL
orders. The components beside the order's path share no state with it as they are
modelled; where one meets it (the gateway's answer, the switch and the report the
gate looks at), the module says what it takes of it. `SharedLedger` uses the same
store operators and instantiates `AtomicLedger` (`Atomic`).

### DemoExecution and the code

| Variable | Code |
|---|---|
| `ledger`, `ledgerSaved` | what `ExecutionLedger._load` leaves in `_records`; whether the file exists. Once it does, a reload makes memory and file equal, so one variable is enough |
| `lifecycle`, `lifeSaved` | what `ExecutionLifecycleStore._load` leaves in `_records`; the request_ids the file has |
| `checkpoint` | `last_request_id` of the checkpoint file |
| `processed` | `ExecutionGateway._processed_request_ids` |
| `usedCycles` | cycle_ids generated so far (uuid4: never repeated) |
| `call[t]` | the thread's place in the code and its local variables: request, cycle, ticket, the ledger status and lifecycle state it read, whether the identity was bound, the broker's answer |
| `orders` | the broker: a ticket is unissued, or an order that is working, void, an open position, or closed |
| `dispatched` | history: calls of `executor.execute` per request |
| `faults`, `crashes` | failed writes and crashes so far, bounded by `MaxFaults`, `MaxCrashes` |

An action is one call on a store, one call on the broker, or one decision on
values read earlier. Its place (`pc`) is where the thread may be preempted:

| Actions | Code |
|---|---|
| `StartCycle`, `Readiness`, `SaveCheckpoint` | `TradingRuntime.run` |
| `Gate`, `CheckDuplicate`, `CheckPriorLifecycle`, `Reserve`, `RecordStart`, `Dispatch`, `BindExternalId`, `MarkAccepted`, `RecordAcceptance` | `ExecutionGateway.execute`, in its order |
| `MarkRejected`, `PutRejected`, `MarkUnknown`, `PutUnknown` | `_mark_rejected`, `_mark_unknown` |
| `StartReconcile`, `FindIdentity`, `InspectLifecycle`, `AttachTicket`, `ReadStatusAgain`, `OrderSettles`, `OrderUnsettled`, `SettleLedger`, `ConcludeLifecycle` | `/api/runtime/reconcile`: `validate_external_cycle_identity`, `reconcile_external_cycle` |
| `ClosePosition` | `/api/runtime/close`: `close_position`, then reconcile if it was accepted |
| `StartManualReconcile`, `JudgeStatus` (then `SettleLedger`, `ConcludeLifecycle`) | `/api/runtime/real/reconcile`: `reconcile_unknown`, which accepts any request of the shared stores |
| `BrokerMoves` | the broker between calls: a working order fills or ends, a position is closed |
| `Crash` | process death and the next start: what no file holds is lost |

What the model abstracts, and why that keeps its answers true of the code:

- **Store calls are atomic** in `DemoExecution`. Whether they are is the question of
  `SharedLedger` and `SharedLifecycle`. Their answer for the ledger is "yes, whoever
  shares an instance, except for a call whose dictionary a reader replaces before it is
  saved, and for what a reader of a shared instance is told" (runs `calls` and
  `reader`).
- **`assess` is one step** inside `Readiness`, though it reads three files.
  Splitting it is planned (section 6).
- **Refusals before the reservation** (validation, market data, kill switch, the
  readiness checks other than recovery) are a free choice: the order path must be
  right whichever of them blocks.
- **`get` followed by `put`** in `_mark_rejected` and `_mark_unknown` is one step.
  `put` tests UNKNOWN again, and skipping the put is the same as making it at the
  moment of the `get`.
- **A refusal by readiness ends the cycle without a checkpoint** (`run` breaks out
  of its loop at lines 299 and 354); every answer of the gateway is followed by
  one. An exception of the recorders counts as a checkpoint that was not saved.
- **Failed writes.** `OSError` of the temporary file or of `os.replace`. The
  ledger keeps the mutation in memory only while there is no file; the lifecycle,
  which merges, as long as the file lacks the key.
- **A crash keeps what was written.** Neither store syncs its file; a power
  failure that loses a completed `os.replace` is outside the model.
- **Several request_ids.** The service gives every cycle the id `runtime-000001`
  (`trading_runtime.py:230`; `run_mt5_cycle` passes no factory). The runtime's
  interface allows others, and the model takes any.
- **`CarelessOperator`**: the operator may enter any ticket for any cycle and
  declare anything. Otherwise only tickets the broker issued for that cycle, and
  a manual declaration only of the truth, once nothing of the request is served
  or working.
- **`SilentReplies`**: the adapter may report an order it placed as refused (no
  return value, an unexpected retcode, no ticket).

### RealExecution and the code

The store and broker variables are those of `DemoExecution`; `prepared`, `pending`,
`consumed` and `expired` are the confirmations, `call` is a thread's place and what
it has read.

| Actions | Code |
|---|---|
| `StartPrepare`, `Prepare` | `RealRuntimeController.prepare`: evaluate authorization, safety, admission; then add a pending confirmation |
| `StartConfirm`, `LookUp`, `Consume` | `confirm`: evaluate again, look the confirmation up, spend it, and let the gateway judge what was evaluated |
| `CheckStatus`, `Reserve`, `RecordStart`, `Dispatch`, `BindExternalId`, `MarkAccepted`, `RecordAcceptance`, `MarkRejected`, `PutRejected`, `MarkUnknown`, `PutUnknown` | `RealExecutionGateway.execute`, with `BrokerAdapterGateway.execute` inside `Dispatch` |
| `StartClose`, `ClosePosition`, `SettleLedger`, `ConcludeLifecycle` | `close_and_reconcile` |
| `StartReconcile`, `SettleLedger`, `ConcludeLifecycle` | `reconcile_unknown` |
| `Expire`, `BrokerMoves`, `Crash` | the clock, the broker, process death: confirmations are lost |

What differs from the DEMO gateway, and is kept: whatever raises ends the call, so
a `mark` that fails leaves out the lifecycle `put` that follows it; a failure after
an acceptance marks nothing UNKNOWN; a failing or missing adapter is uncertain; no
cycle is reserved and no checkpoint written. The confirmation is spent *before* the
gateway looks at authorization, admission and safety.

Abstracted: what authorization, safety and admission answer is a free choice, but
that they cannot all be right when the recovery verdict is not. The fingerprint of
an order is its request. The operator of `reconcile` tells the truth once the
request is settled at the broker and no confirmation of it is being served;
`reconcile_unknown` itself does not check either, and accepts a RESERVED request
whose order is being sent.

### SharedLedger and the code

Each thread runs `_mutate_locked` (acquire, load, replace, check, assign, write,
release) or an unlocked read (load, replace, get), one step at a time. `records`
is one dictionary per instance; the running program has one instance, its tests
open several on one file. `_load` reads the file and *then* replaces the
dictionary; `mutation` looks at the dictionary and *then* assigns to the one that
is there by then; `_write` saves the dictionary as it is by then. These three
"then"s are what the module is about.

In the running program every thread reads through the one instance
(`operational_runtime.py:37-83`, `gateway.py:94`), and so may every thread here. What
that costs is told by three history variables: `replaced` has the calls between load
and save whose dictionary a reader has put another in the place of; `intact` says that
no such call has been saved so far; `had` has the statuses each request ever had in the
file. `ImplementsAtomicLedger` excepts exactly the steps `ActsOnReplaced`, the check and
the save of a call in `replaced`, and nothing before or after them. A read through a
dictionary of the thread's own (`Lone`) has its answer at one moment; a read through a
shared one may be told a status the request had before, or one a call under way is about
to give it and may fail to. `ReservedOnce` and `ReservedIsDurable` hold while `intact`;
`GrantedIsDurable` is the second without that condition, and the run `reader` refutes
it.

`SharedLifecycle` does the same for the lifecycle store (`BeginLifeCall`,
`AcquireLock`, `LoadText`, `MergeRecord`, `FinishRead`, `CheckState`, `AssignState`,
`SaveRecords`, `SaveRecordsFails`, `LifecycleRestart`), whose `_load` puts the records
of the file into the dictionary one by one and drops none. So a reader with an older
text may put an old state back between another thread's load and save, of that
thread's request or of another, but cannot make a request vanish. `unread` says that
no such reader came in between.

### AutomationCycle, RiskLimits and the code

| Actions | Code |
|---|---|
| `Evaluate` | `run_mt5_cycle` reads the account once, and `TradingOrchestrator.evaluate` decides on it; nothing the threads share is touched in between |
| `Admit` | `authorize`, `build_plan`, `build_intent`, readiness and `admit` with P39 and P40: ADMITTED or BLOCKED |
| `MarkDispatched`, `Block` | the same in `ControlledAutomationService`, memory first |
| `Load`, `Write`, `Replace`, `SaveFails` | `AutomationLifecycleStore.save`, which every one of them ends with |
| `Send`, `Duplicate`, `Refused` | `execute_plan` and the gateway's answer |
| `AccountMoves`, `AutomationRestart` | the broker account; a new process |

The gateway answers in one step here; `DemoExecution` has its steps. The account is
trades, losing streak, loss and volume; of the first three together, and of the volume,
the broker library may not be able to tell. A run keeps what it read (`seen`) and, as a
history, the account as it was then (`began`): the orders carry the latter, so that a
property about them does not ask what the code believed but what was so. Volumes and losses are counted in units of the smallest order, so that
the comparisons of `RiskLimits` are those of the code. What the analysis found is any
member of `Analyses`; how it is found is numeric. A file that cannot be read is
loaded as an empty one, as the code does. `undisturbed` says that no such load and
no two overlapping saves happened so far: without it the code promises nothing
(section 4).

### OperationRecords, MarketReport and the code

`OperationRecords`: a record is named by the time of its cycle. `BeginCycle` takes
the time, `RecordDecision`, `PassGate`, `RecordOperation` are the gateway's calls on
the recorder; `Throw`, `ResetSwitch`, `Acknowledge` the operator's. A save takes the
switch (`TakeSwitch`), then the audit (`WriteSafety`), then replaces the file
(`ReplaceSafety`); `record_operation` saves the memory before. A record older than
the last one raises and is not kept. `calm` says that no two saves of one file
overlapped.

`MarketReport`: time is in minutes and passes at any moment. An analysis and a cycle
take the time, fetch candles (`Fetch`: the last closed ones, or older ones of a slow
provider, with or without a gap), update the one report; a cycle then judges its own
candles (`JudgeReadiness`) and the gateway the report there is by then
(`PassReport`). Readiness counts the age from a candle's opening, the report from its
close: both are modelled as they are. The checks inside one candle are one flaw.

### Papers, the four groups of boundaries, and the code

About seventy modules `core/p47_*.py` to `core/p119_*.py` are pure functions over
frozen artefacts. A *paper* is such an artefact, reduced to kind, identifier, the
work it is about (`source`) and verdict: the fields later boundaries compare.
`papers` are those somebody holds; each boundary is an action that picks held papers
of the kinds it takes, checks what it checks, and issues a new one. Nothing else ties
them together, so every mixture of papers, of ids given twice and of orders is a
behaviour. `established` keeps what was really found out (this proposal was
approved, this hypothesis had a positive result; of this cycle this outcome and gain
were recorded, an observation said the same), for the properties alone. What callers may
record and observations may say are `Reports`.
Boundaries whose only effect is to copy their input under another kind are actions of
one line (`Passes`).

A group begins where the one before ended: with a paper of it, and with what the
group before guarantees of that paper, and no more. `TakeKnowledge` takes trusted
knowledge of a cycle that an observation agreed with on something (what
`EvidenceIsCorroborated` says of such a paper), `TakeContext` a context
that was approved, eligible and verified (`NextCycleWasEarned`), `TakeOperation`
knowledge in operation of a hypothesis whose result was positive, whose governance
was closed and which was retained (`KnowledgeWasValidated`). `GivenIds` are the ids
such papers have. The property of each group is therefore an invariant of all four.

Texts, metrics and timestamps are left out; a boundary that refuses issues no paper.

### LearningLibrary, EcosystemState, RateLimit, Alerts and the code

- `LearningLibrary`: `BeginScreening`, `Screen`, `InsertSource`, `RegisterResource` are
  `screen_learning_source` and `add_learning_resource`; `LookUpSource`, `JudgeSource`
  the handlers of validate and admit, which look the source up and judge that object
  later; `Observe` a validated observation. A resource id may have blanks around it,
  which the gate strips and the resource keeps. `apart`: no two threads were
  screening one subject at once.
- `EcosystemState`: `NumberEvent`, `AppendEvent`, `ListEvents` and `ReplacePreference`,
  `AssignPreferences`, `TakePreferences` lead to `SaveState` or `SaveStateFails`;
  `StateRestart` restores what is stored or does not start. A preference is the
  default, another known value, unknown text, or no text at all. `serial`: no two
  calls overlapped.
- `RateLimit`: `allow` step by step. `Prune` lists the stale clients (`PruneRaises`: the
  dictionary changed size under the iteration), `DropStale` takes one of them out,
  whatever has become of it, `FetchBucket` looks up or makes the client's bucket,
  `DropExpired` drops one time that left the window, `Count` compares with the limit,
  `AppendTime` records the request, `BoundClients` gives up one client at a time. Buckets are objects: a thread
  goes on with one that another has taken out of the dictionary, and what such a bucket
  holds is not followed. `oneByOne`: no two threads were inside `allow` at once.
- `Alerts`: `BeginDispatch` takes any report `Assessed` can give, `Suppress`, `Deliver`,
  `SinkRaises` go through its alerts, `EndDispatch` remembers the keys.

The history variables `undisturbed`, `calm`, `serial`, `apart` and `oneByOne` exist
because nothing in the code keeps these calls apart. Properties that need them say
so: they hold of every failure, restart and interleaving but overlapping saves (or
calls) of the same object, and the overlap is in the model and reported here as what
the code does not promise. Where a property holds of overlapping calls as well
(`OrdersFitTheLimits`, `AdmittedWasChecked`, `ServiceStartsAgain`,
`OrdersRestOnSoundCandles`), it does not mention them.

## 3. The runs

Every action of every module fires in some passing run.

| Run | Instance | Question | Result |
|---|---|---|---|
| `threads` | 2 requests, 2 cycles, 2 tickets, 2 threads, 1 crash | Are final verdicts true of the broker (`VerdictsAreTrue`)? Does a permitted restart leave nothing unsettled (`ResumeLeavesNothingBehind`)? Types | holds |
| `faults` | 1 request, 2 cycles, 2 tickets, 2 threads, 1 failed write, 1 crash, misreporting broker, careless operator | Is it sent once (`AtMostOneDispatch`), only when durable (`DispatchedIsDurable`), and does the ledger only advance (`LedgerOnlyAdvances`)? | holds |
| `restarts` | 2 requests, 3 cycles, 2 tickets, 1 thread, 1 failed write, 1 crash, misreporting broker, careless operator | Does recovery keep a second order from being sent beside an unsettled one (`OneOrderAtATime`)? Does a ticket name one request (`TicketsNameOneRequest`)? | holds |
| `live` | 1 request, 2 cycles, 2 tickets, 1 thread, 1 failed write, 1 crash, fairness | Is every order the broker has finally resolved in both stores (`PlacedOrdersAreResolved`)? Do the stores, failing writes included, implement the abstract desk (`ImplementsOrderDesk`)? | holds |
| `real` | 2 requests, 2 tickets, 2 confirmations, 2 threads, 1 failed write, 1 crash | Is a REAL order sent once (`AtMostOneDispatch`), recorded first (`ArmedIsRecorded`), and only on its own confirmation of this life of the process (`OrdersAreConfirmed`)? Are verdicts true, restarts safe, the desk implemented (`VerdictsAreTrue`, `ResumeLeavesNothingBehind`, `ImplementsOrderDesk`)? | holds |
| `calls` | ledger: 2 threads on one instance and a third on another, 2 requests, all of them reserve and read; lifecycle: 2 threads, 2 requests, 3 states, 1 fault | Is every step of a ledger call but `ActsOnReplaced` one of an atomic ledger (`ImplementsAtomicLedger`)? Are reservations single (`ReservedOnce`) and durable (`ReservedIsDurable`) until a replaced dictionary is saved? Does the lifecycle file lose no request, and leave UNKNOWN by a reconciliation alone unless a read came between (`UncertaintyIsKept`)? | holds |
| `services` | each component beside the order's path by itself; below | 18 properties; below | holds |
| `reader` | 2 threads on one instance, reserving and reading, as in the program | Is a granted reservation on disk, whatever was saved (`GrantedIsDurable`)? | violated |
| `silent` (REAL), `blocked`, `stuck` (DEMO), `dup` (automation) | smallest instances | see section 4 | violated |

### The run `services`

A behaviour chooses a `part` and exercises that component alone, so that the state
space is the sum of the parts': 1.77 million states in about two and a half minutes.

| Part | Question | Bounds | States |
|---|---|---|---|
| automation | Is every order that went out in the file as dispatched or blocked (`SentIsSaved`)? Does a saved cycle never go back or vanish (`SavedNeverGoesBack`)? Did every order fit every limit of the risk manager, P39 and P40 on the account as it was when its run read it, the reading whole or not (`OrdersFitTheLimits`)? | 2 threads, 2 cycles, 2 trades, losses of 0 or 1, 1 fault | 116 000 |
| records | Is an acknowledged kill switch in force in memory and file until it is reset (`ActivationSurvives`)? Has every saved operation its saved decision (`OperationsAreAudited`)? Is what is saved only added to (`SavedRecordsOnlyGrow`)? | 2 workers, 2 operators, 2 cycles, 1 fault | 49 000 |
| market | Does an order rest on fresh, whole candles of its own cycle and on a healthy report of its symbol (`OrdersRestOnSoundCandles`)? | 2 threads, 2 symbols, 2 timeframes, 2 minutes, a lag of 1 candle | 560 000 |
| evidence | Is only learned of what an outside observation corroborated, and does a factual paper say what an observation said (`EvidenceIsCorroborated`)? | 2 cycles, one of them blocked; a win with its gain, a loss without, an unknown outcome; 3 papers | 87 000 |
| adaptation | Is what reaches the next cycle approved, eligible and verified (`NextCycleWasEarned`)? | 2 ids, 3 papers | 106 000 |
| knowledge | Is knowledge promoted, used, operated only of a positive result and a closed governance (`KnowledgeWasValidated`)? | 2 ids, 3 papers | 358 000 |
| feedback | Is REAL released only on a positive operational validation (`ReleaseWasValidated`)? | 2 ids, 3 papers | 61 000 |
| state | Is what was answered stored, under one number (`AnsweredIsStored`)? Does the service start again (`ServiceStartsAgain`)? | 2 threads, 2 fields, 3 calls, 2 faults | 70 000 |
| guard | At most `Limit` requests of a client in a window, and few clients tracked (`RateIsLimited`)? | 2 threads, 2 clients, 1 tracked, limit 2, window 2 in 2 seconds, 4 requests | 236 000 |
| library | Is knowledge admitted (`AdmittedWasChecked`) and observed (`ObservedWasAdmitted`) of checked sources alone? | 2 threads, 1 subject, 1 observation | 103 000 |
| alerts | Has every alert of a dispatched report reached the sink, once unless the sink raised (`StandingAlertsAreTold`)? | every report of three market healths, 1 sink fault | 24 000 |

`RecordsTypeOK` is the type invariant of the part records, whose times must stay in
order. Each group of boundaries begins with a paper of the group before and what that
group guarantees of it (section 2), and the four properties of the chain are asked in
every part. The theorems of section 5 say the same of any number of papers. Two
operators are there because one cannot overtake another: with a single one the run
says nothing of an activation that a deactivation overtakes. Three papers are enough
to bring together two inputs of a boundary and one of another cycle. The limits are set
so that trades, volume and the losing streak each stop an order that nothing else
stops; those on the loss and on operations of the risk manager bind together with others
only, or are unset (0, no limit). The theorem is for all of them. A deadlock is no error: calls, papers and faults are bounded.
Symmetry is over the automation's threads and cycles.

### Bounds, symmetry, deadlock, fairness, mutants

**Why these bounds are enough to be interesting.** Two threads are what an
interleaving needs; the code has no three-way interaction other than operator,
gateway and broker, and the broker is an actor of its own. Two requests make
tickets and the recovery verdict relate different orders; two cycles let a
request be asked for again, three let it be asked for after another one settled.
Two tickets let an operator enter a wrong one. One crash and one failed write can
strike between any two steps, and the same run has both. The theorems of section
5 hold without any of these bounds. Larger instances were explored while the
model was built (two requests with failed writes and two threads, two faults and
two crashes, the abstract desk with two threads and two requests) as far as they
ended; they showed nothing new and take too long to keep.

**Symmetry** over threads, requests, cycles and tickets is used in the safety
runs only, where the properties treat the members of each set alike.

**Deadlock** is not checked in the runs of `DemoExecution` and `RealExecution`:
cycles, confirmations and crashes are bounded, and the system may stop with
everything served. It is checked in `calls`: no thread ever waits for a lock that is
not released, whatever fails.

**Fairness** (`FairSpec`, runs `live` and `stuck`). A thread that can run keeps
running (weak fairness of the steps of each thread: the server schedules it, and
no step waits for another thread). The operator goes on reconciling every ticket
of every cycle and declaring what became of uncertain requests, whenever that is
possible again and again (strong fairness: the code retries nothing by itself,
and says that reconciliation is required). The broker answers a query that is
asked again and again (strong), and a working order does not work for ever (weak).
Nothing is assumed of starting cycles, of crashes or of failed writes; those are
bounded.

**Mutants.** Each property of each passing run is broken by a small change of one
modelled definition, as a bug in that code would: the definitions marked `Mutant`
(a duplicate check that is gone, pending confirmations that survive a restart, a
reservation whose failure is ignored, a mark without its guard, a ticket that may be
taken, readiness without recovery, a working order taken as not executed, a call
without the lock, a mutation without the reload, a save that keeps one cycle, a
failed save that does not stop the run, a switch that starts off, a report of any
symbol, a boundary that takes any verdict, a decision the caller chooses, and so
on).

## 4. Disagreements with the documents

Five runs show the code doing what a document or comment of the repository says it
does not. Each checks one property; TLC's trace is the scenario.

| Run | What the code does | What is said |
|---|---|---|
| `silent` | The adapter answers "not accepted" when the confirmation of an order is missing (`icmarkets_mt5_demo_adapter.py:258-272`, inherited by the REAL adapter), even one the broker accepted without naming a ticket; the ledger calls it REJECTED, a final status, while the order is filled | `P120_REAL_RESULT_CONTRACT_PLAN.md:8`: an accepted result without an external identifier is UNKNOWN |
| `blocked` | The checkpoint names a request that was blocked before its reservation; recovery then refuses for a request no store has, and no reconciliation applies | `recovery_coordinator.py:142`: what diverges requires reconciliation |
| `stuck` | A crash between `reserve` and the first `lifecycle.put` leaves a request that every reconciliation refuses or only half settles | `P28_PLAN.md:4`: uncertain states stay blocked *until* reconciliation |
| `reader` | `record_for` reloads the shared dictionary without the lock; a reservation that returns may be missing from the file | `gateway.py:105-106`: the reservation is durable before the side effect |
| `dup` | `run_mt5_cycle` gives `TradingRuntime.run` no `request_id_factory`: every cycle asks for `runtime-000001`, and after the first order every later cycle is answered DUPLICATE | `P123_PLAN.md:12`: a request_id identifies an intention |

`stuck` is why `PlacedOrdersAreResolved` speaks of orders the broker has: there
the lifecycle record exists, and asking again is enough.

Other behaviours met while modelling, which the models have and no run is kept for:

- A reconciled order may be an open position: an order is settled as soon as its
  opening deal exists, and a new cycle may start beside it
  (`recovery_coordinator.py:113-116` speaks of operations that must not be left
  behind).
- `lifecycle.put` protects only UNKNOWN, so the gateway thread writes over a verdict
  a reconciliation gave meanwhile (`gateway.py:145`). The ledger does not follow
  (`LedgerOnlyAdvances`).
- A reader that loaded the lifecycle file before an UNKNOWN was saved, and merges that
  text while another thread is between its load and its check, lets `put` write over
  the UNKNOWN (`execution_lifecycle.py:36` calls it terminal until reconciled).
  `UncertaintyIsKept` fails on the same instance when `unread` is taken out of it.
- `AutomationLifecycleStore.load` takes an unreadable file for an empty one
  (`automation_lifecycle_store.py:26-29`), and the next save drops every other cycle.
  Two overlapping saves lose one of the two; the kill switch's file and the operation
  memory have the same window.
- A preference that is no text passes the conversion
  (`ecosystem_configuration_runtime.py:410-417`), is stored, and `from_dict`
  (`ecosystem_preferences.py:107-142`) raises on it at the next start.
- A resource id with blanks around it finds no source
  (`ecosystem_service.py:173-175`): its observations are validated without one.
- The readiness of a cycle counts the age of a candle from its opening, the runtime's
  report from its close (`market_data_runtime_integrity.py:66-70`).
- After a dispatch that raised, the deduplicator compares with the report before it:
  a condition that was absent meanwhile is not told when it returns
  (`p35_alert_deduplication.py:42-51`, `P35_PLAN.md:18`).
- A reconciliation names its cycle and a state, and no outcome (P49). P50 refuses papers
  of different cycles (`p50_automation_result_snapshot.py:34`), but where two outcomes of
  *one* cycle were recorded, it composes either with the agreement an observation gave to
  the other, and P51 takes the snapshot for factual: `P51_PLAN.md:10` has only
  reconciled facts eligible. `EvidenceIsCorroborated` asks of a factual paper that an
  observation said what it says where one outcome was recorded of the cycle, and always
  of the papers of P139, which records and reconciles in one call; without `OneOutcome`
  it fails on the same instance.
- P62 and P90 compare ids the callers give (`p62_controlled_adaptation.py:21`,
  `p90_controlled_knowledge_use.py:27`); an adaptation disposed of as RETIRE may be found
  eligible (P69); the release closure looks at verdicts only
  (`p119_release_closure.py:24`). The properties of these parts hold all the same,
  because a later boundary asks again or because what is mixed had been found out.

## 5. The proofs

For every value of the constants that their named assumptions allow: any requests,
cycles, tickets, confirmations, threads, instances, subjects, clients and ids, any
number of failed writes, crashes, papers and calls. An assumption in the third column
is a hypothesis of the theorem; "while ..." names a condition that the property itself
states.

| Module | Theorem | Statement |
|---|---|---|
| `DemoExecutionProofs` | `TypeCorrectness` | `Spec => []TypeOK` |
| | `LedgerAdvances` | `Spec => LedgerOnlyAdvances`: no durable record, cycle, ticket or final status is lost or changed by any step, failed write or crash |
| | `OneRequestPerTicket` | `Spec => []TicketsNameOneRequest` |
| | `NoSecondDispatch` | `Spec => []AtMostOneDispatch` |
| | `NoForgottenDispatch` | `Spec => []DispatchedIsDurable` |
| | `TrueVerdicts` | `Honest /\ Spec => []VerdictsAreTrue` |
| | `NothingLeftBehind` | `Honest /\ Spec => []ResumeLeavesNothingBehind` |
| | `DemoIsAnOrderDesk` | `Honest /\ Spec => ImplementsOrderDesk` (the refinement) |
| | `OneOrderThenTheNext` | `OneThread /\ Spec => []OneOrderAtATime` |
| `RealExecutionProofs` | `RealTypeCorrectness` | `Spec => []TypeOK` |
| | `RealNoSecondDispatch` | `Spec => []AtMostOneDispatch` |
| | `RealArmedIsRecorded` | `Spec => []ArmedIsRecorded`: both files have an order before it is sent |
| | `RealOrdersAreConfirmed` | `Spec => OrdersAreConfirmed`: every order is sent for a spent confirmation of that request made in this life of the process |
| | `RealTrueVerdicts` | `Faithful /\ Spec => []VerdictsAreTrue` |
| | `RealNothingLeftBehind` | `Faithful /\ Spec => []ResumeLeavesNothingBehind` |
| | `RealIsAnOrderDesk` | `Faithful /\ Spec => ImplementsOrderDesk` (the refinement) |
| `SharedStoresProofs` | `LedgerTypeCorrectness` | `Spec => []TypeOK` |
| | `LedgerReservesOnce` | `Spec => []ReservedOnce`, while `intact` |
| | `ReservationsAreDurable` | `Spec => []ReservedIsDurable`, while `intact` |
| | `LedgerIsAtomic` | `Spec => ImplementsAtomicLedger` (the refinement), of every step but `ActsOnReplaced` |
| | `LifecycleKeepsUncertainty` | `LifecycleSpec => UncertaintyIsKept`, its second half while no reader came between another's load and save |
| `AutomationProofs` | `OrdersWithinLimits` | `AutomationSpec => []OrdersFitTheLimits`: streak, operations and loss of the risk manager, volumes of P39, operations and loss of P40 |
| | `SentOrdersAreSaved` | `AutomationSpec => []SentIsSaved`, while `undisturbed` |
| | `SavesGoForward` | `AutomationSpec => SavedNeverGoesBack`, while `undisturbed` |
| `AdaptationProofs` | `EvidenceWasCorroborated` | `EvidenceSpec => []EvidenceIsCorroborated`, what a factual paper says where one outcome was recorded of its cycle or P139 issued it |
| | `AdaptationsAreEarned` | `AdaptationSpec => []NextCycleWasEarned` |
| `KnowledgeProofs` | `UsedKnowledgeWasValidated` | `KnowledgeSpec => []KnowledgeWasValidated` |
| | `ReleasesWereValidated` | `FeedbackSpec => []ReleaseWasValidated` |
| `ServicesProofs` | `AdmissionsWereChecked` | `LibrarySpec => []AdmittedWasChecked` |
| | `ObservationsWereAdmitted` | `LibrarySpec => []ObservedWasAdmitted`, while `apart` |
| | `OrdersHaveSoundCandles` | `MarketSpec => []OrdersRestOnSoundCandles` |
| | `AlertsAreTold` | `AlertsSpec => []StandingAlertsAreTold` |
| | `AnswersAreStored` | `StateSpec => []AnsweredIsStored`, while `serial` |
| | `ServiceRestarts` | `StateSpec => []ServiceStartsAgain`, while no preference that is no text was accepted |
| | `RecordsTypeCorrectness` | `RecordsSpec => []RecordsTypeOK` |
| | `ActivationsSurvive` | `RecordsSpec => []ActivationSurvives`, while `calm` |
| | `OperationsWereAudited` | `RecordsSpec => []OperationsAreAudited`, while `calm` |
| | `SavedRecordsGrow` | `RecordsSpec => SavedRecordsOnlyGrow`, while `calm` |
| | `RatesAreLimited` | `GuardSpec => []RateIsLimited`, the limit while `oneByOne`, the bound on buckets always |

### Assumptions, and why they are needed

The constants: the "None" values are not members of their sets (`NonesAreDistinct`,
`NoCycleAssumption`, `NoConfirmationIsDistinct`), bounds are naturals
(`FaultsAreBounded`, `CrashesAreBounded`, `RecordsAssumption`, ...), switches are
Boolean (`SwitchesAreBoolean`), every timeframe is a positive number of minutes
(`MarketAssumption`), a limit, a window and a bound on clients are at least one and the
threads are finitely many (`GuardAssumption`), there is a preference
(`StateAssumption`), no cycle is both completed and blocked (`EvidenceAssumption`). TLC
evaluates them in every run.

The hypotheses of theorems:

- **`Honest`** (`~SilentReplies /\ ~CarelessOperator`) and, on the REAL path,
  **`Faithful`** (`~SilentReplies`). No code can give a true verdict on the word of a
  broker that refuses an order it placed: the run `silent` is that counterexample on
  the REAL path. On the DEMO path an operator may besides declare an order rejected
  that is live; the form takes what he enters. Everything that does not compare a
  verdict with the broker is proved without these hypotheses: an order is sent at most
  once, and only when recorded, whatever broker and operator say.
- **`OneThread`** for `OneOrderAtATime`. Two threads that run cycles with different
  requests may both read a clean recovery verdict before either has reserved
  (`core/trading_runtime.py:303`, in the list of hazards); the run `restarts` has one
  thread for this reason.

The theorems about the ledger have no hypothesis: threads share instances and read
through them as they like, the program's one instance included.

The conditions `intact`, `undisturbed`, `unread`, `apart`, `serial`, `calm` and `oneByOne`
are history variables, true until the overlap they name has happened (section 2). The
inductive invariants say what holds while they are true, and nothing of what an
overlap leaves behind.

### The DEMO path

1. **`TypeInv`** strengthens `TypeOK` with `CallsNameRequests`: a call past its
   first step names a request. Without it the steps would read the stores at a key
   that is not one. One lemma for the stores, one for the calls and one for the
   rest of the world, each by the actions.
2. **`Advance`** (the action property) follows for one operation from
   `OperationsAdvance`: whatever the ledger allows keeps records, cycles, tickets
   and final statuses. `StepsOperate` shows that every step of every thread writes
   the ledger only through such an operation (`Operated`), in full, failed, or not
   at all; `OperatedAdvances` joins the two. The crash keeps what was saved.
3. **`TicketInv`** adds to `TicketsNameOneRequest` that a request without a record
   has no ticket: the guard of a binding only looks at recorded requests.
4. **`DispatchInv`** is the inductive invariant of the two dispatch theorems.
   `AtMostOneDispatch` alone is not inductive: a thread between its reservation and
   the executor call has a *claim* on its request. `ClaimsAreDurable` says a
   claimed request is on disk and has not been sent; `ClaimsAreExclusive` says two
   threads never claim the same one. `ReserveKeepsDispatchInv` is the step that
   gives a claim (the ledger had no record of the request, so nobody claims it and
   nothing was sent), `DispatchKeepsDispatchInv` the one that uses it up; every
   other step gives nobody a claim (`NoNewClaim`), and the ledger only advances.
5. **`VerdictInv`** is what makes a verdict true. `BooksInv` (in `StoreProofs`, for both
   paths) relates ledger and broker: an order belongs to a request that was sent
   (`OrdersAreOwned`), a request has at most one (`OrdersAreUnique`), and each final
   status says what became of it (`VerdictIsTrue`, which asks more of REJECTED than the
   property does: no order at all, not one that ended unfilled). A status is written
   from what a call read earlier, so the calls carry facts of their own: `Grounded`
   says for each place in the code what the call may rely on (a call about to reject
   has no order, one that seeks an order has the cycle in which it was sent, one that
   settles knows what became of it). `GroundedStays` carries them past the steps of
   others; `HoldsAreExclusive` and `JudgedIsUnclaimed` are needed for it: nobody else
   holds what is held, and nobody settles a request whose order may still be sent.
   `CyclesAreRecorded` ties an order to the cycle of its record.
6. **The refinement** follows from the same state. `BookStep` says what a step may do to
   the books: write a ledger whose new verdicts are true, call the executor for a
   reserved request it was never called for, move an order at the broker, or restart.
   Each is a step of `OrderDesk` or leaves it alone.
7. **`PathInv`** gives `OneOrderAtATime`: while the one cycle is between the recovery
   verdict and the executor call, every request that was sent has a final status, which
   is what `assess` looked at and the ledger keeps (`FinalStays`).

`StoreProofs` holds besides what both paths need of the stores: what a write, good or
bad, keeps of their types (`LedgerWriteTypes`, `LifecycleWriteTypes`), that operations
advance the ledger (`OperatedAdvances`) and give no ticket away twice
(`OperatedKeepsTickets`).

### The REAL path

The inductive invariant is `RealInv`. A REAL call carries more than a DEMO call, and
`CallSound` says what it may rely on while others act: past the look-up its
confirmation was prepared for its very request in this life of the process; past
`Consume` that confirmation is spent; past the reservation the ledger file has the
request and nothing was sent (`Claims`); at the adapter the lifecycle file has it
too. `ClaimsAreExclusive` is as for DEMO. `PendingIsFresh` says that pending
confirmations are of this life: it is what `Crash` must establish by dropping them,
and the invariant breaks when it keeps them. `LifeKept` says the process has what the
lifecycle file has. `FilesGrow` (a lemma over every step but none that shrinks a
file) carries one call's facts past the steps of the others.

`VerdictInv` adds `BooksInv` and its own `Grounded`. A REAL reconciliation finds the
order by the ticket the ledger has, so `TicketsAreOrders` takes the place of the cycles,
and `SettledIsUnclaimed` that of `JudgedIsUnclaimed`. Refinement and restart follow as
on the DEMO path, from the lemmas of `StoreProofs`.

### Inside the stores

`LedgerInv` is the invariant of `SharedLedger`. `ThreadInv`: the lock is held by exactly
the thread that is inside it. `CallsAreCurrent`: a call under the lock that is not in
`replaced` has as its dictionary the file, then what it makes of the file. It is all that
can be said of a dictionary readers share, and enough: such a call is judged by the file
and saves what it made of it. `NothingBefore`: until the file exists only a thread about
to write it has anything. `StatusesAreTrue` is for the readers: what a text or a
dictionary says of a request is a status it had in the file, or the one a call under way
has assigned and not yet saved. Each step of a thread is then a step of `AtomicLedger`
or `ActsOnReplaced` (`EveryStepIsAtomic`): the one that writes the file, or refuses, or
looks the record up (reads the text, where nobody shares the dictionary). Reservations
follow: while `intact`, every save was of a call that was judged by the file, so that
each one recorded what nobody had recorded, and no record was lost since.

`LifeInv` is that of `SharedLifecycle`. A lifecycle reload merges, so the file is not
what the dictionary is: `NoneIsForgotten` says the dictionary has every request the file
has, and `HolderSees` that each UNKNOWN of the file is in the dictionary of the thread
with the lock or in the text it has still to merge, up to its own assignment.

### Beside the path

- `LimitsInv`: before its admission a run has a reading the risk manager allowed, and it
  is a reading of the account as it was (`began`); from the admission on, its two saves
  included, that account has room for the order. `ApprovedFits` joins the two: what the
  evaluators approved was read whole, hence is the account, so that what each of them
  says of the reading is true of it. The property looks only at orders sent; `Send`
  needs it of the thread.
- `SavesInv`: memory is at most one transition ahead of the file (`Ahead`), every copy
  under way is that of the memory (`Carries`), and each run is where the two states say
  it is (`Progress`). The properties look at the file alone, which a save replaces
  whole.
- `LibraryInv`: every source object is `Sound` (validated only from quarantine,
  admitted only when validated), those the handlers *hold* included. The property
  asks it of the dictionary alone and is not inductive, since a handler writes back
  what it looked up long ago. `ScreenInv` follows the url from the screening over the
  dictionary to the resource and the observation.
- `SoundInv`, `EarnedInv`, `FoundedInv`, `BackedInv` (one for each group of boundaries):
  for each kind of paper, what its kind and verdict say has been found out of its cycle,
  proposal or hypothesis. The properties ask it of the last kinds only; each boundary
  hands it from one kind to the next (`IssueIsSound`, `IssueKeeps`, ...: a new paper
  disturbs no other, and findings only grow). What a factual paper says is
  `ConfirmedIfAlone` from the snapshot on: once a second outcome of its cycle is
  recorded nothing is claimed of it any more, so that recording keeps the invariant. In the evidence no single paper excludes
  a blocked cycle: the closure and the outcome do so together, in the snapshot.
- `MarketInv`: past readiness the candles in hand are those readiness judged; time and
  report may have moved on.
- `AlertsInv`: a key remembered was told, and one forgotten only as often as the sink
  raised; in the middle of a dispatch, what is no longer among `left` was told.
- `StateInv`: `RestorableInv` asks what may *come to be* stored of every value a call
  carries; `SerialInv` says what a call carries between two of its steps, and that a
  notification's number is its place (`Numbered`), in memory and in the store.
- `RecordsInv`: times are fresh (`FreshTimes`); a temporary file is between what is
  saved and what is in memory (`SafetyFits`, `MemoryFits`); a decision is saved before
  its operation is in memory at all (`FilesFit`); an activation is in force from its
  save on, and while it is, whoever saves has taken the switch as active (`SwitchInv`).
- `GuardInv`: a bucket is the end of what was served, and what is not in it has left the
  window (`WindowInv`); whoever is between two steps of `allow` has the bucket that is in
  the dictionary (`CalmInv`); and for every bucket too many there is a thread that will
  still give one up, or a client whose new bucket some thread is about to fill
  (`SizeInv`). The last one counts, hence the theorems on cardinality.

### What the proofs changed in the model

- `OperationRecords`: a call whose activation a deactivation overtakes was counted as
  acknowledged, so that `ActivationSurvives` was not inductive. The run had one
  operator and could not see it. `Acknowledge` now asks whether the activation was
  overtaken, and the run has two operators.
- `RateLimit`: one step that took every stale client and every expired time at once
  was wrong, since other threads run in between. The steps are now those of `allow`,
  one client or one time each.
- The groups of boundaries began with papers taken on trust. They begin now with what
  the group before guarantees (section 2), and the properties lost the condition that
  named the group.
- The REAL release asked for a positive result of some validation; the proof of
  `BackedInv` needed the finding to be that of the operational validation
  ("OPERATED"), and the property now says so.

### What is only model-checked

- Liveness: `PlacedOrdersAreResolved` (run `live`). The prover does not reason about
  fairness and ENABLED.
- The runs that find a violation: a counterexample is their result.

Every other property of a passing run is stated by a theorem, under the hypotheses
above. No run checks more than its theorem says: those that check
`VerdictsAreTrue`, `ResumeLeavesNothingBehind` and `ImplementsOrderDesk` have an
honest broker as well, and `restarts` has one thread.

## 6. The plan

In this order, by what matters most to an order's safety. Every module keeps its
parameters as CONSTANTS with named assumptions, one action per operation, no
RECURSIVE operator.

Done:

1. `ExecutionStores`, `SavedStores`, `SentOrders`, `DemoExecution`, `OrderDesk`,
   `SharedLedger`, `AtomicLedger`, and the theorems of the DEMO path.
2. `RealExecution` over the same stores, and its theorems.
3. `AutomationCycle`, `RiskLimits`, `ReplacedFile`: P39 to P50 around a cycle.
4. `OperationRecords`, `MarketReport`: kill switch, records, the one report.
5. `Papers` and the four groups of boundaries, P47 to P119.
6. `LearningLibrary`, `EcosystemState`, `RateLimit`, `Alerts`.
7. `SharedLifecycle`: the merging reload of the lifecycle store, beside
   `SharedLedger`.

To do:

8. `ReplacedFile` with two writers of different length inside the one temporary file,
   and `assess` read by read.
9. The liveness of `RealExecution`: an ACCEPTED order whose position is gone, an
   executed one without a ticket. An operator who declares too early. DEMO and REAL
   orders over the same stores at once.
10. The broker connection (`mt5.initialize` and `shutdown` act on the whole process).
11. Several requests at once in the runtime (`OneOrderAtATime` with two threads).

Theorems worth proving next: the four groups of boundaries as one chain (a composition
in which the papers of one group are those the next begins with, so that the REAL
release of `FeedbackGates` is traced back to the observation of `LearningEvidence`); that `DemoExecution` may take the calls of
the lifecycle store as atomic, which `UncertaintyIsKept` says for the part that
matters; and the invariants of the extensions 8 to 11.

## 7. What is not modelled

- The numbers: candles, scores, indicators, prices, profit, the backtests. They are
  inputs of decisions and decide nothing about an order once it is asked for.
- `ExecutionLedger.record` and the decoding of older file formats: not used on the
  order path.
- Operations no part of the service calls: `settle_operation`,
  `save_execution_audit`, `ControlledAutomationService.complete`, the audit record
  P45.
- Power failure; files corrupted otherwise than as `AutomationLifecycleStore.load`
  allows; a second process (the process lock keeps it out).
- Activities, attempts, the professor and the curricula of P128; texts.
- The cTrader boundary and the remote bridge, which the running service does not
  wire; SaaS and tenant checks, which keep no state of the order path.
- Presentation, I/O, deployment, the MQL5 panel, the web interface.
