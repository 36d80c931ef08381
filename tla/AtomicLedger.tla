---------------------------- MODULE AtomicLedger ----------------------------
(***************************************************************************)
(* What a thread may take for granted about the ledger.  A call takes      *)
(* effect at one moment between its start and its return, on the durable   *)
(* ledger.  A status is what the durable ledger says at that moment when   *)
(* nobody else uses the caller's dictionary; otherwise it may also be one  *)
(* the request had before, or one a call under way is about to give it.    *)
(***************************************************************************)
EXTENDS ExecutionStores

CONSTANTS
  Threads,
  KindsOf,  \* the kinds of call each thread makes
  Lone      \* the threads that share their dictionary with nobody

VARIABLES
  durable,  \* the ledger a restart would find
  had,      \* per request: the statuses it has had in the durable ledger
  phase,    \* per thread: "idle", "called" or "done"
  asked,    \* per thread: the call
  answer    \* per thread: "ok", "refused", or the status that was read

atomicVars == <<durable, had, phase, asked, answer>>

AtomicInit ==
  /\ durable = EmptyLedger
  /\ had = [r \in Requests |-> {"ABSENT"}]
  /\ phase = [t \in Threads |-> "idle"]
  /\ asked = [t \in Threads |-> NoCall]
  /\ answer = [t \in Threads |-> "ok"]

Call(t, op) ==
  /\ phase[t] = "idle"
  /\ op.kind \in KindsOf[t]
  /\ phase' = [phase EXCEPT ![t] = "called"]
  /\ asked' = [asked EXCEPT ![t] = op]
  /\ UNCHANGED <<durable, had, answer>>

\* What calls under way would make of a request.
Coming(r) == {Effect(durable, asked[u])[r].status : u \in {v \in Threads : phase[v] = "called"}}

Readable(t, r) == IF t \in Lone THEN {durable[r].status} ELSE had[r] \cup Coming(r)

Answers(t, a) ==
  /\ phase[t] = "called"
  /\ phase' = [phase EXCEPT ![t] = "done"]
  /\ answer' = [answer EXCEPT ![t] = a]
  /\ UNCHANGED asked

Read(t) ==
  /\ asked[t].kind = "status"
  /\ \E s \in Readable(t, asked[t].req) : Answers(t, s)
  /\ UNCHANGED <<durable, had>>

Refuse(t) ==
  /\ Answers(t, "refused")
  /\ ~Allowed(durable, asked[t])
  /\ UNCHANGED <<durable, had>>

TakeEffect(t) ==
  /\ Answers(t, "ok")
  /\ asked[t].kind # "status" /\ Allowed(durable, asked[t])
  /\ durable' = Effect(durable, asked[t])
  /\ had' = [r \in Requests |-> had[r] \cup {durable'[r].status}]

Return(t) ==
  /\ phase[t] = "done"
  /\ phase' = [phase EXCEPT ![t] = "idle"]
  /\ asked' = [asked EXCEPT ![t] = NoCall]
  /\ answer' = [answer EXCEPT ![t] = "ok"]
  /\ UNCHANGED <<durable, had>>

AtomicNext ==
  \E t \in Threads :
    \/ \E op \in LedgerCall : Call(t, op)
    \/ Read(t) \/ Refuse(t) \/ TakeEffect(t)
    \/ Return(t)
=============================================================================
