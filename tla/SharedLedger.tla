---------------------------- MODULE SharedLedger ----------------------------
(***************************************************************************)
(* Inside ExecutionLedger (execution/execution_ledger.py).  An instance    *)
(* has a dictionary in memory (`_records`), which each call first replaces *)
(* by what the file holds; the program's one instance serves all threads   *)
(* (operational_runtime.py), its tests open several on one file.  A call   *)
(* that changes the ledger does so under an exclusive file lock            *)
(* (_mutate_locked); a call that only reads takes no lock (record_for).    *)
(* Threads are preempted between any two of these steps.                   *)
(***************************************************************************)
EXTENDS ExecutionStores, Naturals

CONSTANTS
  Threads,
  Instances,
  InstanceOf,   \* the instance each thread uses
  NoThread,     \* nobody holds the file lock
  KindsOf       \* the kinds of call each thread makes

ASSUME ThreadsHaveInstances ==
  /\ InstanceOf \in [Threads -> Instances]
  /\ DOMAIN KindsOf = Threads
  /\ NoThread \notin Threads

VARIABLES
  file,     \* the ledger file
  saved,    \* the ledger file exists
  records,  \* per instance: _records
  lock,     \* the thread that holds the file lock
  th,       \* per thread: its call and how far it is
  granted,  \* history: reserve calls saved, per request; 2 is "several"
  had,      \* history: the statuses each request has had in the file
  replaced, \* history: the calls under way whose dictionary another thread replaced
  intact    \* history: no such call has been saved

vars == <<file, saved, records, lock, th, granted, had, replaced, intact>>
history == <<granted, had, replaced, intact>>

Steps == {"idle", "acquire", "load", "replace", "get", "check", "assign", "write",
          "release", "return"}

Thread ==
  [pc     : Steps,
   op     : LedgerCall \cup {NoCall},
   read   : [Requests -> ExecutionLedgerRecord],  \* what _load decoded
   new    : ExecutionLedgerRecord,                \* the record mutation() builds
   answer : {"ok", "refused"} \cup LedgerStatusOrAbsent]

Resting == [pc |-> "idle", op |-> NoCall, read |-> EmptyLedger,
            new |-> AbsentRecord, answer |-> "ok"]

Init ==
  /\ file = EmptyLedger
  /\ saved = FALSE
  /\ records = [i \in Instances |-> EmptyLedger]
  /\ lock = NoThread
  /\ th = [t \in Threads |-> Resting]
  /\ granted = [r \in Requests |-> 0]
  /\ had = [r \in Requests |-> {"ABSENT"}]
  /\ replaced = {}
  /\ intact = TRUE

Sharers(t) == {u \in Threads \ {t} : InstanceOf[u] = InstanceOf[t]}
Mine(t) == records[InstanceOf[t]]
SetMine(t, new) == records' = [records EXCEPT ![InstanceOf[t]] = new]

At(t, step) == th[t].pc = step
Goto(t, step) == th' = [th EXCEPT ![t].pc = step]

Start(t, op) ==
  /\ At(t, "idle")
  /\ op.kind \in KindsOf[t]
  /\ th' = [th EXCEPT ![t] = [Resting EXCEPT
              !.op = op, !.pc = IF op \in Inquiry THEN "load" ELSE "acquire"]]
  /\ UNCHANGED <<file, saved, records, lock, history>>

\* Mutant: nobody waits for the lock.
AcquireAnyway(t) ==
  /\ At(t, "acquire")
  /\ lock' = t
  /\ Goto(t, "load")
  /\ UNCHANGED <<file, saved, records, history>>

Acquire(t) ==
  /\ At(t, "acquire")
  /\ lock = NoThread
  /\ lock' = t
  /\ Goto(t, "load")
  /\ UNCHANGED <<file, saved, records, history>>

AfterLoad(t) == IF th[t].op \in Inquiry THEN "get" ELSE "check"

\* Mutant: a call that changes the ledger works on the dictionary it has.
LoadToReadOnly(t) ==
  /\ At(t, "load")
  /\ th' = [th EXCEPT ![t].read = file,
                      ![t].pc = IF saved /\ th[t].op \in Inquiry
                                  THEN "replace" ELSE AfterLoad(t)]
  /\ UNCHANGED <<file, saved, records, lock, history>>

\* _load reads the file, if there is one, ...
Load(t) ==
  /\ At(t, "load")
  /\ th' = [th EXCEPT ![t].read = file,
                      ![t].pc = IF saved THEN "replace" ELSE AfterLoad(t)]
  /\ UNCHANGED <<file, saved, records, lock, history>>

\* Between the load and the save of a call that changes the ledger.
Changing(k) == k.pc \in {"check", "assign", "write"}

\* ... decodes it and only then replaces the dictionary, whoever is using it.
\* Only an inquiry keeps what it read, to compare it with its answer.
Replace(t) ==
  /\ At(t, "replace")
  /\ SetMine(t, th[t].read)
  /\ replaced' = IF Mine(t) = th[t].read THEN replaced
                 ELSE replaced \cup {u \in Sharers(t) : Changing(th[u])}
  /\ th' = [th EXCEPT ![t].pc = AfterLoad(t),
                      ![t].read = IF th[t].op \in Inquiry THEN @ ELSE EmptyLedger]
  /\ UNCHANGED <<file, saved, lock, granted, had, intact>>

\* Mutant: the answer is another field of the record.
GetCycle(t) ==
  /\ At(t, "get")
  /\ th' = [th EXCEPT ![t].answer = Mine(t)[th[t].op.req].cycle,
                      ![t].read = EmptyLedger, ![t].pc = "return"]
  /\ UNCHANGED <<file, saved, records, lock, history>>

\* record_for: the answer comes from the dictionary as it is now.
Get(t) ==
  /\ At(t, "get")
  /\ th' = [th EXCEPT ![t].answer = Mine(t)[th[t].op.req].status,
                      ![t].read = EmptyLedger, ![t].pc = "return"]
  /\ UNCHANGED <<file, saved, records, lock, history>>

\* mutation(): look at the dictionary and build the new record, or raise ...
Check(t) ==
  LET op == th[t].op
  IN  /\ At(t, "check")
      /\ th' = IF Allowed(Mine(t), op)
                 THEN [th EXCEPT ![t].pc = "assign",
                                 ![t].new = Effect(Mine(t), op)[op.req]]
                 ELSE [th EXCEPT ![t].pc = "release", ![t].answer = "refused"]
      /\ UNCHANGED <<file, saved, records, lock, history>>

\* ... and put it into the dictionary, which may be another one by now.
Assign(t) ==
  /\ At(t, "assign")
  /\ SetMine(t, [Mine(t) EXCEPT ![th[t].op.req] = th[t].new])
  /\ th' = [th EXCEPT ![t].pc = "write", ![t].new = AbsentRecord]
  /\ UNCHANGED <<file, saved, lock, history>>

\* _write: the dictionary as it is now replaces the file.
Write(t) ==
  /\ At(t, "write")
  /\ file' = Mine(t)
  /\ saved' = TRUE
  /\ granted' = IF th[t].op \in Reservation
                  THEN [granted EXCEPT ![th[t].op.req] = IF @ = 0 THEN 1 ELSE 2] ELSE granted
  /\ had' = [r \in Requests |-> had[r] \cup {Mine(t)[r].status}]
  /\ intact' = (intact /\ t \notin replaced)
  /\ Goto(t, "release")
  /\ UNCHANGED <<records, lock, replaced>>

Release(t) ==
  /\ At(t, "release")
  /\ lock' = NoThread
  /\ replaced' = replaced \ {t}
  /\ Goto(t, "return")
  /\ UNCHANGED <<file, saved, records, granted, had, intact>>

Return(t) ==
  /\ At(t, "return")
  /\ th' = [th EXCEPT ![t] = Resting]
  /\ UNCHANGED <<file, saved, records, lock, history>>

Next ==
  \E t \in Threads :
    \/ \E op \in LedgerCall : Start(t, op)
    \/ Acquire(t) \/ Load(t) \/ Replace(t) \/ Get(t)
    \/ Check(t) \/ Assign(t) \/ Write(t)
    \/ Release(t) \/ Return(t)

Spec == Init /\ [][Next]_vars

-----------------------------------------------------------------------------
TypeOK ==
  /\ file \in [Requests -> ExecutionLedgerRecord]
  /\ saved \in BOOLEAN
  /\ records \in [Instances -> [Requests -> ExecutionLedgerRecord]]
  /\ lock \in Threads \cup {NoThread}
  /\ th \in [Threads -> Thread]
  /\ granted \in [Requests -> 0..2]
  /\ had \in [Requests -> SUBSET LedgerStatusOrAbsent]
  /\ replaced \subseteq Threads
  /\ intact \in BOOLEAN

\* What was reserved is on disk: a restart after the executor call finds it
\* (gateway.py:105-106).
GrantedIsDurable ==
  \A r \in Requests : granted[r] > 0 => saved /\ r \in Recorded(file)

\* Whichever threads share an instance and read through it, a request is
\* reserved at most once, and what was reserved is on disk, for as long as no
\* call has saved a dictionary that a reader put under it.
ReservedOnce == intact => \A r \in Requests : granted[r] <= 1
ReservedIsDurable == intact => GrantedIsDurable

\* What a thread's call looks like from outside: a read through a dictionary
\* nobody else uses has its answer once the text of the file is read, any other
\* read when it looks its record up, a call that changes the ledger once it is
\* written or refused.
Lone == {t \in Threads : Sharers(t) = {}}
Answering(t, k) == t \in Lone /\ k.pc \in {"replace", "get"} /\ k.op \in Inquiry
PhaseOf(t, k) ==
  IF k.pc = "idle" THEN "idle"
  ELSE IF Answering(t, k) \/ k.pc \in {"release", "return"} THEN "done"
  ELSE "called"
AnswerOf(t, k) == IF Answering(t, k) THEN k.read[k.op.req].status ELSE k.answer

Phases == [t \in Threads |-> PhaseOf(t, th[t])]
Asked == [t \in Threads |-> th[t].op]
Answers == [t \in Threads |-> AnswerOf(t, th[t])]

Atomic == INSTANCE AtomicLedger WITH
  durable <- file, phase <- Phases, asked <- Asked, answer <- Answers

\* The one way out: a call looks at, or saves, what a reader put in the place
\* of the dictionary it loaded.
ActsOnReplaced == \E t \in replaced : Check(t) \/ Write(t)

\* Every other step is one of the atomic ledger's, whatever the interleaving and
\* whatever such calls did before it: no update is lost, none is on disk in
\* part, no call is judged by anything but the file (test_execution_lifecycle.
\* py:53 states it of stale instances); and a read through a shared dictionary,
\* though it may be old or early, is of a status the request had or was being
\* given.
ImplementsAtomicLedger ==
  Atomic!AtomicInit /\ [][ActsOnReplaced \/ [Atomic!AtomicNext]_(Atomic!atomicVars)]_vars
=============================================================================
