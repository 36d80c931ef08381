--------------------------- MODULE SharedLifecycle ---------------------------
(***************************************************************************)
(* Inside ExecutionLifecycleStore (execution/execution_lifecycle.py), the  *)
(* one instance all threads share.  put and the second half of reconcile   *)
(* change the dictionary under an exclusive file lock; get, records and    *)
(* the first half of reconcile load it without one.  Where ExecutionLedger *)
(* replaces its dictionary, _load merges the records of the file into it,  *)
(* one at a time and in no order the properties depend on.                 *)
(***************************************************************************)
EXTENDS ExecutionStores, Naturals

CONSTANTS
  LifecycleThreads,
  StatesPut,           \* bound: the states the callers give
  Nobody,              \* nobody holds the file lock
  MaxLifecycleFaults   \* bound: saves that fail, and restarts

ASSUME LifecycleAssumption ==
  /\ Nobody \notin LifecycleThreads /\ MaxLifecycleFaults \in Nat
  /\ StatesPut \subseteq ExecutionLifecycleState

VARIABLES
  lifeFile,      \* the states the file has
  lifeRecords,   \* those in _records
  lifeLock,      \* the thread that holds the file lock
  lifeCall,      \* per thread: its call and how far it is
  unread,        \* no record was merged without the lock while another held it
  lifeFaults

lifecycleVars == <<lifeFile, lifeRecords, lifeLock, lifeCall, unread, lifeFaults>>

NoLifeCall == [pc |-> "idle", kind |-> "get", req |-> NoRequest, state |-> "NONE", text |-> {}]

LifecycleInit ==
  /\ lifeFile = EmptyLifecycle
  /\ lifeRecords = EmptyLifecycle
  /\ lifeLock = Nobody
  /\ lifeCall = [t \in LifecycleThreads |-> NoLifeCall]
  /\ unread = TRUE
  /\ lifeFaults = 0

Asks(t, k) == lifeCall' = [lifeCall EXCEPT ![t] = k]
StepsTo(t, pc) == lifeCall' = [lifeCall EXCEPT ![t].pc = pc]
Leaves(t) == Asks(t, NoLifeCall)

LifecycleFault == lifeFaults < MaxLifecycleFaults /\ lifeFaults' = lifeFaults + 1

\* get and records; put; reconcile, which begins with a get.
BeginLifeCall(t) ==
  /\ lifeCall[t].pc = "idle"
  /\ \/ Asks(t, [NoLifeCall EXCEPT !.pc = "load"])
     \/ \E r \in Requests, s \in StatesPut :
          Asks(t, [NoLifeCall EXCEPT !.pc = "acquire", !.kind = "put", !.req = r, !.state = s])
     \/ \E r \in Requests, s \in StatesPut \cap {"ACCEPTED", "REJECTED"} :
          Asks(t, [NoLifeCall EXCEPT !.pc = "load", !.kind = "reconcile", !.req = r, !.state = s])
  /\ UNCHANGED <<lifeFile, lifeRecords, lifeLock, unread, lifeFaults>>

AcquireLock(t) ==
  /\ lifeCall[t].pc = "acquire" /\ lifeLock = Nobody
  /\ lifeLock' = t
  /\ StepsTo(t, "load")
  /\ UNCHANGED <<lifeFile, lifeRecords, unread, lifeFaults>>

\* _load reads the text of the file, ...
LoadText(t) ==
  /\ lifeCall[t].pc = "load"
  /\ lifeCall' = [lifeCall EXCEPT ![t].pc = "merge",
        ![t].text = {<<r, lifeFile[r]>> : r \in {q \in Requests : lifeFile[q] # "NONE"}}]
  /\ UNCHANGED <<lifeFile, lifeRecords, lifeLock, unread, lifeFaults>>

\* Mutant: the text takes the place of the dictionary, as in the ledger.
ReplaceRecords(t) ==
  /\ lifeCall[t].pc = "merge" /\ lifeCall[t].text # {}
  /\ lifeRecords' = [r \in Requests |->
        IF \E line \in lifeCall[t].text : line[1] = r
        THEN (CHOOSE line \in lifeCall[t].text : line[1] = r)[2] ELSE "NONE"]
  /\ lifeCall' = [lifeCall EXCEPT ![t].text = {}]
  /\ unread' = (unread /\ lifeLock \in {Nobody, t})
  /\ UNCHANGED <<lifeFile, lifeLock, lifeFaults>>

\* ... and puts each record of it into the dictionary.
MergeRecord(t) ==
  /\ lifeCall[t].pc = "merge"
  /\ \E line \in lifeCall[t].text :
       /\ lifeRecords' = Put(lifeRecords, line[1], line[2])
       /\ lifeCall' = [lifeCall EXCEPT ![t].text = @ \ {line}]
  /\ unread' = (unread /\ lifeLock \in {Nobody, t})
  /\ UNCHANGED <<lifeFile, lifeLock, lifeFaults>>

Loaded(t) == lifeCall[t].pc = "merge" /\ lifeCall[t].text = {}

\* A read is answered; a reconciliation of a request nobody knows raises.
FinishRead(t) ==
  /\ Loaded(t) /\ lifeLock # t
  /\ IF lifeCall[t].kind = "reconcile" /\ lifeRecords[lifeCall[t].req] # "NONE"
       THEN StepsTo(t, "acquire")
       ELSE Leaves(t)
  /\ UNCHANGED <<lifeFile, lifeRecords, lifeLock, unread, lifeFaults>>

\* mutation(): a put may raise, a reconciliation looks at nothing ...
CheckState(t) ==
  /\ Loaded(t) /\ lifeLock = t
  /\ IF lifeCall[t].kind = "put" => CanPut(lifeRecords, lifeCall[t].req, lifeCall[t].state)
       THEN StepsTo(t, "assign") /\ UNCHANGED lifeLock
       ELSE Leaves(t) /\ lifeLock' = Nobody
  /\ UNCHANGED <<lifeFile, lifeRecords, unread, lifeFaults>>

\* ... and assigns.
AssignState(t) ==
  /\ lifeCall[t].pc = "assign"
  /\ lifeRecords' = Put(lifeRecords, lifeCall[t].req, lifeCall[t].state)
  /\ StepsTo(t, "save")
  /\ UNCHANGED <<lifeFile, lifeLock, unread, lifeFaults>>

\* _save writes the dictionary as it is by now; the call returns.
SaveRecords(t) ==
  /\ lifeCall[t].pc = "save"
  /\ lifeFile' = lifeRecords
  /\ lifeLock' = Nobody
  /\ Leaves(t)
  /\ UNCHANGED <<lifeRecords, unread, lifeFaults>>

\* The caller is told; the dictionary keeps what it has.
SaveRecordsFails(t) ==
  /\ lifeCall[t].pc = "save" /\ LifecycleFault
  /\ lifeLock' = Nobody
  /\ Leaves(t)
  /\ UNCHANGED <<lifeFile, lifeRecords, unread>>

LifecycleRestart ==
  /\ LifecycleFault
  /\ lifeRecords' = lifeFile
  /\ lifeLock' = Nobody
  /\ lifeCall' = [t \in LifecycleThreads |-> NoLifeCall]
  /\ UNCHANGED <<lifeFile, unread>>

LifecycleNext ==
  \/ \E t \in LifecycleThreads :
       \/ BeginLifeCall(t) \/ AcquireLock(t) \/ LoadText(t) \/ MergeRecord(t) \/ FinishRead(t)
       \/ CheckState(t) \/ AssignState(t) \/ SaveRecords(t) \/ SaveRecordsFails(t)
  \/ LifecycleRestart

LifecycleSpec == LifecycleInit /\ [][LifecycleNext]_lifecycleVars

-----------------------------------------------------------------------------
\* A request the file has is never lost to a reader that merges an older text,
\* to a failed save or to a restart; and unless such a reader came between the
\* load and the save of another thread, a durable UNKNOWN is left by a
\* reconciliation of that request alone (execution_lifecycle.py:36).
UncertaintyIsKept ==
  [][/\ \A r \in Requests : lifeFile[r] # "NONE" => lifeFile'[r] # "NONE"
     /\ unread' => \A r \in Requests : lifeFile[r] = "UNKNOWN" /\ lifeFile'[r] # "UNKNOWN" =>
          \E t \in LifecycleThreads : /\ lifeCall[t].pc = "save" /\ lifeCall[t].kind = "reconcile"
                                      /\ lifeCall[t].req = r]_lifecycleVars
=============================================================================
