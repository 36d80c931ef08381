-------------------------- MODULE SharedStoresProofs --------------------------
(***************************************************************************)
(* Proofs about the inside of the two stores, for any number of threads,   *)
(* instances and requests, whichever threads share an instance and         *)
(* whatever they call:                                                     *)
(*   - every step of a call on the ledger is one of the atomic ledger's,   *)
(*     unless the call looks at, or saves, a dictionary that a reader put  *)
(*     in the place of the one it loaded,                                  *)
(*   - until such a call has saved, a request is reserved once, and what   *)
(*     was reserved is in the file,                                        *)
(*   - the lifecycle store keeps every request, and a durable uncertainty  *)
(*     unless a reader came between the load and the save of another       *)
(*     thread.                                                             *)
(***************************************************************************)
EXTENDS SharedLedger, SharedLifecycle, TLAPS

-----------------------------------------------------------------------------
(* The calls as data. *)

LEMMA CallsHaveKinds ==
  ASSUME NEW op \in LedgerCall
  PROVE  /\ op.req \in Requests
         /\ op \in Inquiry <=> op.kind = "status"
         /\ op \in Reservation <=> op.kind = "reserve"
         /\ op.kind \in {"reserve", "mark", "bind", "reconcile", "status"}
BY DEF LedgerCall, Reservation, Marking, Binding, Settlement, Inquiry

LEMMA EffectIsALedger ==
  ASSUME NEW L \in [Requests -> ExecutionLedgerRecord], NEW op \in LedgerCall
  PROVE  /\ Effect(L, op) \in [Requests -> ExecutionLedgerRecord]
         /\ Effect(L, op) = [L EXCEPT ![op.req] = Effect(L, op)[op.req]]
<1> USE DEF ExecutionLedgerRecord, LedgerStatusOrAbsent, ExecutionLedgerStatus
<1>1. CASE op \in Reservation
  BY <1>1 DEF Reservation, Effect, Reserved
<1>2. CASE op \in Marking
  BY ZenonT(30), <1>2 DEF Marking, Effect, Marked
<1>3. CASE op \in Binding
  BY ZenonT(40), <1>3 DEF Binding, Effect, Bound
<1>4. CASE op \in Settlement
  BY ZenonT(30), <1>4 DEF Settlement, Effect, Marked
<1>5. CASE op \in Inquiry
  BY <1>5 DEF Inquiry, Effect
<1>6. QED
  BY <1>1, <1>2, <1>3, <1>4, <1>5 DEF LedgerCall

\* No call that is allowed loses a record, and a reservation makes one.
LEMMA EffectKeepsRecords ==
  ASSUME NEW L \in [Requests -> ExecutionLedgerRecord], NEW op \in LedgerCall, Allowed(L, op)
  PROVE  /\ Recorded(L) \subseteq Recorded(Effect(L, op))
         /\ op \in Reservation => op.req \notin Recorded(L) /\ op.req \in Recorded(Effect(L, op))
<1> USE DEF ExecutionLedgerRecord, LedgerStatusOrAbsent, ExecutionLedgerStatus, Recorded
<1>1. CASE op \in Reservation
  BY <1>1 DEF Reservation, Effect, Reserved, Allowed, CanReserve
<1>2. CASE op \in Marking
  BY <1>2 DEF Marking, Reservation, Effect, Marked
<1>3. CASE op \in Binding
  BY <1>3 DEF Binding, Reservation, Effect, Bound
<1>4. CASE op \in Settlement
  BY <1>4 DEF Settlement, Reservation, Effect, Marked
<1>5. CASE op \in Inquiry
  BY <1>5 DEF Inquiry, Reservation, Effect
<1>6. QED
  BY <1>1, <1>2, <1>3, <1>4, <1>5 DEF LedgerCall

\* The status a call gives is its own, or the one the request has.
LEMMA StatusOfEffect ==
  ASSUME NEW L \in [Requests -> ExecutionLedgerRecord],
         NEW M \in [Requests -> ExecutionLedgerRecord], NEW op \in LedgerCall
  PROVE  \/ Effect(L, op)[op.req].status = L[op.req].status
         \/ Effect(L, op)[op.req].status = Effect(M, op)[op.req].status
<1> USE DEF ExecutionLedgerRecord
<1>1. CASE op \in Reservation
  BY <1>1 DEF Reservation, Effect, Reserved
<1>2. CASE op \in Marking
  BY <1>2 DEF Marking, Effect, Marked
<1>3. CASE op \in Binding
  BY <1>3 DEF Binding, Effect, Bound
<1>4. CASE op \in Settlement
  BY <1>4 DEF Settlement, Effect, Marked
<1>5. CASE op \in Inquiry
  BY <1>5 DEF Inquiry, Effect
<1>6. QED
  BY <1>1, <1>2, <1>3, <1>4, <1>5 DEF LedgerCall

LEMMA EmptyIsALedger == EmptyLedger \in [Requests -> ExecutionLedgerRecord]
BY DEF EmptyLedger, AbsentRecord, ExecutionLedgerRecord, LedgerStatusOrAbsent

-----------------------------------------------------------------------------
(* The threads and the lock. *)

\* Inside the lock.
Locked(k) ==
  k.op \notin Inquiry /\ k.pc \in {"load", "replace", "check", "assign", "write", "release"}

\* What a call is when a thread is where it is.
CallSound(k, kinds) ==
  /\ k.pc # "idle" => k.op \in LedgerCall /\ k.op.kind \in kinds
  /\ k.pc = "get" => k.op \in Inquiry
  /\ k.pc \in {"acquire", "check", "assign", "write", "release"} => k.op \notin Inquiry
  /\ k.pc \notin {"release", "return"} => k.answer = "ok"

CallsSound == \A t \in Threads : CallSound(th[t], KindsOf[t])
LockIsHeld == \A t \in Threads : lock = t <=> Locked(th[t])

ThreadInv == TypeOK /\ CallsSound /\ LockIsHeld

\* The end of a call, or what becomes of it.
LEMMA RestingIsSound == Resting \in Thread /\ \A kinds : CallSound(Resting, kinds)
BY EmptyIsALedger
   DEF Resting, Thread, Steps, CallSound, AbsentRecord, ExecutionLedgerRecord, LedgerStatusOrAbsent

\* A step of one thread that takes, keeps, releases or does not hold the lock.
LEMMA ThreadStep ==
  ASSUME ThreadInv, NEW t \in Threads, NEW k \in Thread, th' = [th EXCEPT ![t] = k],
         CallSound(k, KindsOf[t]),
         file' \in [Requests -> ExecutionLedgerRecord], saved' \in BOOLEAN,
         records' \in [Instances -> [Requests -> ExecutionLedgerRecord]],
         granted' \in [Requests -> 0..2], had' \in [Requests -> SUBSET LedgerStatusOrAbsent],
         replaced' \subseteq Threads, intact' \in BOOLEAN,
         \/ lock = NoThread /\ lock' = t /\ Locked(k)
         \/ lock = t /\ lock' = NoThread /\ ~Locked(k)
         \/ UNCHANGED lock /\ (Locked(k) <=> Locked(th[t]))
  PROVE  ThreadInv'
<1>1. th'[t] = k /\ \A u \in Threads \ {t} : th'[u] = th[u]
  BY DEF ThreadInv, TypeOK
<1>2. TypeOK'
  BY DEF ThreadInv, TypeOK
<1>3. CallsSound'
  BY <1>1 DEF ThreadInv, CallsSound
<1>4. LockIsHeld'
  BY <1>1, ThreadsHaveInstances DEF ThreadInv, LockIsHeld
<1>5. QED
  BY <1>2, <1>3, <1>4 DEF ThreadInv

\* What the invariant says of one thread.
LEMMA ThreadIs ==
  ASSUME ThreadInv, NEW t \in Threads
  PROVE  /\ th[t] \in Thread /\ CallSound(th[t], KindsOf[t])
         /\ InstanceOf[t] \in Instances /\ Mine(t) \in [Requests -> ExecutionLedgerRecord]
         /\ th[t].pc # "idle" => th[t].op \in LedgerCall /\ th[t].op.req \in Requests
BY ThreadsHaveInstances, CallsHaveKinds DEF ThreadInv, TypeOK, CallsSound, CallSound, Mine

\* A call that goes to another step, and what it keeps.
LEMMA GotoIs ==
  ASSUME ThreadInv, NEW t \in Threads, NEW pc, th' = [th EXCEPT ![t].pc = pc]
  PROVE  \E k : /\ th' = [th EXCEPT ![t] = k] /\ k = [th[t] EXCEPT !.pc = pc]
                /\ k.pc = pc /\ k.op = th[t].op /\ k.read = th[t].read /\ k.new = th[t].new
                /\ k.answer = th[t].answer
                /\ pc \in Steps => k \in Thread
<1> DEFINE k == [th[t] EXCEPT !.pc = pc]
<1>1. th[t] \in Thread /\ th \in [Threads -> Thread]
  BY ThreadIs DEF ThreadInv, TypeOK
<1>2. th' = [th EXCEPT ![t] = k]
  BY <1>1
<1>3. /\ k.pc = pc /\ k.op = th[t].op /\ k.read = th[t].read /\ k.new = th[t].new
      /\ k.answer = th[t].answer
      /\ pc \in Steps => k \in Thread
  BY <1>1 DEF Thread
<1>4. QED
  BY <1>2, <1>3

LEMMA StartKeeps ==
  ASSUME ThreadInv, NEW t \in Threads, NEW op \in LedgerCall, Start(t, op)
  PROVE  ThreadInv'
<1> DEFINE k == [Resting EXCEPT !.op = op, !.pc = IF op \in Inquiry THEN "load" ELSE "acquire"]
<1>1. /\ k.op = op /\ k.pc = (IF op \in Inquiry THEN "load" ELSE "acquire") /\ k.answer = "ok"
      /\ k \in Thread
  BY EmptyIsALedger
     DEF Resting, Thread, Steps, AbsentRecord, ExecutionLedgerRecord, LedgerStatusOrAbsent
<1>2. /\ th' = [th EXCEPT ![t] = k] /\ op.kind \in KindsOf[t] /\ th[t].pc = "idle"
      /\ UNCHANGED <<file, saved, records, lock, granted, had, replaced, intact>>
  BY DEF Start, At, history
<1> HIDE DEF k
<1>3. CallSound(k, KindsOf[t]) /\ ~Locked(k) /\ ~Locked(th[t])
  BY <1>1, <1>2 DEF CallSound, Locked
<1>4. QED
  BY <1>1, <1>2, <1>3, ThreadStep DEF ThreadInv, TypeOK

LEMMA AcquireKeeps ==
  ASSUME ThreadInv, NEW t \in Threads, Acquire(t)
  PROVE  ThreadInv'
<1>1. /\ th[t].pc = "acquire" /\ lock = NoThread /\ lock' = t
      /\ UNCHANGED <<file, saved, records, granted, had, replaced, intact>>
  BY DEF Acquire, At, history
<1>2. PICK k : /\ th' = [th EXCEPT ![t] = k] /\ k.pc = "load" /\ k.op = th[t].op
               /\ k.answer = th[t].answer /\ k \in Thread
  BY ZenonT(30), GotoIs DEF Acquire, Goto, Steps
<1>3. CallSound(k, KindsOf[t]) /\ Locked(k)
  BY <1>1, <1>2, ThreadIs DEF CallSound, Locked
<1>4. QED
  BY <1>1, <1>2, <1>3, ThreadStep DEF ThreadInv, TypeOK

\* Where loading the file leads.
LEMMA LoadIs ==
  ASSUME ThreadInv, NEW t \in Threads, Load(t)
  PROVE  \E k \in Thread :
           /\ th' = [th EXCEPT ![t] = k] /\ k.read = file /\ k.op = th[t].op
           /\ k.answer = th[t].answer /\ k.new = th[t].new
           /\ k.pc = IF saved THEN "replace" ELSE AfterLoad(t)
<1> DEFINE pc == IF saved THEN "replace" ELSE AfterLoad(t)
           k == [th[t] EXCEPT !.read = file, !.pc = pc]
<1>1. th[t] \in Thread /\ th \in [Threads -> Thread] /\ file \in [Requests -> ExecutionLedgerRecord]
  BY ThreadIs DEF ThreadInv, TypeOK
<1>2. pc \in Steps
  BY DEF Steps, AfterLoad
<1>3. th' = [th EXCEPT ![t].read = file, ![t].pc = pc]
  BY DEF Load
<1> HIDE DEF pc
<1>4. /\ k.pc = pc /\ k.op = th[t].op /\ k.read = file /\ k.new = th[t].new
      /\ k.answer = th[t].answer /\ k \in Thread
  BY <1>1, <1>2 DEF Thread
<1>5. th' = [th EXCEPT ![t] = k]
  BY <1>1, <1>3
<1> HIDE DEF k
<1>6. QED
  BY <1>4, <1>5 DEF pc

LEMMA LoadKeeps ==
  ASSUME ThreadInv, NEW t \in Threads, Load(t)
  PROVE  ThreadInv'
<1>1. th[t].pc = "load" /\ UNCHANGED <<file, saved, records, lock, granted, had, replaced, intact>>
  BY DEF Load, At, history
<1>2. PICK k \in Thread :
        /\ th' = [th EXCEPT ![t] = k] /\ k.op = th[t].op /\ k.answer = th[t].answer
        /\ k.pc = IF saved THEN "replace" ELSE AfterLoad(t)
  BY LoadIs
<1>3. CallSound(k, KindsOf[t]) /\ (Locked(k) <=> Locked(th[t]))
  BY <1>1, <1>2, ThreadIs DEF CallSound, Locked, AfterLoad
<1>4. QED
  BY <1>1, <1>2, <1>3, ThreadStep DEF ThreadInv, TypeOK

\* Where replacing the dictionary leads.
LEMMA ReplaceIs ==
  ASSUME ThreadInv, NEW t \in Threads, Replace(t)
  PROVE  \E k \in Thread :
           /\ th' = [th EXCEPT ![t] = k] /\ k.op = th[t].op /\ k.answer = th[t].answer
           /\ k.pc = AfterLoad(t)
           /\ k.read = IF th[t].op \in Inquiry THEN th[t].read ELSE EmptyLedger
<1> DEFINE read == IF th[t].op \in Inquiry THEN th[t].read ELSE EmptyLedger
           k == [th[t] EXCEPT !.pc = AfterLoad(t), !.read = read]
<1>1. th[t] \in Thread /\ th \in [Threads -> Thread]
  BY ThreadIs DEF ThreadInv, TypeOK
<1>2. AfterLoad(t) \in Steps /\ read \in [Requests -> ExecutionLedgerRecord]
  BY <1>1, EmptyIsALedger DEF Steps, AfterLoad, Thread
<1>3. th' = [th EXCEPT ![t].pc = AfterLoad(t), ![t].read = read]
  BY <1>1 DEF Replace
<1> HIDE DEF read
<1>4. /\ k.pc = AfterLoad(t) /\ k.op = th[t].op /\ k.read = read
      /\ k.answer = th[t].answer /\ k \in Thread
  BY <1>1, <1>2 DEF Thread
<1>5. th' = [th EXCEPT ![t] = k]
  BY <1>1, <1>3
<1> HIDE DEF k
<1>6. QED
  BY <1>4, <1>5 DEF read

LEMMA ReplaceKeeps ==
  ASSUME ThreadInv, NEW t \in Threads, Replace(t)
  PROVE  ThreadInv'
<1>1. /\ th[t].pc = "replace" /\ UNCHANGED <<file, saved, lock, granted, had, intact>>
      /\ records' = [records EXCEPT ![InstanceOf[t]] = th[t].read]
  BY DEF Replace, At, SetMine
<1>0. replaced' \subseteq Threads
  BY DEF Replace, ThreadInv, TypeOK, Sharers
<1>2. PICK k \in Thread :
        /\ th' = [th EXCEPT ![t] = k] /\ k.op = th[t].op /\ k.answer = th[t].answer
        /\ k.pc = AfterLoad(t)
  BY ReplaceIs
<1>3. CallSound(k, KindsOf[t]) /\ (Locked(k) <=> Locked(th[t]))
  BY <1>1, <1>2, ThreadIs DEF CallSound, Locked, AfterLoad
<1>4. records' \in [Instances -> [Requests -> ExecutionLedgerRecord]]
  BY <1>1, ThreadIs DEF ThreadInv, TypeOK, Thread
<1>5. QED
  BY <1>0, <1>1, <1>2, <1>3, <1>4, ThreadStep DEF ThreadInv, TypeOK

\* Where answering leads.
LEMMA GetIs ==
  ASSUME ThreadInv, NEW t \in Threads, Get(t)
  PROVE  \E k \in Thread :
           /\ th' = [th EXCEPT ![t] = k] /\ k.op = th[t].op /\ k.pc = "return"
           /\ k.read = EmptyLedger /\ k.answer = Mine(t)[th[t].op.req].status
<1> DEFINE answer == Mine(t)[th[t].op.req].status
           k == [th[t] EXCEPT !.answer = answer, !.read = EmptyLedger, !.pc = "return"]
<1>1. th[t] \in Thread /\ th \in [Threads -> Thread] /\ th[t].op.req \in Requests
  BY ThreadIs DEF ThreadInv, TypeOK, Get, At
<1>2. answer \in LedgerStatusOrAbsent
  BY <1>1, ThreadIs DEF ExecutionLedgerRecord
<1>3. th' = [th EXCEPT ![t].answer = answer, ![t].read = EmptyLedger, ![t].pc = "return"]
  BY DEF Get
<1> HIDE DEF answer
<1>4. /\ k.pc = "return" /\ k.op = th[t].op /\ k.read = EmptyLedger /\ k.answer = answer
      /\ k \in Thread
  BY <1>1, <1>2, EmptyIsALedger DEF Thread, Steps
<1>5. th' = [th EXCEPT ![t] = k]
  BY <1>1, <1>3
<1> HIDE DEF k
<1>6. QED
  BY <1>4, <1>5 DEF answer

LEMMA GetKeeps ==
  ASSUME ThreadInv, NEW t \in Threads, Get(t)
  PROVE  ThreadInv'
<1>1. /\ th[t].pc = "get"
      /\ UNCHANGED <<file, saved, records, lock, granted, had, replaced, intact>>
  BY DEF Get, At, history
<1>2. PICK k \in Thread : th' = [th EXCEPT ![t] = k] /\ k.op = th[t].op /\ k.pc = "return"
  BY GetIs
<1>3. CallSound(k, KindsOf[t]) /\ ~Locked(k) /\ ~Locked(th[t])
  BY <1>1, <1>2, ThreadIs DEF CallSound, Locked
<1>4. QED
  BY <1>1, <1>2, <1>3, ThreadStep DEF ThreadInv, TypeOK

\* Where looking at the dictionary leads.
LEMMA CheckIs ==
  ASSUME ThreadInv, NEW t \in Threads, Check(t)
  PROVE  \E k \in Thread :
           /\ th' = [th EXCEPT ![t] = k] /\ k.op = th[t].op /\ k.read = th[t].read
           /\ \/ /\ Allowed(Mine(t), k.op) /\ k.pc = "assign" /\ k.answer = th[t].answer
                 /\ k.new = Effect(Mine(t), k.op)[k.op.req]
              \/ ~Allowed(Mine(t), k.op) /\ k.pc = "release" /\ k.answer = "refused"
<1> DEFINE op == th[t].op
           new == Effect(Mine(t), op)[op.req]
<1>1. /\ th[t] \in Thread /\ th \in [Threads -> Thread] /\ op \in LedgerCall /\ op.req \in Requests
      /\ Mine(t) \in [Requests -> ExecutionLedgerRecord]
  BY ThreadIs DEF ThreadInv, TypeOK, Check, At
<1>2. new \in ExecutionLedgerRecord
  BY <1>1, EffectIsALedger
<1>3. CASE Allowed(Mine(t), op)
  <2> DEFINE k == [th[t] EXCEPT !.pc = "assign", !.new = new]
  <2>1. th' = [th EXCEPT ![t].pc = "assign", ![t].new = new]
    BY <1>3 DEF Check
  <2> HIDE DEF new
  <2>2. /\ k.pc = "assign" /\ k.op = op /\ k.read = th[t].read /\ k.new = new
        /\ k.answer = th[t].answer /\ k \in Thread
    BY <1>1, <1>2 DEF Thread, Steps
  <2>3. th' = [th EXCEPT ![t] = k]
    BY <1>1, <2>1
  <2> HIDE DEF k, op
  <2>4. QED
    BY <1>3, <2>2, <2>3 DEF new, op
<1>4. CASE ~Allowed(Mine(t), op)
  <2> DEFINE k == [th[t] EXCEPT !.pc = "release", !.answer = "refused"]
  <2>1. th' = [th EXCEPT ![t].pc = "release", ![t].answer = "refused"]
    BY <1>4 DEF Check
  <2>2. /\ k.pc = "release" /\ k.op = op /\ k.read = th[t].read /\ k.answer = "refused"
        /\ k \in Thread
    BY <1>1 DEF Thread, Steps
  <2>3. th' = [th EXCEPT ![t] = k]
    BY <1>1, <2>1
  <2> HIDE DEF k
  <2>4. QED
    BY <1>4, <2>2, <2>3
<1>5. QED
  BY <1>3, <1>4

LEMMA CheckKeeps ==
  ASSUME ThreadInv, NEW t \in Threads, Check(t)
  PROVE  ThreadInv'
<1>1. th[t].pc = "check" /\ UNCHANGED <<file, saved, records, lock, granted, had, replaced, intact>>
  BY DEF Check, At, history
<1>2. PICK k \in Thread :
        /\ th' = [th EXCEPT ![t] = k] /\ k.op = th[t].op
        /\ k.pc = "release" \/ (k.pc = "assign" /\ k.answer = th[t].answer)
  BY CheckIs
<1>3. CallSound(k, KindsOf[t]) /\ Locked(k) /\ Locked(th[t])
  BY <1>1, <1>2, ThreadIs DEF CallSound, Locked
<1>4. QED
  BY <1>1, <1>2, <1>3, ThreadStep DEF ThreadInv, TypeOK

\* Where putting the new record into the dictionary leads.
LEMMA AssignIs ==
  ASSUME ThreadInv, NEW t \in Threads, Assign(t)
  PROVE  /\ \E k \in Thread : /\ th' = [th EXCEPT ![t] = k] /\ k.op = th[t].op
                              /\ k.read = th[t].read /\ k.pc = "write" /\ k.answer = th[t].answer
         /\ records' = [records EXCEPT ![InstanceOf[t]] =
                          [Mine(t) EXCEPT ![th[t].op.req] = th[t].new]]
<1> DEFINE k == [th[t] EXCEPT !.pc = "write", !.new = AbsentRecord]
<1>1. th[t] \in Thread /\ th \in [Threads -> Thread]
  BY ThreadIs DEF ThreadInv, TypeOK
<1>2. AbsentRecord \in ExecutionLedgerRecord
  BY DEF AbsentRecord, ExecutionLedgerRecord, LedgerStatusOrAbsent
<1>3. th' = [th EXCEPT ![t].pc = "write", ![t].new = AbsentRecord]
  BY DEF Assign
<1>4. /\ k.pc = "write" /\ k.op = th[t].op /\ k.read = th[t].read /\ k.answer = th[t].answer
      /\ k \in Thread
  BY <1>1, <1>2 DEF Thread, Steps
<1>5. th' = [th EXCEPT ![t] = k]
  BY <1>1, <1>3
<1> HIDE DEF k
<1>6. QED
  BY <1>4, <1>5 DEF Assign, SetMine

LEMMA AssignKeeps ==
  ASSUME ThreadInv, NEW t \in Threads, Assign(t)
  PROVE  ThreadInv'
<1>1. th[t].pc = "assign" /\ UNCHANGED <<file, saved, lock, granted, had, replaced, intact>>
  BY DEF Assign, At, history
<1>2. PICK k \in Thread :
        /\ th' = [th EXCEPT ![t] = k] /\ k.op = th[t].op /\ k.pc = "write"
        /\ k.answer = th[t].answer
  BY AssignIs
<1>3. CallSound(k, KindsOf[t]) /\ Locked(k) /\ Locked(th[t])
  BY <1>1, <1>2, ThreadIs DEF CallSound, Locked
<1>4. records' \in [Instances -> [Requests -> ExecutionLedgerRecord]]
  <2>1. th[t].new \in ExecutionLedgerRecord
    BY ThreadIs DEF Thread
  <2>2. [Mine(t) EXCEPT ![th[t].op.req] = th[t].new] \in [Requests -> ExecutionLedgerRecord]
    BY <2>1, ThreadIs
  <2>3. records' = [records EXCEPT ![InstanceOf[t]] =
                      [Mine(t) EXCEPT ![th[t].op.req] = th[t].new]]
    BY DEF Assign, SetMine
  <2>4. QED
    BY <2>2, <2>3 DEF ThreadInv, TypeOK
<1>5. QED
  BY <1>1, <1>2, <1>3, <1>4, ThreadStep DEF ThreadInv, TypeOK

LEMMA WriteKeeps ==
  ASSUME ThreadInv, NEW t \in Threads, Write(t)
  PROVE  ThreadInv'
<1>1. /\ th[t].pc = "write" /\ saved' = TRUE /\ file' = Mine(t)
      /\ UNCHANGED <<records, lock, replaced>>
  BY DEF Write, At
<1>0. had' \in [Requests -> SUBSET LedgerStatusOrAbsent] /\ intact' \in BOOLEAN
  <2>1. \A r \in Requests : Mine(t)[r].status \in LedgerStatusOrAbsent
    BY ThreadIs DEF ExecutionLedgerRecord
  <2>2. had' = [r \in Requests |-> had[r] \cup {Mine(t)[r].status}]
    BY DEF Write
  <2>3. had' \in [Requests -> SUBSET LedgerStatusOrAbsent]
    BY <2>1, <2>2 DEF ThreadInv, TypeOK
  <2>4. QED
    BY <2>3 DEF Write
<1>2. PICK k : /\ th' = [th EXCEPT ![t] = k] /\ k.pc = "release" /\ k.op = th[t].op
               /\ k.answer = th[t].answer /\ k \in Thread
  BY ZenonT(30), GotoIs DEF Write, Goto, Steps
<1>3. CallSound(k, KindsOf[t]) /\ Locked(k) /\ Locked(th[t])
  BY <1>1, <1>2, ThreadIs DEF CallSound, Locked
<1>4. file' \in [Requests -> ExecutionLedgerRecord] /\ saved' \in BOOLEAN
  BY <1>1, ThreadIs
<1>5. granted' \in [Requests -> 0..2]
  <2>1. granted \in [Requests -> 0..2]
    BY DEF ThreadInv, TypeOK
  <2>2. \/ granted' = granted
        \/ granted' = [granted EXCEPT ![th[t].op.req] = IF @ = 0 THEN 1 ELSE 2]
    BY DEF Write
  <2>3. QED
    BY <2>1, <2>2
<1>6. QED
  BY <1>0, <1>1, <1>2, <1>3, <1>4, <1>5, ThreadStep DEF ThreadInv, TypeOK

LEMMA LeavingKeeps ==
  ASSUME ThreadInv, NEW t \in Threads, Release(t) \/ Return(t)
  PROVE  ThreadInv'
<1>1. CASE Release(t)
  <2>1. /\ th[t].pc = "release" /\ lock' = NoThread
        /\ UNCHANGED <<file, saved, records, granted, had, intact>> /\ replaced' = replaced \ {t}
    BY <1>1 DEF Release, At
  <2>2. PICK k : th' = [th EXCEPT ![t] = k] /\ k.pc = "return" /\ k.op = th[t].op /\ k \in Thread
    BY ZenonT(30), <1>1, GotoIs DEF Release, Goto, Steps
  <2>3. CallSound(k, KindsOf[t]) /\ ~Locked(k) /\ Locked(th[t])
    BY <2>1, <2>2, ThreadIs DEF CallSound, Locked
  <2>4. lock = t
    BY <2>3 DEF ThreadInv, LockIsHeld
  <2>5. QED
    BY <2>1, <2>2, <2>3, <2>4, ThreadStep DEF ThreadInv, TypeOK
<1>2. CASE Return(t)
  <2>1. /\ th[t].pc = "return" /\ th' = [th EXCEPT ![t] = Resting]
        /\ UNCHANGED <<file, saved, records, lock, granted, had, replaced, intact>>
    BY <1>2 DEF Return, At, history
  <2>2. Resting.pc = "idle" /\ ~Locked(Resting) /\ ~Locked(th[t])
    BY <2>1 DEF Resting, Locked
  <2>3. QED
    BY <2>1, <2>2, RestingIsSound, ThreadStep DEF ThreadInv, TypeOK
<1>3. QED
  BY <1>1, <1>2

LEMMA ThreadsStaySound == ThreadInv /\ [Next]_vars => ThreadInv'
<1> SUFFICES ASSUME ThreadInv, [Next]_vars PROVE ThreadInv'
  OBVIOUS
<1>1. CASE UNCHANGED vars
  BY <1>1 DEF vars, history, ThreadInv, TypeOK, CallsSound, LockIsHeld
<1>2. CASE Next
  BY <1>2, StartKeeps, AcquireKeeps, LoadKeeps, ReplaceKeeps, GetKeeps, CheckKeeps, AssignKeeps,
     WriteKeeps, LeavingKeeps
     DEF Next
<1>3. QED
  BY <1>1, <1>2

LEMMA ThreadsStartSound == Init => ThreadInv
<1> SUFFICES ASSUME Init PROVE ThreadInv
  OBVIOUS
<1>1. /\ file \in [Requests -> ExecutionLedgerRecord] /\ saved \in BOOLEAN
      /\ records \in [Instances -> [Requests -> ExecutionLedgerRecord]]
      /\ lock \in Threads \cup {NoThread} /\ th \in [Threads -> Thread]
  BY EmptyIsALedger, RestingIsSound DEF Init
<1>2. /\ granted \in [Requests -> 0..2] /\ had \in [Requests -> SUBSET LedgerStatusOrAbsent]
      /\ replaced \subseteq Threads /\ intact \in BOOLEAN
  BY DEF Init, LedgerStatusOrAbsent
<1>3. CallsSound /\ LockIsHeld
  BY RestingIsSound, ThreadsHaveInstances DEF Init, CallsSound, LockIsHeld, Locked, Resting
<1>4. QED
  BY <1>1, <1>2, <1>3 DEF ThreadInv, TypeOK

LEMMA ThreadInvariance == Spec => []ThreadInv
BY ThreadsStartSound, ThreadsStaySound, PTL DEF Spec

\* Every variable keeps its type, through every interleaving: see TypeOK.
THEOREM LedgerTypeCorrectness == Spec => []TypeOK
<1>1. ThreadInv => TypeOK
  BY DEF ThreadInv
<1>2. QED
  BY <1>1, ThreadInvariance, PTL

-----------------------------------------------------------------------------
(* What a thread has read is what the file holds.                            *)

\* For thread t at k, with the dictionary mine.  Under the lock the dictionary is
\* the file, then what the call makes of it, unless a reader replaced it; the
\* dictionary of a reader alone is what it read.
Current(t, k, mine) ==
  /\ k.pc = "replace" => saved /\ (k.op \notin Inquiry => k.read = file)
  /\ k.pc = "get" /\ t \in Lone => mine = k.read
  /\ t \notin replaced =>
       /\ k.pc = "check" => mine = file
       /\ k.pc = "assign" =>
            mine = file /\ Allowed(file, k.op) /\ k.new = Effect(file, k.op)[k.op.req]
       /\ k.pc = "write" => Allowed(file, k.op) /\ mine = Effect(file, k.op)
CallsAreCurrent == \A t \in Threads : Current(t, th[t], Mine(t))

\* Before the file exists, only a thread about to write it has anything.
NothingBefore == ~saved =>
  /\ file = EmptyLedger
  /\ \A i \in Instances : \/ records[i] = EmptyLedger
                          \/ \E t \in Threads : th[t].pc = "write" /\ InstanceOf[t] = i

\* Whatever a reader replaced, the statuses that are about are those the requests
\* had in the file, and the one the call under the lock gives.
GivenBy(op, r, s) == op.req = r /\ s = Effect(file, op)[r].status
FileIsHad == \A r \in Requests : "ABSENT" \in had[r] /\ file[r].status \in had[r]
Seen(k) ==
  /\ \A r \in Requests : k.read[r].status \in had[r]
  /\ k.pc = "assign" =>
       k.new.status \in had[k.op.req] \/ GivenBy(k.op, k.op.req, k.new.status)
TextsAreHad == \A t \in Threads : Seen(th[t])
Known(i, L) ==
  \A r \in Requests :
    \/ L[r].status \in had[r]
    \/ \E t \in Threads : /\ th[t].pc = "write" /\ InstanceOf[t] = i
                          /\ GivenBy(th[t].op, r, L[r].status)
RecordsAreKnown == \A i \in Instances : Known(i, records[i])
StatusesAreTrue == FileIsHad /\ TextsAreHad /\ RecordsAreKnown

LedgerInv ==
  /\ ThreadInv /\ CallsAreCurrent /\ NothingBefore /\ StatusesAreTrue
  /\ ReservedOnce /\ ReservedIsDurable

\* A step of t that leaves the dictionary of u alone, or replaces it for u to be
\* counted among the replaced, disturbs no call of u that is not.
LEMMA OthersAreCurrent ==
  ASSUME ThreadInv, NEW t \in Threads, NEW u \in Threads \ {t},
         \A i \in Instances \ {InstanceOf[t]} : records'[i] = records[i],
         Changing(th[u]) /\ u \notin replaced' => u \notin replaced /\ Mine(u)' = Mine(u),
         UNCHANGED <<file, saved>> \/ (lock = t /\ saved'),
         NEW k, k = th[u], Current(u, k, Mine(u)), NEW m, m = records'[InstanceOf[u]]
  PROVE  Current(u, k, m)'
<1>1. CallSound(k, KindsOf[u]) /\ (lock = u <=> Locked(k)) /\ InstanceOf[u] \in Instances
  BY ThreadIs DEF ThreadInv, LockIsHeld
<1>2. Mine(u)' = m
  BY DEF Mine
<1>3. ASSUME k.pc = "replace"
      PROVE  saved' /\ (k.op \notin Inquiry => k.read = file')
  <2>1. CASE k.op \in Inquiry
    BY <1>3, <2>1 DEF Current
  <2>2. CASE k.op \notin Inquiry
    <3>1. lock = u
      BY <1>1, <1>3, <2>2 DEF Locked
    <3>2. UNCHANGED <<file, saved>>
      BY <3>1
    <3>3. QED
      BY <1>3, <2>2, <3>2 DEF Current
  <2>3. QED
    BY <2>1, <2>2
<1>4. ASSUME k.pc = "get", u \in Lone
      PROVE  m = k.read
  <2>1. InstanceOf[t] # InstanceOf[u]
    BY <1>4 DEF Lone, Sharers
  <2>2. m = Mine(u)
    BY <1>1, <2>1 DEF Mine
  <2>3. QED
    BY <1>4, <2>2 DEF Current
<1>5. ASSUME Changing(k), u \notin replaced'
      PROVE  u \notin replaced /\ m = Mine(u) /\ file' = file
  <2>1. lock = u
    BY <1>1, <1>5 DEF Locked, Changing, CallSound
  <2>2. QED
    BY <1>2, <1>5, <2>1
<1>6. ASSUME u \notin replaced'
      PROVE  /\ k.pc = "check" => m = file'
             /\ k.pc = "assign" =>
                  m = file' /\ Allowed(file', k.op) /\ k.new = Effect(file', k.op)[k.op.req]
             /\ k.pc = "write" => Allowed(file', k.op) /\ m = Effect(file', k.op)
  <2>1. CASE Changing(k)
    BY <1>5, <1>6, <2>1 DEF Current
  <2>2. CASE ~Changing(k)
    BY <2>2 DEF Changing
  <2>3. QED
    BY <2>1, <2>2
<1>7. QED
  BY <1>3, <1>4, <1>6 DEF Current

\* Nor does a step that neither writes the file nor makes up a status bring one
\* about that no request had.
LEMMA StatusesStayTrue ==
  ASSUME ThreadInv, StatusesAreTrue, NEW t \in Threads, NEW k, th' = [th EXCEPT ![t] = k],
         UNCHANGED <<file, had>>, th[t].pc # "write", Seen(k),
         \A i \in Instances \ {InstanceOf[t]} : records'[i] = records[i],
         NEW m, m = records'[InstanceOf[t]],
         \/ m = Mine(t)
         \/ \A r \in Requests :
              m[r].status \in had[r] \/ (k.pc = "write" /\ GivenBy(k.op, r, m[r].status))
  PROVE  StatusesAreTrue'
<1>1. th'[t] = k /\ \A u \in Threads \ {t} : th'[u] = th[u]
  BY DEF ThreadInv, TypeOK
<1>2. FileIsHad'
  BY DEF StatusesAreTrue, FileIsHad
<1>3. \A u \in Threads : Seen(th'[u])
  BY <1>1 DEF StatusesAreTrue, TextsAreHad
<1>4. TextsAreHad'
  BY <1>3 DEF TextsAreHad, Seen, GivenBy
<1>5. ASSUME NEW i \in Instances, NEW r \in Requests
      PROVE  \/ records'[i][r].status \in had[r]
             \/ \E u \in Threads : /\ th'[u].pc = "write" /\ InstanceOf[u] = i
                                   /\ GivenBy(th'[u].op, r, records'[i][r].status)
  <2>1. CASE records'[i] = records[i]
    <3>1. \/ records[i][r].status \in had[r]
          \/ \E u \in Threads : /\ th[u].pc = "write" /\ InstanceOf[u] = i
                                /\ GivenBy(th[u].op, r, records[i][r].status)
      BY DEF StatusesAreTrue, RecordsAreKnown, Known
    <3>2. ASSUME NEW u \in Threads, th[u].pc = "write" PROVE th'[u] = th[u]
      BY <1>1, <3>2
    <3>3. QED
      BY <2>1, <3>1, <3>2
  <2>2. CASE records'[i] # records[i]
    <3>1. i = InstanceOf[t] /\ records'[i] = m /\ m # Mine(t)
      BY <2>2 DEF Mine
    <3>2. QED
      BY <1>1, <3>1
  <2>3. QED
    BY <2>1, <2>2
<1>6. RecordsAreKnown'
  BY <1>5 DEF RecordsAreKnown, Known, GivenBy
<1>7. QED
  BY <1>2, <1>4, <1>6 DEF StatusesAreTrue

\* A step of a thread that changes neither the file nor what was granted.
LEMMA UnwrittenStep ==
  ASSUME LedgerInv, ThreadInv', NEW t \in Threads, NEW k, th' = [th EXCEPT ![t] = k],
         UNCHANGED <<file, saved, granted, had, intact>>, th[t].pc # "write", Seen(k),
         \A i \in Instances \ {InstanceOf[t]} : records'[i] = records[i],
         \A u \in Threads \ {t} :
           Changing(th[u]) /\ u \notin replaced' => u \notin replaced /\ Mine(u)' = Mine(u),
         \/ records' = records
         \/ lock = t /\ k.pc = "write"
         \/ saved,
         NEW m, m = records'[InstanceOf[t]], Current(t, k, m)',
         \/ m = Mine(t)
         \/ \A r \in Requests :
              m[r].status \in had[r] \/ (k.pc = "write" /\ GivenBy(k.op, r, m[r].status))
  PROVE  LedgerInv'
<1>1. th'[t] = k /\ \A u \in Threads \ {t} : th'[u] = th[u]
  BY DEF LedgerInv, ThreadInv, TypeOK
<1>2. CallsAreCurrent'
  <2> SUFFICES ASSUME NEW u \in Threads PROVE Current(u, th[u], Mine(u))'
    BY DEF CallsAreCurrent
  <2>1. PICK l, n : l = th'[u] /\ n = records'[InstanceOf[u]]
    OBVIOUS
  <2>2. CASE u = t
    BY <1>1, <2>1, <2>2 DEF Current, Mine
  <2>3. CASE u # t
    <3>1. l = th[u] /\ Current(u, l, Mine(u))
      BY <1>1, <2>1, <2>3 DEF LedgerInv, CallsAreCurrent
    <3>2. Current(u, l, n)'
      BY <2>1, <2>3, <3>1, OthersAreCurrent DEF LedgerInv
    <3>3. QED
      BY <2>1, <3>2 DEF Current, Mine
  <2>4. QED
    BY <2>2, <2>3
<1>3. NothingBefore'
  <2> SUFFICES ASSUME ~saved
               PROVE  /\ file = EmptyLedger
                      /\ \A i \in Instances :
                           \/ records'[i] = EmptyLedger
                           \/ \E u \in Threads : th'[u].pc = "write" /\ InstanceOf[u] = i
    BY DEF NothingBefore
  <2>1. file = EmptyLedger
    BY DEF LedgerInv, NothingBefore
  <2>2. ASSUME NEW i \in Instances
        PROVE  \/ records'[i] = EmptyLedger
               \/ \E u \in Threads : th'[u].pc = "write" /\ InstanceOf[u] = i
    <3>1. CASE records[i] = EmptyLedger /\ records'[i] = records[i]
      BY <3>1
    <3>2. CASE records'[i] # records[i]
      BY <1>1, <3>2
    <3>3. ASSUME NEW u \in Threads, th[u].pc = "write", InstanceOf[u] = i
          PROVE  \E w \in Threads : th'[w].pc = "write" /\ InstanceOf[w] = i
      BY <1>1, <3>3
    <3>4. QED
      BY <3>1, <3>2, <3>3 DEF LedgerInv, NothingBefore
  <2>3. QED
    BY <2>1, <2>2
<1>4. StatusesAreTrue'
  BY StatusesStayTrue DEF LedgerInv
<1>5. ReservedOnce' /\ ReservedIsDurable'
  BY DEF LedgerInv, ReservedOnce, ReservedIsDurable, GrantedIsDurable
<1>6. QED
  BY <1>2, <1>3, <1>4, <1>5 DEF LedgerInv

-----------------------------------------------------------------------------
(* Every step keeps the invariant, and is one of the atomic ledger's.        *)

\* The atomic ledger's calls are those of the stores.
LEMMA SameCalls ==
  /\ Atomic!LedgerCall = LedgerCall
  /\ Atomic!NoCall = NoCall
  /\ Atomic!EmptyLedger = EmptyLedger
BY DEF Atomic!LedgerCall, Atomic!Reservation, Atomic!Marking, Atomic!Binding, Atomic!Settlement,
       Atomic!Inquiry, LedgerCall, Reservation, Marking, Binding, Settlement, Inquiry,
       Atomic!NoCall, NoCall, Atomic!EmptyLedger, EmptyLedger, Atomic!AbsentRecord, AbsentRecord

LEMMA SameGuards ==
  ASSUME NEW L, NEW op
  PROVE  Atomic!Allowed(L, op) = Allowed(L, op)
BY DEF Atomic!Allowed, Allowed, Atomic!CanReserve, CanReserve, Atomic!CanMark, CanMark,
       Atomic!CanBind, CanBind, Atomic!CanReconcile, CanReconcile, Atomic!Recorded, Recorded

LEMMA SameEffects ==
  ASSUME NEW L, NEW op
  PROVE  Atomic!Effect(L, op) = Effect(L, op)
BY DEF Atomic!Effect, Effect, Atomic!Reserved, Reserved, Atomic!Marked, Marked,
       Atomic!Bound, Bound

AtomicStep == [Atomic!AtomicNext]_(Atomic!atomicVars)
LedgerStep == LedgerInv' /\ (ActsOnReplaced \/ AtomicStep)

\* What is shown of the calls after a step of one thread.
Shows(t, k) ==
  /\ Phases' = [Phases EXCEPT ![t] = PhaseOf(t, k)] /\ Phases[t] = PhaseOf(t, th[t])
  /\ Asked' = [Asked EXCEPT ![t] = k.op] /\ Asked[t] = th[t].op
  /\ Answers' = [Answers EXCEPT ![t] = AnswerOf(t, k)] /\ Answers[t] = AnswerOf(t, th[t])

LEMMA ShownStep ==
  ASSUME ThreadInv, NEW t \in Threads, NEW k, th' = [th EXCEPT ![t] = k]
  PROVE  Shows(t, k)
<1>1. th'[t] = k /\ \A u \in Threads \ {t} : th'[u] = th[u]
  BY DEF ThreadInv, TypeOK
<1>3. Phases' = [Phases EXCEPT ![t] = PhaseOf(t, k)]
  <2>1. Phases' = [u \in Threads |-> PhaseOf(u, th'[u])]
    BY DEF Phases, PhaseOf, Answering, Lone, Sharers
  <2>2. [Phases EXCEPT ![t] = PhaseOf(t, k)] =
          [u \in Threads |-> IF u = t THEN PhaseOf(t, k) ELSE PhaseOf(u, th[u])]
    BY DEF Phases
  <2>3. QED
    BY <1>1, <2>1, <2>2
<1>4. Asked' = [Asked EXCEPT ![t] = k.op]
  <2>1. Asked' = [u \in Threads |-> th'[u].op]
    BY DEF Asked
  <2>2. [Asked EXCEPT ![t] = k.op] = [u \in Threads |-> IF u = t THEN k.op ELSE th[u].op]
    BY DEF Asked
  <2>3. QED
    BY <1>1, <2>1, <2>2
<1>5. Answers' = [Answers EXCEPT ![t] = AnswerOf(t, k)]
  <2>1. Answers' = [u \in Threads |-> AnswerOf(u, th'[u])]
    BY DEF Answers, AnswerOf, Answering, Lone, Sharers
  <2>2. [Answers EXCEPT ![t] = AnswerOf(t, k)] =
          [u \in Threads |-> IF u = t THEN AnswerOf(t, k) ELSE AnswerOf(u, th[u])]
    BY DEF Answers
  <2>3. QED
    BY <1>1, <2>1, <2>2
<1>6. Phases[t] = PhaseOf(t, th[t]) /\ Asked[t] = th[t].op /\ Answers[t] = AnswerOf(t, th[t])
  BY DEF Phases, Asked, Answers
<1>7. QED
  BY <1>3, <1>4, <1>5, <1>6 DEF Shows

\* What is shown of a call that does not change.
LEMMA UnshownStep ==
  ASSUME NEW t \in Threads
  PROVE  /\ [Phases EXCEPT ![t] = Phases[t]] = Phases
         /\ [Asked EXCEPT ![t] = Asked[t]] = Asked
         /\ [Answers EXCEPT ![t] = Answers[t]] = Answers
<1>1. [Phases EXCEPT ![t] = Phases[t]] = Phases
  BY DEF Phases
<1>2. [Asked EXCEPT ![t] = Asked[t]] = Asked
  BY DEF Asked
<1>3. [Answers EXCEPT ![t] = Answers[t]] = Answers
  BY DEF Answers
<1>4. QED
  BY <1>1, <1>2, <1>3

\* A step that nobody sees.
LEMMA UnseenStep ==
  ASSUME ThreadInv, NEW t \in Threads, NEW k, th' = [th EXCEPT ![t] = k], UNCHANGED <<file, had>>,
         PhaseOf(t, k) = PhaseOf(t, th[t]), k.op = th[t].op, AnswerOf(t, k) = AnswerOf(t, th[t])
  PROVE  AtomicStep
<1>1. Shows(t, k)
  BY ShownStep
<1>2. UNCHANGED <<Phases, Asked, Answers>>
  BY <1>1, UnshownStep DEF Shows
<1>3. QED
  BY <1>2 DEF AtomicStep, Atomic!atomicVars

\* The moment at which a call has its answer.
LEMMA AnswerStep ==
  ASSUME ThreadInv, NEW t \in Threads, NEW k, th' = [th EXCEPT ![t] = k],
         PhaseOf(t, th[t]) = "called", PhaseOf(t, k) = "done", k.op = th[t].op,
         NEW a, AnswerOf(t, k) = a
  PROVE  Atomic!Answers(t, a) /\ Asked[t] = k.op
<1>1. Shows(t, k)
  BY ShownStep
<1>2. UNCHANGED Asked /\ Asked[t] = k.op
  BY <1>1, UnshownStep DEF Shows
<1>3. /\ Phases[t] = "called" /\ Phases' = [Phases EXCEPT ![t] = "done"]
      /\ Answers' = [Answers EXCEPT ![t] = a]
  BY <1>1 DEF Shows
<1>4. QED
  BY <1>2, <1>3 DEF Atomic!Answers

\* It is a status that may be read, ...
LEMMA ReadStep ==
  ASSUME ThreadInv, NEW t \in Threads, NEW k, th' = [th EXCEPT ![t] = k],
         PhaseOf(t, th[t]) = "called", PhaseOf(t, k) = "done", k.op = th[t].op,
         k.op.kind = "status", UNCHANGED <<file, had>>,
         AnswerOf(t, k) \in Atomic!Readable(t, k.op.req)
  PROVE  AtomicStep
<1> DEFINE a == AnswerOf(t, k)
<1>1. Atomic!Answers(t, a) /\ Asked[t] = k.op
  BY AnswerStep
<1>2. Atomic!Read(t)
  BY <1>1 DEF Atomic!Read
<1>3. QED
  BY <1>2 DEF AtomicStep, Atomic!AtomicNext

\* ... a refusal, ...
LEMMA RefusalStep ==
  ASSUME ThreadInv, NEW t \in Threads, NEW k, th' = [th EXCEPT ![t] = k],
         PhaseOf(t, th[t]) = "called", PhaseOf(t, k) = "done", k.op = th[t].op,
         ~Allowed(file, k.op), UNCHANGED <<file, had>>, AnswerOf(t, k) = "refused"
  PROVE  AtomicStep
<1>1. Atomic!Answers(t, "refused") /\ Asked[t] = k.op
  BY AnswerStep
<1>2. Atomic!Refuse(t)
  BY <1>1, SameGuards DEF Atomic!Refuse
<1>3. QED
  BY <1>2 DEF AtomicStep, Atomic!AtomicNext

\* ... or that the call has taken effect.
LEMMA EffectStep ==
  ASSUME ThreadInv, NEW t \in Threads, NEW k, th' = [th EXCEPT ![t] = k],
         PhaseOf(t, th[t]) = "called", PhaseOf(t, k) = "done", k.op = th[t].op,
         k.op.kind # "status", Allowed(file, k.op), file' = Effect(file, k.op),
         had' = [r \in Requests |-> had[r] \cup {file'[r].status}], AnswerOf(t, k) = "ok"
  PROVE  AtomicStep
<1>1. Atomic!Answers(t, "ok") /\ Asked[t] = k.op
  BY AnswerStep
<1>2. Atomic!TakeEffect(t)
  BY <1>1, SameGuards, SameEffects DEF Atomic!TakeEffect
<1>3. QED
  BY <1>2 DEF AtomicStep, Atomic!AtomicNext

-----------------------------------------------------------------------------
\* A step that changes a thread alone.
LEMMA QuietStep ==
  ASSUME LedgerInv, ThreadInv', NEW t \in Threads, NEW k, th' = [th EXCEPT ![t] = k],
         UNCHANGED <<file, saved, records, granted, had, intact>>,
         replaced' = replaced \/ replaced' = replaced \ {t},
         th[t].pc # "write", Seen(k), NEW m, m = Mine(t), Current(t, k, m)'
  PROVE  LedgerInv'
<1>1. m = records'[InstanceOf[t]] /\ \A u \in Threads : Mine(u)' = Mine(u)
  BY DEF Mine
<1>2. \A u \in Threads \ {t} : u \notin replaced' => u \notin replaced
  OBVIOUS
<1>3. QED
  BY <1>1, <1>2, UnwrittenStep

\* What the statuses in the texts are.
LEMMA SeenIs ==
  ASSUME LedgerInv, NEW t \in Threads
  PROVE  /\ Seen(th[t])
         /\ \A k : k.pc # "assign" /\ k.read \in {th[t].read, file, EmptyLedger} => Seen(k)
<1>1. /\ Seen(th[t])
      /\ \A r \in Requests : "ABSENT" \in had[r] /\ file[r].status \in had[r]
  BY DEF LedgerInv, StatusesAreTrue, TextsAreHad, FileIsHad
<1>2. \A r \in Requests : EmptyLedger[r].status = "ABSENT"
  BY DEF EmptyLedger, AbsentRecord
<1>3. QED
  BY <1>1, <1>2 DEF Seen

LEMMA StartIsAtomic ==
  ASSUME LedgerInv, NEW t \in Threads, NEW op \in LedgerCall, Start(t, op)
  PROVE  LedgerStep
<1> DEFINE k == [Resting EXCEPT !.op = op, !.pc = IF op \in Inquiry THEN "load" ELSE "acquire"]
<1>1. /\ k.op = op /\ k.pc = (IF op \in Inquiry THEN "load" ELSE "acquire") /\ k.answer = "ok"
      /\ k.read = EmptyLedger
  BY DEF Resting
<1>2. /\ th' = [th EXCEPT ![t] = k] /\ op.kind \in KindsOf[t] /\ th[t].pc = "idle"
      /\ UNCHANGED <<file, saved, records, lock, granted, had, replaced, intact>>
  BY DEF Start, At, history
<1>3. ThreadInv' /\ ThreadInv
  BY StartKeeps DEF LedgerInv
<1> HIDE DEF k
<1>4. LedgerInv'
  <2>1. k.pc \in {"load", "acquire"}
    BY <1>1
  <2>2. PICK m : m = Mine(t)
    OBVIOUS
  <2>3. Current(t, k, m)' /\ Seen(k)
    BY <1>1, <2>1, SeenIs DEF Current
  <2>4. QED
    BY <1>2, <1>3, <2>2, <2>3, QuietStep
<1>5. Atomic!Call(t, op)
  <2>1. PhaseOf(t, th[t]) = "idle" /\ PhaseOf(t, k) = "called"
    BY <1>1, <1>2 DEF PhaseOf, Answering
  <2>2. AnswerOf(t, k) = "ok" /\ AnswerOf(t, th[t]) = "ok"
    BY <1>1, <1>2, <1>3, ThreadIs DEF AnswerOf, Answering, CallSound
  <2>3. Shows(t, k)
    BY <1>2, <1>3, ShownStep
  <2>4. UNCHANGED Answers
    BY <2>2, <2>3, UnshownStep DEF Shows
  <2>5. /\ Phases[t] = "idle" /\ Phases' = [Phases EXCEPT ![t] = "called"]
        /\ Asked' = [Asked EXCEPT ![t] = op]
    BY <1>1, <2>1, <2>3 DEF Shows
  <2>6. QED
    BY <1>2, <2>4, <2>5 DEF Atomic!Call
<1>6. QED
  BY <1>4, <1>5, SameCalls DEF LedgerStep, AtomicStep, Atomic!AtomicNext

LEMMA AcquireIsAtomic ==
  ASSUME LedgerInv, NEW t \in Threads, Acquire(t)
  PROVE  LedgerStep
<1>1. /\ th[t].pc = "acquire" /\ UNCHANGED <<file, saved, records, granted, had, replaced, intact>>
      /\ ThreadInv /\ ThreadInv'
  BY AcquireKeeps DEF Acquire, At, LedgerInv, history
<1>2. PICK k : /\ th' = [th EXCEPT ![t] = k] /\ k.pc = "load" /\ k.op = th[t].op
               /\ k.read = th[t].read /\ k.answer = th[t].answer /\ k \in Thread
  BY ZenonT(30), <1>1, GotoIs DEF Acquire, Goto, Steps
<1>3. PICK m : m = Mine(t)
  OBVIOUS
<1>4. Current(t, k, m)' /\ Seen(k)
  BY <1>2, SeenIs DEF Current
<1>5. LedgerInv'
  BY <1>1, <1>2, <1>3, <1>4, QuietStep
<1>6. AtomicStep
  <2>1. PhaseOf(t, k) = PhaseOf(t, th[t]) /\ AnswerOf(t, k) = AnswerOf(t, th[t])
    BY <1>1, <1>2 DEF PhaseOf, AnswerOf, Answering
  <2>2. QED
    BY <1>1, <1>2, <2>1, UnseenStep
<1>7. QED
  BY <1>5, <1>6 DEF LedgerStep

\* A reader whose dictionary is its own has its answer when it reads the text.
LEMMA LoadIsAtomic ==
  ASSUME LedgerInv, NEW t \in Threads, Load(t)
  PROVE  LedgerStep
<1>1. /\ th[t].pc = "load"
      /\ UNCHANGED <<file, saved, records, lock, granted, had, replaced, intact>>
      /\ ThreadInv /\ ThreadInv'
  BY LoadKeeps DEF Load, At, LedgerInv, history
<1>2. PICK k \in Thread :
        /\ th' = [th EXCEPT ![t] = k] /\ k.read = file /\ k.op = th[t].op
        /\ k.answer = th[t].answer
        /\ k.pc = IF saved THEN "replace" ELSE AfterLoad(t)
  BY <1>1, LoadIs
<1>3. PICK m : m = Mine(t)
  OBVIOUS
<1>4. Current(t, k, m)'
  <2>1. CASE saved
    BY <1>1, <1>2, <2>1 DEF Current
  <2>2. CASE ~saved
    <3>1. k.pc = IF k.op \in Inquiry THEN "get" ELSE "check"
      BY <1>2, <2>2 DEF AfterLoad
    <3>2. ASSUME t \in Lone \/ k.op \notin Inquiry
          PROVE  Mine(t) = EmptyLedger
      <4>1. ASSUME NEW w \in Threads, th[w].pc = "write", InstanceOf[w] = InstanceOf[t]
            PROVE  FALSE
        <5>1. Locked(th[w]) /\ lock = w /\ w # t
          BY <1>1, <4>1, ThreadIs DEF CallSound, Locked, ThreadInv, LockIsHeld
        <5>2. th[t].op \in Inquiry
          BY <1>1, <5>1 DEF ThreadInv, LockIsHeld, Locked
        <5>3. t \in Lone /\ w \in Sharers(t)
          BY <1>2, <3>2, <4>1, <5>1, <5>2 DEF Sharers
        <5>4. QED
          BY <5>3 DEF Lone
      <4>2. QED
        BY <1>1, <2>2, <4>1, ThreadIs DEF LedgerInv, NothingBefore, Mine
    <3>3. file = EmptyLedger
      BY <2>2 DEF LedgerInv, NothingBefore
    <3>4. QED
      BY <1>1, <1>2, <1>3, <3>1, <3>2, <3>3 DEF Current
  <2>3. QED
    BY <2>1, <2>2
<1>5. LedgerInv'
  <2>1. Seen(k)
    BY <1>2, SeenIs DEF AfterLoad
  <2>2. QED
    BY <1>1, <1>2, <1>3, <1>4, <2>1, QuietStep
<1>6. CASE th[t].op \in Inquiry /\ t \in Lone
  <2>1. k.op.kind = "status" /\ k.op.req \in Requests
    BY <1>1, <1>2, <1>6, ThreadIs DEF Inquiry
  <2>2. k.pc \in {"replace", "get"} /\ Answering(t, k)
    BY <1>2, <1>6 DEF AfterLoad, Answering
  <2>3. /\ PhaseOf(t, th[t]) = "called" /\ PhaseOf(t, k) = "done"
        /\ AnswerOf(t, k) = file[k.op.req].status
    BY <1>1, <1>2, <2>2 DEF PhaseOf, Answering, AnswerOf
  <2>4. AnswerOf(t, k) \in Atomic!Readable(t, k.op.req)
    BY <1>6, <2>3 DEF Atomic!Readable
  <2>5. AtomicStep
    BY <1>1, <1>2, <2>1, <2>3, <2>4, ReadStep
  <2>6. QED
    BY <1>5, <2>5 DEF LedgerStep
<1>7. CASE th[t].op \notin Inquiry \/ t \notin Lone
  <2>1. PhaseOf(t, k) = PhaseOf(t, th[t]) /\ AnswerOf(t, k) = AnswerOf(t, th[t])
    BY <1>1, <1>2, <1>7 DEF PhaseOf, AnswerOf, Answering, AfterLoad
  <2>2. AtomicStep
    BY <1>1, <1>2, <2>1, UnseenStep
  <2>3. QED
    BY <1>5, <2>2 DEF LedgerStep
<1>8. QED
  BY <1>6, <1>7

\* Whoever has loaded the dictionary and is changing it counts as replaced.
LEMMA ReplaceIsAtomic ==
  ASSUME LedgerInv, NEW t \in Threads, Replace(t)
  PROVE  LedgerStep
<1>1. /\ th[t].pc = "replace" /\ UNCHANGED <<file, saved, lock, granted, had, intact>>
      /\ records' = [records EXCEPT ![InstanceOf[t]] = th[t].read]
      /\ replaced' = IF Mine(t) = th[t].read THEN replaced
                     ELSE replaced \cup {u \in Sharers(t) : Changing(th[u])}
      /\ ThreadInv /\ ThreadInv'
  BY ReplaceKeeps DEF Replace, At, SetMine, LedgerInv
<1>2. PICK k \in Thread :
        /\ th' = [th EXCEPT ![t] = k] /\ k.op = th[t].op /\ k.answer = th[t].answer
        /\ k.pc = AfterLoad(t)
        /\ k.read = IF th[t].op \in Inquiry THEN th[t].read ELSE EmptyLedger
  BY <1>1, ReplaceIs
<1>3. PICK m : m = records'[InstanceOf[t]]
  OBVIOUS
<1>4. m = th[t].read /\ \A i \in Instances \ {InstanceOf[t]} : records'[i] = records[i]
  BY <1>1, <1>3, ThreadIs DEF ThreadInv, TypeOK
<1>5. Current(t, th[t], Mine(t))
  BY DEF LedgerInv, CallsAreCurrent
<1>6. Current(t, k, m)' /\ saved
  BY <1>1, <1>2, <1>4, <1>5 DEF Current, AfterLoad
<1>7. ASSUME NEW u \in Threads \ {t}, Changing(th[u]), u \notin replaced'
      PROVE  u \notin replaced /\ Mine(u)' = Mine(u)
  <2>1. u \notin replaced
    BY <1>1, <1>7
  <2>2. CASE InstanceOf[u] # InstanceOf[t]
    BY <1>4, <2>1, <2>2, ThreadIs, <1>1 DEF Mine
  <2>3. CASE InstanceOf[u] = InstanceOf[t]
    <3>1. u \in Sharers(t)
      BY <2>3 DEF Sharers
    <3>2. Mine(t) = th[t].read
      BY <1>1, <1>7, <3>1
    <3>3. QED
      BY <1>3, <1>4, <2>1, <2>3, <3>2 DEF Mine
  <2>4. QED
    BY <2>2, <2>3
<1>8. LedgerInv'
  <2>1. Seen(k) /\ \A r \in Requests : m[r].status \in had[r]
    BY <1>2, <1>4, SeenIs DEF Seen, AfterLoad
  <2>2. QED
    BY <1>1, <1>2, <1>3, <1>4, <1>6, <1>7, <2>1, UnwrittenStep
<1>9. AtomicStep
  <2>1. PhaseOf(t, k) = PhaseOf(t, th[t]) /\ AnswerOf(t, k) = AnswerOf(t, th[t])
    BY <1>1, <1>2 DEF PhaseOf, AnswerOf, Answering, AfterLoad
  <2>2. QED
    BY <1>1, <1>2, <2>1, UnseenStep
<1>10. QED
  BY <1>8, <1>9 DEF LedgerStep

\* What a reader of a shared dictionary finds, the request had, or is coming.
LEMMA RecordsAreReadable ==
  ASSUME LedgerInv, NEW t \in Threads, NEW r \in Requests
  PROVE  Mine(t)[r].status \in had[r] \cup Atomic!Coming(r)
<1>1. Known(InstanceOf[t], Mine(t))
  BY ThreadIs DEF LedgerInv, StatusesAreTrue, RecordsAreKnown, Mine
<1>2. ASSUME NEW w \in Threads, th[w].pc = "write", GivenBy(th[w].op, r, Mine(t)[r].status)
      PROVE  Mine(t)[r].status \in Atomic!Coming(r)
  <2>1. Phases[w] = "called" /\ Asked[w] = th[w].op
    BY <1>2 DEF Phases, PhaseOf, Answering, Asked
  <2>2. Mine(t)[r].status = Atomic!Effect(file, Asked[w])[r].status
    BY <1>2, <2>1, SameEffects DEF GivenBy
  <2>3. QED
    BY <2>1, <2>2 DEF Atomic!Coming
<1>3. QED
  BY <1>1, <1>2 DEF Known

LEMMA GetIsAtomic ==
  ASSUME LedgerInv, NEW t \in Threads, Get(t)
  PROVE  LedgerStep
<1>1. /\ th[t].pc = "get"
      /\ UNCHANGED <<file, saved, records, lock, granted, had, replaced, intact>>
      /\ ThreadInv /\ ThreadInv'
  BY GetKeeps DEF Get, At, LedgerInv, history
<1>2. PICK k \in Thread :
        /\ th' = [th EXCEPT ![t] = k] /\ k.op = th[t].op /\ k.pc = "return"
        /\ k.read = EmptyLedger /\ k.answer = Mine(t)[th[t].op.req].status
  BY <1>1, GetIs
<1>3. PICK m : m = Mine(t)
  OBVIOUS
<1>4. Current(t, k, m)' /\ Seen(k)
  BY <1>2, SeenIs DEF Current
<1>5. LedgerInv'
  BY <1>1, <1>2, <1>3, <1>4, QuietStep
<1>6. /\ t \in Lone => Mine(t) = th[t].read
      /\ th[t].op \in Inquiry /\ k.op.kind = "status" /\ k.op.req \in Requests
  BY <1>1, <1>2, ThreadIs, CallsHaveKinds DEF LedgerInv, CallsAreCurrent, Current, CallSound
<1>7. CASE t \in Lone
  <2>1. PhaseOf(t, k) = PhaseOf(t, th[t]) /\ AnswerOf(t, k) = AnswerOf(t, th[t])
    BY <1>1, <1>2, <1>6, <1>7 DEF PhaseOf, AnswerOf, Answering
  <2>2. AtomicStep
    BY <1>1, <1>2, <2>1, UnseenStep
  <2>3. QED
    BY <1>5, <2>2 DEF LedgerStep
<1>8. CASE t \notin Lone
  <2>1. /\ PhaseOf(t, th[t]) = "called" /\ PhaseOf(t, k) = "done"
        /\ AnswerOf(t, k) = Mine(t)[k.op.req].status
    BY <1>1, <1>2, <1>8 DEF PhaseOf, AnswerOf, Answering
  <2>2. AnswerOf(t, k) \in Atomic!Readable(t, k.op.req)
    BY <1>6, <1>8, <2>1, RecordsAreReadable DEF Atomic!Readable
  <2>3. AtomicStep
    BY <1>1, <1>2, <1>6, <2>1, <2>2, ReadStep
  <2>4. QED
    BY <1>5, <2>3 DEF LedgerStep
<1>9. QED
  BY <1>7, <1>8

\* A call that changes the ledger takes effect here when it is refused, ...
LEMMA CheckIsAtomic ==
  ASSUME LedgerInv, NEW t \in Threads, Check(t)
  PROVE  LedgerStep
<1>1. /\ th[t].pc = "check"
      /\ UNCHANGED <<file, saved, records, lock, granted, had, replaced, intact>>
      /\ ThreadInv /\ ThreadInv'
  BY CheckKeeps DEF Check, At, LedgerInv, history
<1>2. t \notin replaced => Mine(t) = file
  BY <1>1 DEF LedgerInv, CallsAreCurrent, Current
<1>3. PICK k \in Thread :
        /\ th' = [th EXCEPT ![t] = k] /\ k.op = th[t].op /\ k.read = th[t].read
        /\ \/ /\ Allowed(Mine(t), k.op) /\ k.pc = "assign" /\ k.answer = th[t].answer
              /\ k.new = Effect(Mine(t), k.op)[k.op.req]
           \/ ~Allowed(Mine(t), k.op) /\ k.pc = "release" /\ k.answer = "refused"
  BY <1>1, CheckIs
<1>4. PICK m : m = Mine(t)
  OBVIOUS
<1>5. Current(t, k, m)'
  BY <1>1, <1>2, <1>3, <1>4 DEF Current
<1>6. Seen(k)
  <2>1. \A r \in Requests : k.read[r].status \in had[r]
    BY <1>3, SeenIs DEF Seen
  <2>2. ASSUME k.pc = "assign"
        PROVE  k.new.status \in had[k.op.req] \/ GivenBy(k.op, k.op.req, k.new.status)
    <3>1. k.op \in LedgerCall /\ k.op.req \in Requests
      BY <1>1, <1>3, ThreadIs
    <3>2. k.new = Effect(Mine(t), k.op)[k.op.req]
      BY <1>3, <2>2
    <3>3. \/ k.new.status = Mine(t)[k.op.req].status
          \/ k.new.status = Effect(file, k.op)[k.op.req].status
      <4>1. /\ Mine(t) \in [Requests -> ExecutionLedgerRecord]
            /\ file \in [Requests -> ExecutionLedgerRecord]
        BY <1>1, ThreadIs DEF ThreadInv, TypeOK
      <4>2. QED
        BY <3>1, <3>2, <4>1, StatusOfEffect
    <3>4. Mine(t)[k.op.req].status \in had[k.op.req]
      <4>1. Known(InstanceOf[t], Mine(t))
        BY <1>1, ThreadIs DEF LedgerInv, StatusesAreTrue, RecordsAreKnown, Mine
      <4>2. ASSUME NEW w \in Threads PROVE th[w].pc # "write"
        <5>1. lock = t
          BY <1>1, ThreadIs DEF ThreadInv, LockIsHeld, Locked, CallSound
        <5>2. QED
          BY <1>1, <5>1, ThreadIs DEF ThreadInv, LockIsHeld, Locked, CallSound
      <4>3. QED
        BY <3>1, <4>1, <4>2 DEF Known
    <3>5. QED
      BY <3>3, <3>4 DEF GivenBy
  <2>3. QED
    BY <2>1, <2>2 DEF Seen
<1>7. LedgerInv'
  BY <1>1, <1>3, <1>4, <1>5, <1>6, QuietStep
<1>8. CASE Allowed(Mine(t), k.op)
  <2>1. PhaseOf(t, k) = PhaseOf(t, th[t]) /\ AnswerOf(t, k) = AnswerOf(t, th[t])
    BY <1>1, <1>3, <1>8 DEF PhaseOf, AnswerOf, Answering
  <2>2. AtomicStep
    BY <1>1, <1>3, <2>1, UnseenStep
  <2>3. QED
    BY <1>7, <2>2 DEF LedgerStep
<1>9. CASE ~Allowed(Mine(t), k.op) /\ t \notin replaced
  <2>1. /\ PhaseOf(t, th[t]) = "called" /\ PhaseOf(t, k) = "done"
        /\ AnswerOf(t, k) = "refused" /\ ~Allowed(file, k.op)
    BY <1>1, <1>2, <1>3, <1>9 DEF PhaseOf, AnswerOf, Answering
  <2>2. AtomicStep
    BY <1>1, <1>3, <2>1, RefusalStep
  <2>3. QED
    BY <1>7, <2>2 DEF LedgerStep
<1>10. CASE t \in replaced
  BY <1>7, <1>10 DEF LedgerStep, ActsOnReplaced
<1>11. QED
  BY <1>8, <1>9, <1>10

LEMMA AssignIsAtomic ==
  ASSUME LedgerInv, NEW t \in Threads, Assign(t)
  PROVE  LedgerStep
<1>1. /\ th[t].pc = "assign"
      /\ UNCHANGED <<file, saved, lock, granted, had, replaced, intact>>
      /\ ThreadInv /\ ThreadInv'
  BY AssignKeeps DEF Assign, At, LedgerInv, history
<1>2. PICK k \in Thread : /\ th' = [th EXCEPT ![t] = k] /\ k.op = th[t].op /\ k.read = th[t].read
                          /\ k.pc = "write" /\ k.answer = th[t].answer
  BY <1>1, AssignIs
<1>3. /\ Current(t, th[t], Mine(t)) /\ k.op \in LedgerCall /\ k.op.req \in Requests
      /\ Mine(t) \in [Requests -> ExecutionLedgerRecord]
  BY <1>1, <1>2, ThreadIs DEF LedgerInv, CallsAreCurrent
<1>4. PICK m : m = records'[InstanceOf[t]]
  OBVIOUS
<1>5. /\ m = [Mine(t) EXCEPT ![k.op.req] = th[t].new]
      /\ \A i \in Instances \ {InstanceOf[t]} : records'[i] = records[i]
  BY <1>1, <1>2, <1>4, AssignIs, ThreadIs DEF ThreadInv, TypeOK
<1>6. Current(t, k, m)'
  <2>1. ASSUME t \notin replaced
        PROVE  Allowed(file, k.op) /\ m = Effect(file, k.op)
    <3>1. /\ Mine(t) = file /\ Allowed(file, k.op)
          /\ th[t].new = Effect(file, k.op)[k.op.req]
      BY <1>1, <1>2, <1>3, <2>1 DEF Current
    <3>2. m = [file EXCEPT ![k.op.req] = Effect(file, k.op)[k.op.req]]
      BY <1>5, <3>1
    <3>3. Effect(file, k.op) = [file EXCEPT ![k.op.req] = Effect(file, k.op)[k.op.req]]
      BY <1>1, <1>3, EffectIsALedger DEF ThreadInv, TypeOK
    <3>4. QED
      BY <3>1, <3>2, <3>3
  <2>2. QED
    BY <1>1, <1>2, <2>1 DEF Current
<1>7. ASSUME NEW w \in Threads \ {t} PROVE ~Changing(th[w])
  <2>1. lock = t
    BY <1>1, ThreadIs DEF ThreadInv, LockIsHeld, Locked, CallSound
  <2>2. QED
    BY <1>1, <2>1, ThreadIs DEF ThreadInv, LockIsHeld, Locked, CallSound, Changing
<1>8. ASSUME NEW r \in Requests
      PROVE  m[r].status \in had[r] \/ GivenBy(k.op, r, m[r].status)
  <2>1. CASE r = k.op.req
    <3>1. m[r] = th[t].new
      BY <1>3, <1>5, <2>1
    <3>2. QED
      BY <1>1, <1>2, <2>1, <3>1, SeenIs DEF Seen
  <2>2. CASE r # k.op.req
    <3>1. m[r] = Mine(t)[r]
      BY <1>3, <1>5, <2>2
    <3>2. Known(InstanceOf[t], Mine(t))
      BY <1>1, ThreadIs DEF LedgerInv, StatusesAreTrue, RecordsAreKnown, Mine
    <3>3. QED
      BY <1>1, <1>7, <3>1, <3>2 DEF Known, Changing
  <2>3. QED
    BY <2>1, <2>2
<1>9. LedgerInv'
  <2>1. Seen(k) /\ lock = t
    BY <1>1, <1>2, SeenIs, ThreadIs DEF ThreadInv, LockIsHeld, Locked, CallSound, Seen
  <2>2. QED
    BY <1>1, <1>2, <1>4, <1>5, <1>6, <1>7, <1>8, <2>1, UnwrittenStep
<1>10. AtomicStep
  <2>1. PhaseOf(t, k) = PhaseOf(t, th[t]) /\ AnswerOf(t, k) = AnswerOf(t, th[t])
    BY <1>1, <1>2 DEF PhaseOf, AnswerOf, Answering
  <2>2. QED
    BY <1>1, <1>2, <2>1, UnseenStep
<1>11. QED
  BY <1>9, <1>10 DEF LedgerStep

\* What a reservation that was not disturbed does to what was granted.
LEMMA GrantedOnce ==
  ASSUME ThreadInv, NEW op \in LedgerCall, \A r \in Requests : granted[r] <= 1, GrantedIsDurable,
         Allowed(file, op), file' = Effect(file, op), saved',
         granted' = IF op \in Reservation
                      THEN [granted EXCEPT ![op.req] = IF @ = 0 THEN 1 ELSE 2] ELSE granted
  PROVE  (\A r \in Requests : granted'[r] <= 1) /\ GrantedIsDurable'
<1>1. /\ file \in [Requests -> ExecutionLedgerRecord] /\ granted \in [Requests -> 0..2]
      /\ op.req \in Requests
  BY CallsHaveKinds DEF ThreadInv, TypeOK
<1>2. /\ Recorded(file) \subseteq Recorded(file')
      /\ op \in Reservation => op.req \notin Recorded(file) /\ op.req \in Recorded(file')
  BY <1>1, EffectKeepsRecords
<1>3. Recorded(file)' = Recorded(file')
  BY DEF Recorded
<1>4. \A r \in Requests : granted[r] > 0 => r \in Recorded(file)
  BY DEF GrantedIsDurable
<1>5. CASE op \in Reservation
  <2>1. granted[op.req] = 0
    BY <1>1, <1>2, <1>4, <1>5
  <2>2. \A r \in Requests : granted'[r] = IF r = op.req THEN 1 ELSE granted[r]
    BY <1>1, <1>5, <2>1
  <2>3. QED
    BY <1>2, <1>3, <1>4, <1>5, <2>2 DEF GrantedIsDurable
<1>6. CASE op \notin Reservation
  BY <1>2, <1>3, <1>4, <1>6 DEF GrantedIsDurable
<1>7. QED
  BY <1>5, <1>6

\* ... and here otherwise.
LEMMA WriteIsAtomic ==
  ASSUME LedgerInv, NEW t \in Threads, Write(t)
  PROVE  LedgerStep
<1>1. /\ th[t].pc = "write" /\ saved' /\ file' = Mine(t) /\ UNCHANGED <<records, lock, replaced>>
      /\ intact' = (intact /\ t \notin replaced)
      /\ had' = [r \in Requests |-> had[r] \cup {file'[r].status}]
      /\ ThreadInv /\ ThreadInv'
  BY WriteKeeps DEF Write, At, LedgerInv
<1>2. PICK k : /\ th' = [th EXCEPT ![t] = k] /\ k.pc = "release" /\ k.op = th[t].op
               /\ k.read = th[t].read /\ k.answer = th[t].answer /\ k \in Thread
  BY ZenonT(30), <1>1, GotoIs DEF Write, Goto, Steps
<1>3. /\ k.op \in LedgerCall /\ k.op \notin Inquiry /\ k.op.req \in Requests
      /\ k.answer = "ok" /\ lock = t
  BY <1>1, <1>2, ThreadIs DEF CallSound, ThreadInv, LockIsHeld, Locked
<1>4. t \notin replaced => Allowed(file, k.op) /\ file' = Effect(file, k.op)
  BY <1>1, <1>2 DEF LedgerInv, CallsAreCurrent, Current
<1>5. th'[t] = k /\ \A u \in Threads \ {t} : th'[u] = th[u]
  BY <1>1, <1>2 DEF ThreadInv, TypeOK
<1>6. CallsAreCurrent'
  <2> SUFFICES ASSUME NEW u \in Threads PROVE Current(u, th[u], Mine(u))'
    BY DEF CallsAreCurrent
  <2>1. PICK l, n : l = th'[u] /\ n = records'[InstanceOf[u]]
    OBVIOUS
  <2>2. CASE u = t
    BY <1>2, <1>5, <2>1, <2>2 DEF Current, Mine
  <2>3. CASE u # t
    <3>1. l = th[u] /\ Current(u, l, Mine(u))
      BY <1>5, <2>1, <2>3 DEF LedgerInv, CallsAreCurrent
    <3>2. Mine(u)' = Mine(u)
      BY <1>1 DEF Mine
    <3>3. Current(u, l, n)'
      BY <1>1, <1>3, <2>1, <2>3, <3>1, <3>2, OthersAreCurrent
    <3>4. QED
      BY <2>1, <3>3 DEF Current, Mine
  <2>4. QED
    BY <2>2, <2>3
<1>7. NothingBefore'
  BY <1>1 DEF NothingBefore
<1>8. StatusesAreTrue'
  <2>1. \A r \in Requests : had[r] \subseteq had'[r] /\ file'[r].status \in had'[r]
    BY <1>1
  <2>2. FileIsHad'
    BY <2>1 DEF LedgerInv, StatusesAreTrue, FileIsHad
  <2>3. ASSUME NEW u \in Threads PROVE Seen(th[u])'
    <3>1. \A r \in Requests : th'[u].read[r].status \in had'[r]
      BY <1>2, <1>5, <2>1 DEF LedgerInv, StatusesAreTrue, TextsAreHad, Seen
    <3>2. th'[u].pc # "assign"
      <4>1. CASE u = t
        BY <1>2, <1>5, <4>1
      <4>2. CASE u # t
        <5>1. ~Locked(th[u]) /\ CallSound(th[u], KindsOf[u])
          BY <1>1, <1>3, <4>2, ThreadIs DEF ThreadInv, LockIsHeld
        <5>2. QED
          BY <1>5, <4>2, <5>1 DEF Locked, CallSound
      <4>3. QED
        BY <4>1, <4>2
    <3>3. QED
      BY <3>1, <3>2 DEF Seen
  <2>4. ASSUME NEW i \in Instances, NEW r \in Requests PROVE records'[i][r].status \in had'[r]
    <3>1. \/ records[i][r].status \in had[r]
          \/ \E w \in Threads : th[w].pc = "write" /\ InstanceOf[w] = i
      BY DEF LedgerInv, StatusesAreTrue, RecordsAreKnown, Known
    <3>2. ASSUME NEW w \in Threads, th[w].pc = "write" PROVE w = t
      BY <1>1, <1>3, <3>2, ThreadIs DEF ThreadInv, LockIsHeld, Locked, CallSound
    <3>3. CASE i = InstanceOf[t]
      BY <1>1, <2>1, <3>3 DEF Mine
    <3>4. CASE i # InstanceOf[t]
      BY <1>1, <2>1, <3>1, <3>2, <3>4
    <3>5. QED
      BY <3>3, <3>4
  <2>5. QED
    BY <2>2, <2>3, <2>4 DEF StatusesAreTrue, TextsAreHad, RecordsAreKnown, Known
<1>9. ReservedOnce' /\ ReservedIsDurable'
  <2> SUFFICES ASSUME intact'
               PROVE  (\A r \in Requests : granted'[r] <= 1) /\ GrantedIsDurable'
    BY DEF ReservedOnce, ReservedIsDurable
  <2>1. intact /\ t \notin replaced
    BY <1>1
  <2>2. (\A r \in Requests : granted[r] <= 1) /\ GrantedIsDurable
    BY <2>1 DEF LedgerInv, ReservedOnce, ReservedIsDurable
  <2>3. granted' = IF k.op \in Reservation
                     THEN [granted EXCEPT ![k.op.req] = IF @ = 0 THEN 1 ELSE 2] ELSE granted
    BY <1>2 DEF Write
  <2>4. QED
    BY <1>1, <1>3, <1>4, <2>1, <2>2, <2>3, GrantedOnce
<1>10. LedgerInv'
  BY <1>1, <1>6, <1>7, <1>8, <1>9 DEF LedgerInv
<1>11. CASE t \notin replaced
  <2>1. PhaseOf(t, th[t]) = "called" /\ PhaseOf(t, k) = "done" /\ AnswerOf(t, k) = "ok"
    BY <1>1, <1>2, <1>3 DEF PhaseOf, AnswerOf, Answering
  <2>2. k.op.kind # "status"
    BY <1>3, CallsHaveKinds
  <2>3. AtomicStep
    BY <1>1, <1>2, <1>4, <1>11, <2>1, <2>2, EffectStep
  <2>4. QED
    BY <1>10, <2>3 DEF LedgerStep
<1>12. CASE t \in replaced
  BY <1>10, <1>12 DEF LedgerStep, ActsOnReplaced
<1>13. QED
  BY <1>11, <1>12

LEMMA ReleaseIsAtomic ==
  ASSUME LedgerInv, NEW t \in Threads, Release(t)
  PROVE  LedgerStep
<1>1. /\ th[t].pc = "release" /\ UNCHANGED <<file, saved, records, granted, had, intact>>
      /\ replaced' = replaced \ {t} /\ ThreadInv /\ ThreadInv'
  BY LeavingKeeps DEF Release, At, LedgerInv
<1>2. PICK k : /\ th' = [th EXCEPT ![t] = k] /\ k.pc = "return" /\ k.op = th[t].op
               /\ k.read = th[t].read /\ k.answer = th[t].answer /\ k \in Thread
  BY ZenonT(30), <1>1, GotoIs DEF Release, Goto, Steps
<1>3. PICK m : m = Mine(t)
  OBVIOUS
<1>4. Current(t, k, m)' /\ Seen(k)
  BY <1>2, SeenIs DEF Current
<1>5. LedgerInv'
  BY <1>1, <1>2, <1>3, <1>4, QuietStep
<1>6. AtomicStep
  <2>1. PhaseOf(t, k) = PhaseOf(t, th[t]) /\ AnswerOf(t, k) = AnswerOf(t, th[t])
    BY <1>1, <1>2 DEF PhaseOf, AnswerOf, Answering
  <2>2. QED
    BY <1>1, <1>2, <2>1, UnseenStep
<1>7. QED
  BY <1>5, <1>6 DEF LedgerStep

LEMMA ReturnIsAtomic ==
  ASSUME LedgerInv, NEW t \in Threads, Return(t)
  PROVE  LedgerStep
<1>1. /\ th[t].pc = "return"
      /\ UNCHANGED <<file, saved, records, lock, granted, had, replaced, intact>>
      /\ ThreadInv /\ ThreadInv'
  BY LeavingKeeps DEF Return, At, LedgerInv, history
<1>2. PICK k : k = Resting /\ th' = [th EXCEPT ![t] = k]
  BY DEF Return
<1>3. k.pc = "idle" /\ k.op = NoCall /\ k.answer = "ok" /\ k.read = EmptyLedger
  BY <1>2 DEF Resting
<1>4. PICK m : m = Mine(t)
  OBVIOUS
<1>5. Current(t, k, m)' /\ Seen(k)
  BY <1>3, SeenIs DEF Current
<1>6. LedgerInv'
  BY <1>1, <1>2, <1>4, <1>5, QuietStep
<1>7. Atomic!Return(t)
  <2>1. PhaseOf(t, th[t]) = "done" /\ PhaseOf(t, k) = "idle" /\ AnswerOf(t, k) = "ok"
    BY <1>1, <1>3 DEF PhaseOf, AnswerOf, Answering
  <2>2. Shows(t, k)
    BY <1>1, <1>2, ShownStep
  <2>3. /\ Phases[t] = "done" /\ Phases' = [Phases EXCEPT ![t] = "idle"]
        /\ Asked' = [Asked EXCEPT ![t] = NoCall] /\ Answers' = [Answers EXCEPT ![t] = "ok"]
    BY <1>3, <2>1, <2>2 DEF Shows
  <2>4. QED
    BY <1>1, <2>3, SameCalls DEF Atomic!Return
<1>8. QED
  BY <1>6, <1>7 DEF LedgerStep, AtomicStep, Atomic!AtomicNext

LEMMA EveryStepIsAtomic == LedgerInv /\ [Next]_vars => LedgerStep
<1> SUFFICES ASSUME LedgerInv, [Next]_vars PROVE LedgerStep
  OBVIOUS
<1>1. CASE UNCHANGED vars
  <2>1. ThreadInv'
    BY <1>1, ThreadsStaySound DEF LedgerInv
  <2>2. CallsAreCurrent' /\ NothingBefore'
    BY <1>1 DEF vars, LedgerInv, CallsAreCurrent, Current, Mine, NothingBefore
  <2>3. StatusesAreTrue'
    BY <1>1 DEF vars, LedgerInv, StatusesAreTrue, FileIsHad, TextsAreHad, Seen, RecordsAreKnown,
                Known, GivenBy
  <2>4. ReservedOnce' /\ ReservedIsDurable'
    BY <1>1 DEF vars, LedgerInv, ReservedOnce, ReservedIsDurable, GrantedIsDurable
  <2>5. UNCHANGED <<file, had, Phases, Asked, Answers>>
    BY <1>1 DEF vars, Phases, Asked, Answers
  <2>6. QED
    BY <2>1, <2>2, <2>3, <2>4, <2>5 DEF LedgerInv, LedgerStep, AtomicStep, Atomic!atomicVars
<1>2. CASE Next
  BY <1>2, StartIsAtomic, AcquireIsAtomic, LoadIsAtomic, ReplaceIsAtomic, GetIsAtomic,
     CheckIsAtomic, AssignIsAtomic, WriteIsAtomic, ReleaseIsAtomic, ReturnIsAtomic
     DEF Next
<1>3. QED
  BY <1>1, <1>2

LEMMA LedgerStarts == Init => LedgerInv /\ Atomic!AtomicInit
<1> SUFFICES ASSUME Init PROVE LedgerInv /\ Atomic!AtomicInit
  OBVIOUS
<1>1. ThreadInv
  BY ThreadsStartSound
<1>2. CallsAreCurrent /\ NothingBefore /\ ReservedOnce /\ ReservedIsDurable
  BY DEF Init, Resting, CallsAreCurrent, Current, NothingBefore, ReservedOnce, ReservedIsDurable,
         GrantedIsDurable
<1>3. StatusesAreTrue
  <2>1. \A r \in Requests : EmptyLedger[r].status = "ABSENT" /\ had[r] = {"ABSENT"}
    BY DEF Init, EmptyLedger, AbsentRecord
  <2>2. \A t \in Threads : th[t].pc = "idle" /\ th[t].read = EmptyLedger
    BY DEF Init, Resting
  <2>3. FileIsHad /\ TextsAreHad /\ RecordsAreKnown
    BY <2>1, <2>2 DEF Init, FileIsHad, TextsAreHad, Seen, RecordsAreKnown, Known
  <2>4. QED
    BY <2>3 DEF StatusesAreTrue
<1>4. \A t \in Threads :
        th[t].op = NoCall /\ PhaseOf(t, th[t]) = "idle" /\ AnswerOf(t, th[t]) = "ok"
  BY DEF Init, Resting, PhaseOf, AnswerOf, Answering
<1>5. /\ Phases = [t \in Threads |-> "idle"] /\ Asked = [t \in Threads |-> NoCall]
      /\ Answers = [t \in Threads |-> "ok"]
  BY <1>4 DEF Phases, Asked, Answers
<1>6. Atomic!AtomicInit
  BY <1>5, SameCalls DEF Init, Atomic!AtomicInit
<1>7. QED
  BY <1>1, <1>2, <1>3, <1>6 DEF LedgerInv

LEMMA LedgerInvariance == Spec => []LedgerInv
<1>1. LedgerInv /\ [Next]_vars => LedgerInv'
  BY EveryStepIsAtomic DEF LedgerStep
<1>2. Init => LedgerInv
  BY LedgerStarts
<1>3. QED
  BY <1>1, <1>2, PTL DEF Spec

\* A request is reserved once, whichever threads of whichever instances ask for
\* it and whoever reads beside them, until a call has saved what a reader put in
\* the place of its dictionary: see ReservedOnce.
THEOREM LedgerReservesOnce == Spec => []ReservedOnce
<1>1. LedgerInv => ReservedOnce
  BY DEF LedgerInv
<1>2. QED
  BY <1>1, LedgerInvariance, PTL

\* Until then, what was reserved is in the file: see ReservedIsDurable.
THEOREM ReservationsAreDurable == Spec => []ReservedIsDurable
<1>1. LedgerInv => ReservedIsDurable
  BY DEF LedgerInv
<1>2. QED
  BY <1>1, LedgerInvariance, PTL

\* Every step but one that looks at, or saves, a replaced dictionary is a step of
\* the atomic ledger, before and after any such step (see ImplementsAtomicLedger).
THEOREM LedgerIsAtomic == Spec => ImplementsAtomicLedger
<1>1. LedgerInv /\ [Next]_vars => [ActsOnReplaced \/ [Atomic!AtomicNext]_(Atomic!atomicVars)]_vars
  BY EveryStepIsAtomic DEF LedgerStep, AtomicStep
<1>2. Init => Atomic!AtomicInit
  BY LedgerStarts
<1>3. QED
  BY <1>1, <1>2, LedgerInvariance, PTL DEF Spec, ImplementsAtomicLedger

-----------------------------------------------------------------------------
(* The lifecycle store.                                                      *)

LifeCall ==
  [pc    : {"idle", "acquire", "load", "merge", "assign", "save"},
   kind  : {"get", "put", "reconcile"},
   req   : Requests \cup {NoRequest},
   state : LifecycleStateOrNone,
   text  : SUBSET (Requests \X ExecutionLifecycleState)]

\* What a call is when its thread is where it is, with the file lock or without.
LifeCallSound(k, holds) ==
  /\ k \in LifeCall
  /\ k.pc # "merge" => k.text = {}
  /\ k.kind # "get" => k.req \in Requests /\ k.state \in ExecutionLifecycleState
  /\ k.pc \in {"assign", "save"} => holds
  /\ k.pc = "acquire" => k.kind # "get"
  /\ holds => k.pc \in {"load", "merge", "assign", "save"} /\ k.kind # "get"

\* What the thread with the lock knows of the file: the text it has is the
\* file's, and unless a reader came in between, each UNKNOWN of the file is in
\* the dictionary or in the text still to be merged, up to its own assignment.
HolderSees(k, fileNow, recordsNow, alone) ==
  /\ \A line \in k.text : line[2] = fileNow[line[1]]
  /\ alone /\ k.pc # "load" =>
       \A r \in Requests : fileNow[r] = "UNKNOWN" =>
         \/ recordsNow[r] = "UNKNOWN"
         \/ <<r, "UNKNOWN">> \in k.text
         \/ k.pc = "save" /\ k.kind = "reconcile" /\ k.req = r
  /\ alone /\ k.pc = "assign" /\ k.kind = "put" => CanPut(recordsNow, k.req, k.state)

LifeTypes ==
  /\ lifeFile \in [Requests -> LifecycleStateOrNone]
  /\ lifeRecords \in [Requests -> LifecycleStateOrNone]
  /\ lifeLock \in LifecycleThreads \cup {Nobody}
  /\ lifeCall \in [LifecycleThreads -> LifeCall]
  /\ unread \in BOOLEAN

\* The dictionary has every request the file has.
NoneIsForgotten == \A r \in Requests : lifeFile[r] # "NONE" => lifeRecords[r] # "NONE"

LifeInv ==
  /\ LifeTypes
  /\ \A t \in LifecycleThreads : LifeCallSound(lifeCall[t], lifeLock = t)
  /\ NoneIsForgotten
  /\ \A t \in LifecycleThreads :
       lifeLock = t => HolderSees(lifeCall[t], lifeFile, lifeRecords, unread)

\* A step of one thread, which leaves alone what the thread with the lock needs.
LEMMA LifeStep ==
  ASSUME LifeInv, NEW t \in LifecycleThreads, NEW k, lifeCall' = [lifeCall EXCEPT ![t] = k],
         lifeFile' \in [Requests -> LifecycleStateOrNone],
         lifeRecords' \in [Requests -> LifecycleStateOrNone], unread' \in BOOLEAN,
         \/ UNCHANGED lifeLock
         \/ lifeLock = Nobody /\ lifeLock' = t
         \/ lifeLock = t /\ lifeLock' = Nobody,
         LifeCallSound(k, lifeLock' = t), NoneIsForgotten',
         lifeLock' = t => HolderSees(k, lifeFile', lifeRecords', unread'),
         unread' => unread,
         lifeLock \notin {Nobody, t} => UNCHANGED lifeFile /\ (unread' => UNCHANGED lifeRecords)
  PROVE  LifeInv'
<1>1. lifeCall'[t] = k /\ \A u \in LifecycleThreads \ {t} : lifeCall'[u] = lifeCall[u]
  BY DEF LifeInv, LifeTypes
<1>2. LifeTypes'
  BY DEF LifeInv, LifeTypes, LifeCallSound
<1>3. ASSUME NEW u \in LifecycleThreads
      PROVE  LifeCallSound(lifeCall'[u], lifeLock' = u)
  <2>1. CASE u = t
    BY <1>1, <2>1
  <2>2. CASE u # t
    <3>1. lifeCall'[u] = lifeCall[u] /\ (lifeLock' = u) = (lifeLock = u)
      BY <1>1, <2>2, LifecycleAssumption
    <3>2. QED
      BY <3>1 DEF LifeInv
  <2>3. QED
    BY <2>1, <2>2
<1>4. ASSUME NEW u \in LifecycleThreads, lifeLock' = u
      PROVE  HolderSees(lifeCall'[u], lifeFile', lifeRecords', unread')
  <2>1. CASE u = t
    BY <1>1, <1>4, <2>1
  <2>2. CASE u # t
    <3>1. lifeCall'[u] = lifeCall[u] /\ lifeLock = u /\ lifeLock \notin {Nobody, t}
      BY <1>1, <1>4, <2>2, LifecycleAssumption
    <3>2. HolderSees(lifeCall[u], lifeFile, lifeRecords, unread)
      BY <3>1 DEF LifeInv
    <3>3. QED
      BY <3>1, <3>2 DEF HolderSees, CanPut
  <2>3. QED
    BY <2>1, <2>2
<1>5. QED
  BY <1>2, <1>3, <1>4 DEF LifeInv, LifeCallSound, HolderSees, CanPut

\* What the invariant says of one thread.
LEMMA LifeThreadIs ==
  ASSUME LifeInv, NEW t \in LifecycleThreads
  PROVE  /\ lifeCall[t] \in LifeCall /\ LifeCallSound(lifeCall[t], lifeLock = t)
         /\ lifeLock = t => HolderSees(lifeCall[t], lifeFile, lifeRecords, unread)
         /\ LifeTypes /\ NoneIsForgotten
BY DEF LifeInv, LifeTypes

\* A call that goes to another step.
LEMMA StepsToIs ==
  ASSUME LifeInv, NEW t \in LifecycleThreads, NEW pc, StepsTo(t, pc)
  PROVE  \E k : /\ lifeCall' = [lifeCall EXCEPT ![t] = k] /\ k = [lifeCall[t] EXCEPT !.pc = pc]
BY DEF StepsTo

LEMMA NoCallIsSound == \A holds : ~holds => LifeCallSound(NoLifeCall, holds)
BY DEF NoLifeCall, LifeCallSound, LifeCall, LifecycleStateOrNone

LEMMA BeginKeepsLife ==
  ASSUME LifeInv, NEW t \in LifecycleThreads, BeginLifeCall(t)
  PROVE  LifeInv'
<1>1. /\ lifeCall[t].pc = "idle"
      /\ UNCHANGED <<lifeFile, lifeRecords, lifeLock, unread, lifeFaults>>
  BY DEF BeginLifeCall
<1>2. lifeLock # t
  BY <1>1, LifeThreadIs DEF LifeCallSound
<1>3. ASSUME NEW k, Asks(t, k), LifeCallSound(k, FALSE)
      PROVE  LifeInv'
  <2>1. LifeCallSound(k, lifeLock' = t)
    BY <1>1, <1>2, <1>3
  <2>2. QED
    BY <1>1, <1>2, <1>3, <2>1, LifeStep, LifeThreadIs DEF Asks, LifeTypes, NoneIsForgotten
<1>4. CASE Asks(t, [NoLifeCall EXCEPT !.pc = "load"])
  <2>1. LifeCallSound([NoLifeCall EXCEPT !.pc = "load"], FALSE)
    BY DEF NoLifeCall, LifeCallSound, LifeCall, LifecycleStateOrNone
  <2>2. QED
    BY <1>3, <1>4, <2>1
<1>5. ASSUME NEW r \in Requests, NEW s \in StatesPut,
             NEW pc \in {"load", "acquire"}, NEW kind \in {"put", "reconcile"},
             Asks(t, [NoLifeCall EXCEPT !.pc = pc, !.kind = kind, !.req = r, !.state = s])
      PROVE  LifeInv'
  <2> DEFINE k == [NoLifeCall EXCEPT !.pc = pc, !.kind = kind, !.req = r, !.state = s]
  <2>1. LifeCallSound(k, FALSE)
    BY LifecycleAssumption DEF NoLifeCall, LifeCallSound, LifeCall, LifecycleStateOrNone
  <2> HIDE DEF k
  <2>2. QED
    BY <1>3, <1>5, <2>1 DEF k
<1>6. QED
  BY <1>4, <1>5 DEF BeginLifeCall

LEMMA AcquireKeepsLife ==
  ASSUME LifeInv, NEW t \in LifecycleThreads, AcquireLock(t)
  PROVE  LifeInv'
<1>1. /\ lifeCall[t].pc = "acquire" /\ lifeLock = Nobody /\ lifeLock' = t
      /\ UNCHANGED <<lifeFile, lifeRecords, unread>>
  BY DEF AcquireLock
<1>2. PICK k : lifeCall' = [lifeCall EXCEPT ![t] = k] /\ k = [lifeCall[t] EXCEPT !.pc = "load"]
  BY StepsToIs DEF AcquireLock
<1>3. LifeCallSound(k, lifeLock' = t) /\ k.text = {} /\ k.pc = "load"
  BY <1>1, <1>2, LifeThreadIs DEF LifeCallSound, LifeCall
<1>4. HolderSees(k, lifeFile', lifeRecords', unread')
  BY <1>3 DEF HolderSees
<1>5. NoneIsForgotten' /\ LifeTypes
  BY <1>1, LifeThreadIs DEF NoneIsForgotten
<1>6. QED
  BY <1>1, <1>2, <1>3, <1>4, <1>5, LifeStep DEF LifeTypes

LEMMA LoadKeepsLife ==
  ASSUME LifeInv, NEW t \in LifecycleThreads, LoadText(t)
  PROVE  LifeInv'
<1>1. /\ lifeCall[t].pc = "load"
      /\ UNCHANGED <<lifeFile, lifeRecords, lifeLock, unread>>
  BY DEF LoadText
<1> DEFINE text == {<<r, lifeFile[r]>> : r \in {q \in Requests : lifeFile[q] # "NONE"}}
           k == [lifeCall[t] EXCEPT !.pc = "merge", !.text = text]
<1>2. /\ text \subseteq Requests \X ExecutionLifecycleState
      /\ \A line \in text : line[2] = lifeFile[line[1]]
      /\ \A r \in Requests : lifeFile[r] = "UNKNOWN" => <<r, "UNKNOWN">> \in text
  BY LifeThreadIs DEF LifeTypes, LifecycleStateOrNone
<1>3. lifeCall' = [lifeCall EXCEPT ![t].pc = "merge", ![t].text = text]
  BY DEF LoadText
<1> HIDE DEF text
<1>4. lifeCall' = [lifeCall EXCEPT ![t] = k]
  BY <1>3, LifeThreadIs DEF LifeTypes
<1>5. LifeCallSound(k, lifeLock' = t) /\ k.text = text /\ k.pc = "merge"
  BY <1>1, <1>2, LifeThreadIs DEF LifeCallSound, LifeCall
<1> HIDE DEF k
<1>6. HolderSees(k, lifeFile', lifeRecords', unread')
  BY <1>1, <1>2, <1>5 DEF HolderSees
<1>7. QED
  BY <1>1, <1>4, <1>5, <1>6, LifeStep, LifeThreadIs DEF LifeTypes, NoneIsForgotten

LEMMA MergeKeepsLife ==
  ASSUME LifeInv, NEW t \in LifecycleThreads, MergeRecord(t)
  PROVE  LifeInv'
<1>1. PICK line \in lifeCall[t].text :
        /\ lifeRecords' = Put(lifeRecords, line[1], line[2])
        /\ lifeCall' = [lifeCall EXCEPT ![t].text = @ \ {line}]
  BY DEF MergeRecord
<1>2. /\ lifeCall[t].pc = "merge" /\ unread' = (unread /\ lifeLock \in {Nobody, t})
      /\ UNCHANGED <<lifeFile, lifeLock>>
  BY DEF MergeRecord
<1>3. line[1] \in Requests /\ line[2] \in ExecutionLifecycleState /\ line = <<line[1], line[2]>>
  BY <1>1, LifeThreadIs DEF LifeCall
<1>4. lifeRecords' = [lifeRecords EXCEPT ![line[1]] = line[2]]
  BY <1>1 DEF Put
<1>5. \A r \in Requests : lifeRecords'[r] = IF r = line[1] THEN line[2] ELSE lifeRecords[r]
  BY <1>3, <1>4, LifeThreadIs DEF LifeTypes
<1>6. lifeRecords' \in [Requests -> LifecycleStateOrNone] /\ NoneIsForgotten'
  BY <1>2, <1>3, <1>4, <1>5, LifeThreadIs
     DEF LifeTypes, LifecycleStateOrNone, NoneIsForgotten, ExecutionLifecycleState
<1> DEFINE k == [lifeCall[t] EXCEPT !.text = lifeCall[t].text \ {line}]
<1>7. lifeCall' = [lifeCall EXCEPT ![t] = k]
  BY <1>1
<1>8. LifeCallSound(k, lifeLock' = t) /\ k.text = lifeCall[t].text \ {line} /\ k.pc = "merge"
  BY <1>2, LifeThreadIs DEF LifeCallSound, LifeCall
<1> HIDE DEF k
<1>9. ASSUME lifeLock = t
      PROVE  HolderSees(k, lifeFile', lifeRecords', unread')
  <2>1. HolderSees(lifeCall[t], lifeFile, lifeRecords, unread)
    BY <1>9, LifeThreadIs
  <2>2. line[2] = lifeFile[line[1]]
    BY <1>1, <2>1 DEF HolderSees
  <2>3. \A l \in k.text : l[2] = lifeFile'[l[1]]
    BY <1>2, <1>8, <2>1 DEF HolderSees
  <2>4. ASSUME unread', NEW r \in Requests, lifeFile'[r] = "UNKNOWN"
        PROVE  lifeRecords'[r] = "UNKNOWN" \/ <<r, "UNKNOWN">> \in k.text
    <3>1. lifeRecords[r] = "UNKNOWN" \/ <<r, "UNKNOWN">> \in lifeCall[t].text
      BY <1>2, <2>1, <2>4 DEF HolderSees
    <3>2. QED
      BY <1>2, <1>3, <1>5, <1>8, <2>2, <2>4, <3>1
  <2>5. QED
    BY <1>8, <2>3, <2>4 DEF HolderSees
<1>10. QED
  BY <1>2, <1>6, <1>7, <1>8, <1>9, LifeStep, LifeThreadIs DEF LifeTypes

LEMMA FinishKeepsLife ==
  ASSUME LifeInv, NEW t \in LifecycleThreads, FinishRead(t)
  PROVE  LifeInv'
<1>1. /\ lifeCall[t].pc = "merge" /\ lifeCall[t].text = {} /\ lifeLock # t
      /\ UNCHANGED <<lifeFile, lifeRecords, lifeLock, unread>>
  BY DEF FinishRead, Loaded
<1>2. ASSUME NEW k, lifeCall' = [lifeCall EXCEPT ![t] = k], LifeCallSound(k, FALSE)
      PROVE  LifeInv'
  <2>1. LifeCallSound(k, lifeLock' = t)
    BY <1>1, <1>2
  <2>2. QED
    BY <1>1, <1>2, <2>1, LifeStep, LifeThreadIs DEF LifeTypes, NoneIsForgotten
<1>3. CASE StepsTo(t, "acquire") /\ lifeCall[t].kind = "reconcile"
  <2>1. PICK k : lifeCall' = [lifeCall EXCEPT ![t] = k] /\ k = [lifeCall[t] EXCEPT !.pc = "acquire"]
    BY <1>3, StepsToIs
  <2>2. LifeCallSound(k, FALSE)
    BY <1>1, <1>3, <2>1, LifeThreadIs DEF LifeCallSound, LifeCall
  <2>3. QED
    BY <1>2, <2>1, <2>2
<1>4. CASE Leaves(t)
  BY <1>2, <1>4, NoCallIsSound DEF Leaves, Asks
<1>5. QED
  BY <1>3, <1>4 DEF FinishRead

LEMMA CheckKeepsLife ==
  ASSUME LifeInv, NEW t \in LifecycleThreads, CheckState(t)
  PROVE  LifeInv'
<1>1. /\ lifeCall[t].pc = "merge" /\ lifeCall[t].text = {} /\ lifeLock = t
      /\ UNCHANGED <<lifeFile, lifeRecords, unread>>
  BY DEF CheckState, Loaded
<1>2. NoneIsForgotten' /\ LifeTypes
  BY <1>1, LifeThreadIs DEF NoneIsForgotten
<1>3. CASE /\ lifeCall[t].kind = "put" => CanPut(lifeRecords, lifeCall[t].req, lifeCall[t].state)
           /\ StepsTo(t, "assign") /\ UNCHANGED lifeLock
  <2>1. PICK k : lifeCall' = [lifeCall EXCEPT ![t] = k] /\ k = [lifeCall[t] EXCEPT !.pc = "assign"]
    BY <1>3, StepsToIs
  <2>2. /\ LifeCallSound(k, lifeLock' = t) /\ k.pc = "assign" /\ k.text = {}
        /\ k.kind = lifeCall[t].kind /\ k.req = lifeCall[t].req /\ k.state = lifeCall[t].state
    BY <1>1, <1>3, <2>1, LifeThreadIs DEF LifeCallSound, LifeCall
  <2>3. HolderSees(k, lifeFile', lifeRecords', unread')
    BY <1>1, <1>3, <2>2, LifeThreadIs DEF HolderSees, CanPut
  <2>4. QED
    BY <1>1, <1>2, <1>3, <2>1, <2>2, <2>3, LifeStep DEF LifeTypes
<1>4. CASE Leaves(t) /\ lifeLock' = Nobody
  <2>1. PICK k : k = NoLifeCall /\ lifeCall' = [lifeCall EXCEPT ![t] = k]
    BY <1>4 DEF Leaves, Asks
  <2>2. lifeLock' # t
    BY <1>4, LifecycleAssumption
  <2>3. LifeCallSound(k, lifeLock' = t)
    BY <2>1, <2>2, NoCallIsSound
  <2>4. QED
    BY <1>1, <1>2, <1>4, <2>1, <2>2, <2>3, LifeStep DEF LifeTypes
<1>5. QED
  BY <1>3, <1>4 DEF CheckState

LEMMA AssignKeepsLife ==
  ASSUME LifeInv, NEW t \in LifecycleThreads, AssignState(t)
  PROVE  LifeInv'
<1>1. /\ lifeCall[t].pc = "assign" /\ UNCHANGED <<lifeFile, lifeLock, unread>>
      /\ lifeRecords' = [lifeRecords EXCEPT ![lifeCall[t].req] = lifeCall[t].state]
  BY DEF AssignState, Put
<1>2. /\ lifeLock = t /\ lifeCall[t].req \in Requests /\ lifeCall[t].text = {}
      /\ lifeCall[t].state \in ExecutionLifecycleState /\ lifeCall[t].kind \in {"put", "reconcile"}
  BY <1>1, LifeThreadIs DEF LifeCallSound, LifeCall
<1>3. \A r \in Requests : lifeRecords'[r] =
        IF r = lifeCall[t].req THEN lifeCall[t].state ELSE lifeRecords[r]
  BY <1>1, <1>2, LifeThreadIs DEF LifeTypes
<1>4. lifeRecords' \in [Requests -> LifecycleStateOrNone]
  BY <1>1, <1>2, LifeThreadIs DEF LifeTypes, LifecycleStateOrNone
<1>5. NoneIsForgotten'
  BY <1>1, <1>2, <1>3, LifeThreadIs DEF NoneIsForgotten, ExecutionLifecycleState
<1>6. PICK k : lifeCall' = [lifeCall EXCEPT ![t] = k] /\ k = [lifeCall[t] EXCEPT !.pc = "save"]
  BY StepsToIs DEF AssignState
<1>7. /\ LifeCallSound(k, lifeLock' = t) /\ k.pc = "save" /\ k.text = {}
      /\ k.kind = lifeCall[t].kind /\ k.req = lifeCall[t].req
  BY <1>1, <1>2, <1>6, LifeThreadIs DEF LifeCallSound, LifeCall
<1>8. HolderSees(k, lifeFile', lifeRecords', unread')
  <2>1. HolderSees(lifeCall[t], lifeFile, lifeRecords, unread)
    BY <1>2, LifeThreadIs
  <2>2. ASSUME unread, NEW r \in Requests, lifeFile[r] = "UNKNOWN"
        PROVE  lifeRecords'[r] = "UNKNOWN" \/ (k.kind = "reconcile" /\ k.req = r)
    <3>1. lifeRecords[r] = "UNKNOWN"
      BY <1>1, <1>2, <2>1, <2>2 DEF HolderSees
    <3>2. CASE r # k.req
      BY <1>3, <1>7, <3>1, <3>2
    <3>3. CASE r = k.req /\ k.kind = "put"
      <4>1. CanPut(lifeRecords, lifeCall[t].req, lifeCall[t].state)
        BY <1>1, <1>7, <2>1, <2>2, <3>3 DEF HolderSees
      <4>2. QED
        BY <1>3, <1>7, <3>1, <3>3, <4>1 DEF CanPut
    <3>4. QED
      BY <1>2, <1>7, <3>2, <3>3
  <2>3. QED
    BY <1>1, <1>7, <2>2 DEF HolderSees
<1>9. QED
  BY <1>1, <1>2, <1>4, <1>5, <1>6, <1>7, <1>8, LifeStep, LifeThreadIs DEF LifeTypes

LEMMA SaveKeepsLife ==
  ASSUME LifeInv, NEW t \in LifecycleThreads, SaveRecords(t) \/ SaveRecordsFails(t)
  PROVE  LifeInv'
<1>1. /\ lifeCall[t].pc = "save" /\ lifeLock' = Nobody /\ Leaves(t)
      /\ lifeFile' = lifeRecords \/ lifeFile' = lifeFile
      /\ UNCHANGED <<lifeRecords, unread>>
  BY DEF SaveRecords, SaveRecordsFails
<1>2. lifeLock = t /\ lifeLock' # t
  BY <1>1, LifeThreadIs, LifecycleAssumption DEF LifeCallSound
<1>3. PICK k : k = NoLifeCall /\ lifeCall' = [lifeCall EXCEPT ![t] = k]
  BY <1>1 DEF Leaves, Asks
<1>4. LifeCallSound(k, lifeLock' = t)
  BY <1>2, <1>3, NoCallIsSound
<1>5. /\ lifeFile' \in [Requests -> LifecycleStateOrNone] /\ NoneIsForgotten' /\ LifeTypes
  BY <1>1, LifeThreadIs DEF LifeTypes, NoneIsForgotten
<1>6. QED
  BY <1>1, <1>2, <1>3, <1>4, <1>5, LifeStep DEF LifeTypes

LEMMA RestartKeepsLife == LifeInv /\ LifecycleRestart => LifeInv'
<1> SUFFICES ASSUME LifeInv, LifecycleRestart PROVE LifeInv'
  OBVIOUS
<1>1. /\ lifeRecords' = lifeFile /\ lifeLock' = Nobody /\ UNCHANGED <<lifeFile, unread>>
      /\ lifeCall' = [t \in LifecycleThreads |-> NoLifeCall]
  BY DEF LifecycleRestart
<1>2. NoLifeCall \in LifeCall
  BY DEF NoLifeCall, LifeCall, LifecycleStateOrNone
<1>3. LifeTypes' /\ NoneIsForgotten'
  BY <1>1, <1>2 DEF LifeInv, LifeTypes, NoneIsForgotten
<1>4. \A t \in LifecycleThreads : lifeLock' # t /\ lifeCall'[t] = NoLifeCall
  BY <1>1, LifecycleAssumption
<1>5. \A t \in LifecycleThreads : LifeCallSound(lifeCall'[t], lifeLock' = t)
  BY <1>4, NoCallIsSound
<1>6. QED
  BY <1>3, <1>4, <1>5 DEF LifeInv, LifeCallSound, HolderSees, CanPut

LEMMA LifeInvariance == LifecycleSpec => []LifeInv
<1>1. LifecycleInit => LifeInv
  <2> SUFFICES ASSUME LifecycleInit PROVE LifeInv
    OBVIOUS
  <2>1. NoLifeCall \in LifeCall
    BY DEF NoLifeCall, LifeCall, LifecycleStateOrNone
  <2>2. LifeTypes /\ NoneIsForgotten
    BY <2>1 DEF LifecycleInit, LifeTypes, NoneIsForgotten, EmptyLifecycle, LifecycleStateOrNone
  <2>3. \A t \in LifecycleThreads : lifeLock # t /\ lifeCall[t] = NoLifeCall
    BY LifecycleAssumption DEF LifecycleInit
  <2>4. QED
    BY <2>2, <2>3, NoCallIsSound DEF LifeInv
<1>2. LifeInv /\ [LifecycleNext]_lifecycleVars => LifeInv'
  <2> SUFFICES ASSUME LifeInv, [LifecycleNext]_lifecycleVars PROVE LifeInv'
    OBVIOUS
  <2>1. CASE UNCHANGED lifecycleVars
    BY <2>1 DEF lifecycleVars, LifeInv, LifeTypes, NoneIsForgotten, LifeCallSound, HolderSees,
                CanPut
  <2>2. CASE LifecycleNext
    BY <2>2, BeginKeepsLife, AcquireKeepsLife, LoadKeepsLife, MergeKeepsLife, FinishKeepsLife,
       CheckKeepsLife, AssignKeepsLife, SaveKeepsLife, RestartKeepsLife
       DEF LifecycleNext
  <2>3. QED
    BY <2>1, <2>2
<1>3. QED
  BY <1>1, <1>2, PTL DEF LifecycleSpec

\* Through readers that merge an older text, failed saves and restarts, no
\* request is forgotten, and an uncertainty that is durable is left by its own
\* reconciliation alone: see UncertaintyIsKept.
THEOREM LifecycleKeepsUncertainty == LifecycleSpec => UncertaintyIsKept
<1> DEFINE Kept ==
      /\ \A r \in Requests : lifeFile[r] # "NONE" => lifeFile'[r] # "NONE"
      /\ unread' => \A r \in Requests : lifeFile[r] = "UNKNOWN" /\ lifeFile'[r] # "UNKNOWN" =>
           \E t \in LifecycleThreads : /\ lifeCall[t].pc = "save" /\ lifeCall[t].kind = "reconcile"
                                       /\ lifeCall[t].req = r
<1>1. LifeInv /\ [LifecycleNext]_lifecycleVars => [Kept]_lifecycleVars
  <2> SUFFICES ASSUME LifeInv, LifecycleNext PROVE Kept
    BY DEF lifecycleVars
  <2>1. CASE UNCHANGED lifeFile
    BY <2>1
  <2>2. ASSUME NEW t \in LifecycleThreads, SaveRecords(t)
        PROVE  Kept
    <3>1. lifeCall[t].pc = "save" /\ lifeFile' = lifeRecords /\ UNCHANGED unread
      BY <2>2 DEF SaveRecords
    <3>2. lifeLock = t /\ lifeCall[t].text = {}
      BY <3>1, LifeThreadIs DEF LifeCallSound
    <3>3. HolderSees(lifeCall[t], lifeFile, lifeRecords, unread) /\ NoneIsForgotten
      BY <3>2, LifeThreadIs
    <3>4. \A r \in Requests : lifeFile[r] # "NONE" => lifeFile'[r] # "NONE"
      BY <3>1, <3>3 DEF NoneIsForgotten
    <3>5. ASSUME unread', NEW r \in Requests, lifeFile[r] = "UNKNOWN", lifeFile'[r] # "UNKNOWN"
          PROVE  lifeCall[t].kind = "reconcile" /\ lifeCall[t].req = r
      BY <3>1, <3>2, <3>3, <3>5 DEF HolderSees
    <3>6. QED
      BY <3>1, <3>4, <3>5
  <2>3. QED
    BY <2>1, <2>2
       DEF LifecycleNext, BeginLifeCall, AcquireLock, LoadText, MergeRecord, FinishRead, CheckState,
           AssignState, SaveRecordsFails, LifecycleRestart
<1>2. QED
  BY <1>1, LifeInvariance, PTL DEF LifecycleSpec, UncertaintyIsKept

=============================================================================
