---------------------------- MODULE AutomationProofs ---------------------------
(***************************************************************************)
(* What holds of AutomationCycle for any number of threads and cycles, any *)
(* limits and any number of faults: no order goes out that does not fit    *)
(* the limits of the RiskManager, of P39 and of P40 on the account its run *)
(* read; and as long as the saves keep apart, none goes out whose cycle    *)
(* the file does not have, and the file never goes back.                   *)
(***************************************************************************)
EXTENDS AutomationCycle, TLAPS

AutomationSpec == AutomationInit /\ [][AutomationNext]_automationVars

(* What the two evaluators approved.                                       *)
Approved(s) == BudgetApproves(s) /\ PreTradeApproves(s)

(* A thread that is on its way to the gateway, its saves included.         *)
UnderWay(r) ==
    \/ r.pc \in {"dispatch", "send"}
    \/ r.pc \in {"load", "write", "replace"} /\ r.after \in {"dispatch", "send"}

Fields == {"pc", "cycle", "seen", "began", "copy", "after"}

AccountFields == {"trades", "streak", "loss", "volume"}

(* Before its admission a run holds a reading the RiskManager allowed, and
   one of the account as it was; after it, the account as it was fits.     *)
Sound(r) ==
    /\ r.after \in {"idle", "dispatch", "send"}
    /\ r.pc = "admit" =>
          /\ \A s \in r.seen : RiskManagerAllows(s)
          /\ \A a \in r.began : DOMAIN a = AccountFields
          /\ \A s \in r.seen, a \in r.began : s \in Observations(a)
    /\ UnderWay(r) => \A a \in r.began : FitsTheLimits(a)

(* The property looks only at orders; what the decision, the admission and
   the reading have each left with the thread is what Send needs to keep it. *)
LimitsInv ==
    /\ DOMAIN run = AutomationThreads /\ DOMAIN account = AccountFields
    /\ \A t \in AutomationThreads : DOMAIN run[t] = Fields /\ Sound(run[t])
    /\ \A o \in orders : FitsTheLimits(o.account)

(* What was allowed and approved of a reading holds of the account itself:
   neither would have passed over a part that was not read.                *)
LEMMA ApprovedFits ==
    ASSUME NEW a, DOMAIN a = AccountFields, NEW s \in Observations(a),
           RiskManagerAllows(s), Approved(s)
    PROVE  FitsTheLimits(a)
  <1>1. s.volume # Unknown /\ s.trades # Unknown
    BY DEF Approved, BudgetApproves, HasBudget, PreTradeApproves
  <1>2. s = a
    BY <1>1 DEF Observations, AccountFields
  <1> QED
    BY <1>2 DEF FitsTheLimits, Approved, BudgetApproves, HasBudget, PreTradeApproves,
                RiskManagerAllows

(* A thread's new run keeps the invariant if it is sound itself.           *)
LEMMA GoesKeeps ==
    ASSUME LimitsInv, NEW t \in AutomationThreads, NEW r, Goes(t, r),
           DOMAIN r = Fields, Sound(r),
           DOMAIN account' = AccountFields,
           \A o \in orders' : FitsTheLimits(o.account)
    PROVE  LimitsInv'
  <1>1. run' = [run EXCEPT ![t] = r]
    BY DEF Goes
  <1>2. DOMAIN run' = AutomationThreads
    BY <1>1 DEF LimitsInv
  <1>3. ASSUME NEW u \in AutomationThreads
        PROVE  DOMAIN run'[u] = Fields /\ Sound(run'[u])
    <2>1. CASE u = t
      <3>1. run'[u] = r
        BY <1>1, <2>1 DEF LimitsInv
      <3> QED
        BY <3>1
    <2>2. CASE u # t
      <3>1. run'[u] = run[u]
        BY <1>1, <2>2 DEF LimitsInv
      <3> QED
        BY <3>1 DEF LimitsInv
    <2> QED
      BY <2>1, <2>2
  <1> QED
    BY <1>2, <1>3 DEF LimitsInv

-----------------------------------------------------------------------------

(* A run that has not begun                                                *)
LEMMA NoRunIsHarmless ==
    /\ DOMAIN NoRun = Fields /\ NoRun.seen = {} /\ NoRun.began = {}
    /\ NoRun.pc = "idle" /\ NoRun.after = "idle"
    /\ Sound(NoRun)
  BY DEF NoRun, Fields, UnderWay, Sound

(* The thread ends its request.                                            *)
LEMMA EndsKeeps ==
    ASSUME LimitsInv, NEW t \in AutomationThreads, Ends(t), UNCHANGED account,
           \A o \in orders' : FitsTheLimits(o.account)
    PROVE  LimitsInv'
  <1>1. DOMAIN account' = AccountFields
    BY DEF LimitsInv
  <1> QED
    BY <1>1, NoRunIsHarmless, GoesKeeps DEF Ends

(* A state of the cycle is entered; on the way to the gateway only what
   fits is.                                                                *)
LEMMA EntersKeeps ==
    ASSUME LimitsInv, NEW t \in AutomationThreads, NEW state, NEW after, Enters(t, state, after),
           after \in {"idle", "dispatch", "send"},
           after \in {"dispatch", "send"} => \A a \in run[t].began : FitsTheLimits(a),
           UNCHANGED <<account, orders>>
    PROVE  LimitsInv'
  <1> DEFINE kept == IF after = "idle" THEN {} ELSE run[t].seen
             still == IF after = "idle" THEN {} ELSE run[t].began
             r == [run[t] EXCEPT !.pc = "load", !.after = after, !.seen = kept, !.began = still]
  <1>1. Goes(t, r)
    BY DEF Enters
  <1>2. DOMAIN r = Fields /\ r.pc = "load" /\ r.after = after /\ r.began = still
    BY DEF LimitsInv, Fields
  <1>3. Sound(r)
    BY <1>2 DEF UnderWay, Sound
  <1>4. DOMAIN account' = AccountFields /\ \A o \in orders' : FitsTheLimits(o.account)
    BY DEF LimitsInv
  <1> HIDE DEF r, kept, still
  <1> QED
    BY <1>1, <1>2, <1>3, <1>4, GoesKeeps

(* The thread goes on with the account it has, and is under way only if it
   was.                                                                    *)
LEMMA MovesKeeps ==
    ASSUME LimitsInv, NEW t \in AutomationThreads, NEW r, Goes(t, r),
           DOMAIN r = Fields, r.began = run[t].began, r.after = run[t].after, r.pc # "admit",
           UnderWay(r) => UnderWay(run[t]),
           UNCHANGED <<account, orders>>
    PROVE  LimitsInv'
  <1>1. Sound(r)
    BY DEF LimitsInv, Sound
  <1>2. DOMAIN account' = AccountFields /\ \A o \in orders' : FitsTheLimits(o.account)
    BY DEF LimitsInv
  <1> QED
    BY <1>1, <1>2, GoesKeeps

(* Every step of a thread keeps the invariant.                             *)
LEMMA StepKeeps ==
    ASSUME LimitsInv, NEW t \in AutomationThreads, AutomationStep(t)
    PROVE  LimitsInv'
  <1> DEFINE me == run[t]
  <1>0. /\ DOMAIN me = Fields /\ Sound(me) /\ DOMAIN account = AccountFields
        /\ \A o \in orders : FitsTheLimits(o.account)
    BY DEF LimitsInv
  <1>1. CASE Evaluate(t)
    <2>1. PICK s \in Observations(account), c \in Fresh, a \in Analyses :
             /\ Decision(a, s) = "EXECUTAR"
             /\ Goes(t, [NoRun EXCEPT !.pc = "admit", !.cycle = c, !.seen = {s},
                                      !.began = {account}])
      BY <1>1 DEF Evaluate
    <2> DEFINE r == [NoRun EXCEPT !.pc = "admit", !.cycle = c, !.seen = {s}, !.began = {account}]
    <2>2. /\ DOMAIN r = Fields /\ r.seen = {s} /\ r.began = {account}
          /\ r.pc = "admit" /\ r.after = "idle"
      BY NoRunIsHarmless DEF Fields
    <2>3. RiskManagerAllows(s)
      BY <2>1 DEF Decision
    <2>4. Sound(r)
      BY <1>0, <2>2, <2>3 DEF Sound, UnderWay
    <2>5. DOMAIN account' = AccountFields /\ \A o \in orders' : FitsTheLimits(o.account)
      BY <1>0, <1>1 DEF Evaluate
    <2> HIDE DEF r
    <2> QED
      BY <2>1, <2>2, <2>4, <2>5, GoesKeeps DEF r
  <1>3. CASE Admit(t)
    <2>1. UNCHANGED <<account, orders>>
      BY <1>3 DEF Admit
    <2>2. CASE Enters(t, "BLOCKED", "idle")
      BY <2>1, <2>2, EntersKeeps
    <2>3. CASE Enters(t, "ADMITTED", "dispatch") /\ \E s \in me.seen : Approved(s)
      <3>1. PICK s \in me.seen : Approved(s)
        BY <2>3
      <3>2. me.pc = "admit"
        BY <1>3 DEF Admit
      <3>3. ASSUME NEW a \in me.began PROVE FitsTheLimits(a)
        <4>1. DOMAIN a = AccountFields /\ s \in Observations(a) /\ RiskManagerAllows(s)
          BY <1>0, <3>2 DEF Sound
        <4> QED
          BY <3>1, <4>1, ApprovedFits
      <3> QED
        BY <2>1, <2>3, <3>3, EntersKeeps
    <2>4. \/ Enters(t, "BLOCKED", "idle")
          \/ Enters(t, "ADMITTED", "dispatch") /\ \E s \in me.seen : Approved(s)
      BY <1>3 DEF Admit, Admitted, Approved
    <2> QED
      BY <2>2, <2>3, <2>4
  <1>4. CASE MarkDispatched(t)
    <2>1. Enters(t, "DISPATCHED", "send") /\ UNCHANGED <<account, orders>>
      BY <1>4 DEF MarkDispatched
    <2>2. \A a \in me.began : FitsTheLimits(a)
      BY <1>0, <1>4 DEF MarkDispatched, UnderWay, Sound
    <2> QED
      BY <2>1, <2>2, EntersKeeps
  <1>5. CASE Block(t)
    BY <1>5, EntersKeeps DEF Block
  <1>6. CASE Load(t)
    <2>1. PICK found : Goes(t, [me EXCEPT !.pc = "write",
                                          !.copy = [found EXCEPT ![me.cycle] = cycles[me.cycle]]])
      BY <1>6 DEF Load
    <2> DEFINE copied == [found EXCEPT ![me.cycle] = cycles[me.cycle]]
               r == [me EXCEPT !.pc = "write", !.copy = copied]
    <2>2. Goes(t, r)
      BY <2>1
    <2> HIDE DEF copied
    <2>3. DOMAIN r = Fields /\ r.began = me.began /\ r.pc = "write" /\ r.after = me.after
      BY <1>0 DEF Fields
    <2>4. UnderWay(r) => UnderWay(me)
      BY <1>6, <2>3 DEF Load, UnderWay
    <2>5. UNCHANGED <<account, orders>>
      BY <1>6 DEF Load
    <2> HIDE DEF r
    <2> QED
      BY <2>2, <2>3, <2>4, <2>5, MovesKeeps
  <1>7. CASE Write(t)
    <2> DEFINE r == [me EXCEPT !.pc = "replace"]
    <2>1. Goes(t, r) /\ UNCHANGED <<account, orders>>
      BY <1>7 DEF Write
    <2>2. DOMAIN r = Fields /\ r.began = me.began /\ r.pc = "replace" /\ r.after = me.after
      BY <1>0 DEF Fields
    <2>3. UnderWay(r) => UnderWay(me)
      BY <1>7, <2>2 DEF Write, UnderWay
    <2> HIDE DEF r
    <2> QED
      BY <2>1, <2>2, <2>3, MovesKeeps
  <1>8. CASE Replace(t)
    <2> DEFINE r == [me EXCEPT !.pc = me.after, !.copy = NoCycles]
    <2>1. Goes(t, r) /\ UNCHANGED <<account, orders>>
      BY <1>8 DEF Replace
    <2>2. DOMAIN r = Fields /\ r.began = me.began /\ r.pc = me.after /\ r.after = me.after
      BY <1>0 DEF Fields
    <2>3. (UnderWay(r) => UnderWay(me)) /\ r.pc # "admit"
      BY <1>0, <1>8, <2>2 DEF Replace, UnderWay, Sound
    <2> HIDE DEF r
    <2> QED
      BY <2>1, <2>2, <2>3, MovesKeeps
  <1>9. CASE SaveFails(t)
    BY <1>0, <1>9, EndsKeeps DEF SaveFails
  <1>10. CASE Refused(t)
    BY <1>0, <1>10, EndsKeeps DEF Refused
  <1>11. CASE Duplicate(t)
    BY <1>0, <1>11, EndsKeeps DEF Duplicate
  <1>12. CASE Send(t)
    <2>1. orders' = orders \cup [cycle : {me.cycle}, account : me.began] /\ UNCHANGED account
      BY <1>12 DEF Send
    <2>2. \A a \in me.began : FitsTheLimits(a)
      BY <1>0, <1>12 DEF Send, UnderWay, Sound
    <2>3. \A o \in orders' : FitsTheLimits(o.account)
      BY <1>0, <2>1, <2>2
    <2>4. CASE Ends(t)
      BY <2>1, <2>3, <2>4, EndsKeeps
    <2>5. CASE Goes(t, [me EXCEPT !.pc = "block"])
      <3> DEFINE r == [me EXCEPT !.pc = "block"]
      <3>1. DOMAIN r = Fields /\ r.pc = "block" /\ r.after = me.after
        BY <1>0 DEF Fields
      <3>2. Sound(r) /\ Goes(t, r)
        BY <1>0, <2>5, <3>1 DEF UnderWay, Sound
      <3>3. DOMAIN account' = AccountFields
        BY <1>0, <2>1
      <3> HIDE DEF r
      <3> QED
        BY <2>3, <3>1, <3>2, <3>3, GoesKeeps
    <2> QED
      BY <1>12, <2>4, <2>5 DEF Send
  <1> QED
    BY <1>1, <1>3, <1>4, <1>5, <1>6, <1>7, <1>8, <1>9, <1>10, <1>11, <1>12 DEF AutomationStep

(* Every order fits the limits on the account its run read, for any limits,
   number of threads and cycles and any faults: see OrdersFitTheLimits.    *)
THEOREM OrdersWithinLimits == AutomationSpec => []OrdersFitTheLimits
  <1>1. AutomationInit => LimitsInv
    BY NoRunIsHarmless DEF AutomationInit, LimitsInv, AccountFields
  <1>2. LimitsInv /\ [AutomationNext]_automationVars => LimitsInv'
    <2> SUFFICES ASSUME LimitsInv, [AutomationNext]_automationVars PROVE LimitsInv'
      OBVIOUS
    <2>1. CASE \E t \in AutomationThreads : AutomationStep(t)
      BY <2>1, StepKeeps
    <2>2. CASE AccountMoves
      <3>1. UNCHANGED <<run, orders>>
        BY <2>2 DEF AccountMoves
      <3>2. DOMAIN account' = AccountFields
        BY <2>2 DEF AccountMoves, LimitsInv, AccountFields
      <3> QED
        BY <3>1, <3>2 DEF LimitsInv
    <2>3. CASE AutomationRestart
      <3>1. /\ run' = [t \in AutomationThreads |-> NoRun]
            /\ UNCHANGED <<orders, account>>
        BY <2>3 DEF AutomationRestart
      <3> QED
        BY <3>1, NoRunIsHarmless DEF LimitsInv
    <2>4. CASE UNCHANGED automationVars
      <3>1. UNCHANGED <<run, orders, account>>
        BY <2>4 DEF automationVars
      <3> QED
        BY <3>1 DEF LimitsInv
    <2> QED
      BY <2>1, <2>2, <2>3, <2>4 DEF AutomationNext
  <1>3. LimitsInv => OrdersFitTheLimits
    BY DEF LimitsInv, OrdersFitTheLimits
  <1> QED
    BY <1>1, <1>2, <1>3, PTL DEF AutomationSpec

-----------------------------------------------------------------------------
(* The file of the cycles, as long as no save overlapped with another.     *)

(* What a run that is where it is has entered for its cycle, in memory and
   in the file.                                                            *)
Progress(r, mem, disk) ==
    /\ r.pc = "admit" => mem = Unborn /\ disk = Unborn
    /\ r.pc \in {"load", "write", "replace"} =>
          \/ r.after = "dispatch" /\ disk = Unborn /\ mem = "ADMITTED"
          \/ r.after = "send" /\ disk = "ADMITTED" /\ mem = "DISPATCHED"
          \/ r.after = "idle" /\ disk \in {Unborn, "DISPATCHED"} /\ mem = "BLOCKED"
    /\ r.pc = "dispatch" => disk = "ADMITTED" /\ mem = "ADMITTED"
    /\ r.pc \in {"send", "block"} => disk = "DISPATCHED" /\ mem = "DISPATCHED"

Saving(r) == r.pc \in {"write", "replace"}

(* The copy on its way to the file is the file with the run's own cycle.   *)
Carries(r, file, mem) ==
    /\ Saving(r) => r.copy = [file.saved EXCEPT ![r.cycle] = mem]
    /\ r.pc = "replace" => file.temp = {r.copy}

RunShape(r) ==
    /\ DOMAIN r = Fields /\ DOMAIN r.copy = AutomationCycles
    /\ r.after \in {"dispatch", "send", "idle"}
    /\ r.pc # "idle" => r.cycle \in AutomationCycles

FileShape(file) ==
    /\ DOMAIN file = {"saved", "temp"} /\ DOMAIN file.saved = AutomationCycles
    /\ \A content \in file.temp : DOMAIN content = AutomationCycles

(* A cycle is one run's.                                                   *)
OwnCycles ==
    \A t, u \in AutomationThreads :
       t # u /\ run[t].cycle = run[u].cycle => run[t].cycle = NoCycle

(* Memory is at most one transition ahead of the file.                     *)
Ahead(mem, disk) ==
    \A c \in AutomationCycles : disk[c] = mem[c] \/ <<disk[c], mem[c]>> \in AllowedTransitions

OrdersAreSaved(sent, disk) ==
    \A o \in sent : o.cycle \in AutomationCycles /\ disk[o.cycle] \in {"DISPATCHED", "BLOCKED"}

OneSaves ==
    \A t, u \in AutomationThreads : t # u => ~(Saving(run[t]) /\ Saving(run[u]))

RunsProgress ==
    \A t \in AutomationThreads :
       run[t].cycle # NoCycle =>
          /\ Progress(run[t], cycles[run[t].cycle], cycleFile.saved[run[t].cycle])
          /\ Carries(run[t], cycleFile, cycles[run[t].cycle])

(* SentIsSaved and SavedNeverGoesBack look at the file alone; that a save
   writes nothing but the next state of its own cycle needs the memory, the
   copies on their way and what each run has entered so far.               *)
SavesShape ==
    /\ DOMAIN cycles = AutomationCycles /\ FileShape(cycleFile)
    /\ DOMAIN run = AutomationThreads
    /\ \A t \in AutomationThreads : RunShape(run[t])
    /\ OwnCycles

SavesInv ==
    /\ SavesShape
    /\ undisturbed => /\ OneSaves /\ RunsProgress
                      /\ Ahead(cycles, cycleFile.saved)
                      /\ OrdersAreSaved(orders, cycleFile.saved)

LEMMA NoRunIsShaped ==
    RunShape(NoRun) /\ NoRun.cycle = NoCycle /\ ~Saving(NoRun)
  BY DEF RunShape, NoRun, Fields, NoCycles, Saving

(* A step of one thread, which works on no cycle but its own.              *)
LEMMA RunStep ==
    ASSUME SavesInv, NEW t \in AutomationThreads, NEW r, Goes(t, r), RunShape(r),
           r.cycle \in {run[t].cycle, NoCycle} \cup Fresh,
           DOMAIN cycles' = AutomationCycles, FileShape(cycleFile'),
           undisturbed' => undisturbed,
           undisturbed' =>
              /\ \A c \in AutomationCycles \ {r.cycle} :
                    cycles'[c] = cycles[c] /\ cycleFile'.saved[c] = cycleFile.saved[c]
              /\ Saving(r) => \A u \in AutomationThreads \ {t} : ~Saving(run[u])
              /\ cycleFile' = cycleFile \/ Saving(run[t])
              /\ r.cycle # NoCycle => /\ Progress(r, cycles'[r.cycle], cycleFile'.saved[r.cycle])
                                      /\ Carries(r, cycleFile', cycles'[r.cycle])
              /\ Ahead(cycles', cycleFile'.saved)
              /\ OrdersAreSaved(orders', cycleFile'.saved)
    PROVE  SavesInv'
  <1>1. run'[t] = r /\ DOMAIN run' = AutomationThreads
        /\ \A u \in AutomationThreads \ {t} : run'[u] = run[u]
    BY DEF Goes, SavesInv, SavesShape
  <1>2. \A u \in AutomationThreads \ {t} : run[u].cycle = r.cycle => r.cycle = NoCycle
    BY DEF SavesInv, SavesShape, OwnCycles, Fresh
  <1>3. \A u \in AutomationThreads : RunShape(run'[u])
    BY <1>1 DEF SavesInv, SavesShape
  <1>4. OwnCycles'
    BY <1>1, <1>2 DEF SavesInv, SavesShape, OwnCycles
  <1>5. SavesShape'
    BY <1>1, <1>3, <1>4 DEF SavesShape, RunShape, FileShape
  <1>6. ASSUME undisturbed' PROVE OneSaves'
    BY <1>1, <1>6 DEF SavesInv, OneSaves, Saving
  <1>7. ASSUME undisturbed', NEW u \in AutomationThreads, run'[u].cycle # NoCycle
        PROVE  /\ Progress(run'[u], cycles'[run'[u].cycle], cycleFile'.saved[run'[u].cycle])
               /\ Carries(run'[u], cycleFile', cycles'[run'[u].cycle])
    <2>1. CASE u = t
      BY <1>1, <1>7, <2>1
    <2>2. CASE u # t
      <3>1. run'[u] = run[u] /\ run[u].cycle # r.cycle
        BY <1>1, <1>2, <1>7, <2>2
      <3>2. /\ Progress(run[u], cycles[run[u].cycle], cycleFile.saved[run[u].cycle])
            /\ Carries(run[u], cycleFile, cycles[run[u].cycle])
        BY <1>7, <3>1 DEF SavesInv, RunsProgress
      <3>3. CASE run[u].cycle \in AutomationCycles
        <4>1. /\ cycles'[run[u].cycle] = cycles[run[u].cycle]
              /\ cycleFile'.saved[run[u].cycle] = cycleFile.saved[run[u].cycle]
          BY <1>7, <3>1, <3>3
        <4>2. CASE cycleFile' = cycleFile
          BY <3>1, <3>2, <4>1, <4>2
        <4>3. CASE ~Saving(run[u])
          BY <3>1, <3>2, <4>1, <4>3 DEF Carries, Saving
        <4> QED
          BY <1>7, <2>2, <4>2, <4>3 DEF SavesInv, OneSaves
      <3>4. CASE run[u].cycle \notin AutomationCycles
        <4>1. run[u].pc = "idle"
          BY <3>1, <1>7, <3>4 DEF SavesInv, SavesShape, RunShape
        <4> QED
          BY <3>1, <4>1 DEF Progress, Carries, Saving
      <3> QED
        BY <3>3, <3>4
    <2> QED
      BY <2>1, <2>2
  <1>8. ASSUME undisturbed' PROVE RunsProgress'
    BY <1>7, <1>8 DEF RunsProgress, Progress, Carries, Saving
  <1>9. ASSUME undisturbed'
        PROVE  Ahead(cycles, cycleFile.saved)' /\ OrdersAreSaved(orders, cycleFile.saved)'
    BY <1>9 DEF Ahead, OrdersAreSaved
  <1> QED
    BY <1>5, <1>6, <1>8, <1>9 DEF SavesInv

(* What the invariant says of one run.                                     *)
LEMMA RunIs ==
    ASSUME SavesInv, NEW t \in AutomationThreads
    PROVE  /\ RunShape(run[t]) /\ DOMAIN run = AutomationThreads
           /\ DOMAIN cycles = AutomationCycles /\ FileShape(cycleFile)
           /\ undisturbed /\ run[t].cycle # NoCycle =>
                 /\ Progress(run[t], cycles[run[t].cycle], cycleFile.saved[run[t].cycle])
                 /\ Carries(run[t], cycleFile, cycles[run[t].cycle])
           /\ undisturbed => /\ Ahead(cycles, cycleFile.saved)
                             /\ OrdersAreSaved(orders, cycleFile.saved)
  BY DEF SavesInv, SavesShape, RunsProgress

(* A thread that goes on without touching memory or file.                  *)
LEMMA CalmStep ==
    ASSUME SavesInv, NEW t \in AutomationThreads, NEW r, Goes(t, r), RunShape(r),
           r.cycle \in {run[t].cycle, NoCycle} \cup Fresh,
           UNCHANGED <<cycles, cycleFile, undisturbed>>, ~Saving(r),
           undisturbed /\ r.cycle # NoCycle =>
              Progress(r, cycles[r.cycle], cycleFile.saved[r.cycle]),
           undisturbed => OrdersAreSaved(orders', cycleFile.saved)
    PROVE  SavesInv'
  <1>1. Carries(r, cycleFile', cycles'[r.cycle])
    BY DEF Carries, Saving
  <1> QED
    BY <1>1, RunStep, RunIs

LEMMA EndsIsCalm ==
    ASSUME SavesInv, NEW t \in AutomationThreads, Ends(t),
           UNCHANGED <<cycles, cycleFile, undisturbed>>,
           undisturbed => OrdersAreSaved(orders', cycleFile.saved)
    PROVE  SavesInv'
  BY CalmStep, NoRunIsShaped DEF Ends

(* A state of the cycle is entered in memory.                              *)
LEMMA EntersIsAhead ==
    ASSUME SavesInv, NEW t \in AutomationThreads, NEW state, NEW after, Enters(t, state, after),
           run[t].pc \in {"admit", "dispatch", "block"},
           <<run[t].pc, state, after>> \in
              {<<"admit", "ADMITTED", "dispatch">>, <<"admit", "BLOCKED", "idle">>,
               <<"dispatch", "DISPATCHED", "send">>, <<"block", "BLOCKED", "idle">>},
           UNCHANGED <<cycleFile, undisturbed, orders>>
    PROVE  SavesInv'
  <1> DEFINE c == run[t].cycle
             kept == IF after = "idle" THEN {} ELSE run[t].seen
             still == IF after = "idle" THEN {} ELSE run[t].began
             r == [run[t] EXCEPT !.pc = "load", !.after = after, !.seen = kept, !.began = still]
  <1>1. Goes(t, r) /\ cycles' = [cycles EXCEPT ![c] = state]
        /\ <<cycles[c], state>> \in AllowedTransitions
    BY DEF Enters
  <1> HIDE DEF kept
  <1>2. RunShape(r) /\ r.pc = "load" /\ r.after = after /\ r.cycle = c
        /\ c \in AutomationCycles /\ c # NoCycle
    BY RunIs, NoCycleAssumption DEF RunShape, Fields
  <1>3. PICK s : s = r
    OBVIOUS
  <1>4. PICK me : me = c
    OBVIOUS
  <1> HIDE DEF r, c
  <1>5. /\ cycles'[me] = state /\ DOMAIN cycles' = AutomationCycles
        /\ \A d \in AutomationCycles \ {me} : cycles'[d] = cycles[d]
    BY <1>1, <1>2, <1>4, RunIs
  <1>6. ASSUME undisturbed
        PROVE  /\ Progress(s, cycles'[me], cycleFile.saved[me])
               /\ Ahead(cycles', cycleFile.saved)
    <2>1. Progress(run[t], cycles[me], cycleFile.saved[me]) /\ Ahead(cycles, cycleFile.saved)
      BY <1>2, <1>4, <1>6, RunIs DEF c
    <2>2. Progress(s, state, cycleFile.saved[me])
      BY <1>2, <1>3, <2>1 DEF Progress, Unborn
    <2>3. cycleFile.saved[me] = cycles[me]
      BY <2>1 DEF Progress
    <2> QED
      BY <1>1, <1>4, <1>5, <2>1, <2>2, <2>3 DEF Ahead
  <1>7. Carries(s, cycleFile', cycles'[me]) /\ ~Saving(s)
    BY <1>2, <1>3 DEF Carries, Saving
  <1>8. s.cycle = me /\ me = run[t].cycle /\ Goes(t, s) /\ RunShape(s)
    BY <1>1, <1>2, <1>3, <1>4 DEF c
  <1> QED
    BY <1>5, <1>6, <1>7, <1>8, RunStep, RunIs

(* The copy is made of the file as it is, if the step does not disturb.    *)
LEMMA LoadKeepsSaves ==
    ASSUME SavesInv, NEW t \in AutomationThreads, Load(t)
    PROVE  SavesInv'
  <1>1. PICK found \in {cycleFile.saved, NoCycles} :
           /\ Goes(t, [run[t] EXCEPT !.pc = "write",
                          !.copy = [found EXCEPT ![run[t].cycle] = cycles[run[t].cycle]]])
           /\ undisturbed' => /\ undisturbed /\ found = cycleFile.saved
                              /\ \A u \in AutomationThreads : ~Saving(run[u])
    BY DEF Load, Saving
  <1>2. run[t].pc = "load" /\ UNCHANGED <<cycles, cycleFile, orders>>
    BY DEF Load
  <1> DEFINE copied == [found EXCEPT ![run[t].cycle] = cycles[run[t].cycle]]
             r == [run[t] EXCEPT !.pc = "write", !.copy = copied]
  <1>3. DOMAIN copied = AutomationCycles
    BY RunIs DEF FileShape, NoCycles
  <1>4. PICK c : c = copied
    OBVIOUS
  <1>5. Goes(t, r)
    BY <1>1
  <1> HIDE DEF copied
  <1>6. RunShape(r) /\ r.pc = "write" /\ r.copy = copied /\ r.cycle = run[t].cycle
        /\ r.after = run[t].after
    BY <1>2, <1>3, RunIs DEF RunShape, Fields
  <1>7. PICK s : s = r
    OBVIOUS
  <1> HIDE DEF r
  <1>8. ASSUME undisturbed', s.cycle # NoCycle
        PROVE  /\ Progress(s, cycles[s.cycle], cycleFile.saved[s.cycle])
               /\ Carries(s, cycleFile, cycles[s.cycle])
    <2>1. Progress(run[t], cycles[s.cycle], cycleFile.saved[s.cycle])
      BY <1>1, <1>6, <1>7, <1>8, RunIs
    <2>2. Progress(s, cycles[s.cycle], cycleFile.saved[s.cycle])
      BY <1>2, <1>6, <1>7, <2>1 DEF Progress
    <2>3. Carries(s, cycleFile, cycles[s.cycle])
      BY <1>1, <1>6, <1>7, <1>8 DEF Carries, copied
    <2> QED
      BY <2>2, <2>3
  <1>9. Goes(t, s) /\ RunShape(s) /\ s.cycle = run[t].cycle
    BY <1>5, <1>6, <1>7
  <1> QED
    BY <1>1, <1>2, <1>8, <1>9, RunStep, RunIs

LEMMA WriteKeepsSaves ==
    ASSUME SavesInv, NEW t \in AutomationThreads, Write(t)
    PROVE  SavesInv'
  <1>1. /\ run[t].pc = "write" /\ UNCHANGED <<cycles, orders, undisturbed>>
        /\ cycleFile' = [cycleFile EXCEPT !.temp = {run[t].copy}]
    BY DEF Write, Written
  <1>2. /\ cycleFile'.saved = cycleFile.saved /\ cycleFile'.temp = {run[t].copy}
        /\ FileShape(cycleFile')
    BY <1>1, RunIs DEF FileShape, RunShape
  <1>3. PICK s : s = [run[t] EXCEPT !.pc = "replace"] /\ Goes(t, s)
    BY DEF Write
  <1>4. RunShape(s) /\ s.pc = "replace" /\ s.copy = run[t].copy /\ s.cycle = run[t].cycle
        /\ s.after = run[t].after
    BY <1>1, <1>3, RunIs DEF RunShape, Fields
  <1>5. ASSUME undisturbed, s.cycle # NoCycle
        PROVE  /\ Progress(s, cycles[s.cycle], cycleFile'.saved[s.cycle])
               /\ Carries(s, cycleFile', cycles[s.cycle])
    <2>1. /\ Progress(run[t], cycles[s.cycle], cycleFile.saved[s.cycle])
          /\ Carries(run[t], cycleFile, cycles[s.cycle])
      BY <1>4, <1>5, RunIs
    <2> QED
      BY <1>1, <1>2, <1>4, <2>1 DEF Progress, Carries, Saving
  <1>6. Saving(run[t]) /\ (undisturbed => \A u \in AutomationThreads \ {t} : ~Saving(run[u]))
    BY <1>1 DEF SavesInv, OneSaves, Saving
  <1> QED
    BY <1>1, <1>2, <1>3, <1>4, <1>5, <1>6, RunStep, RunIs

(* The file becomes what it was, with the state that was entered.          *)
LEMMA ReplaceIs ==
    ASSUME SavesInv, NEW t \in AutomationThreads, Replace(t)
    PROVE  /\ FileShape(cycleFile')
           /\ undisturbed =>
                 /\ run[t].cycle \in AutomationCycles /\ run[t].cycle # NoCycle
                 /\ cycleFile'.saved = [cycleFile.saved EXCEPT ![run[t].cycle] = cycles[run[t].cycle]]
  <1>1. /\ run[t].pc = "replace" /\ cycleFile.temp # {}
        /\ cycleFile' = [saved |-> CHOOSE content \in cycleFile.temp : TRUE, temp |-> {}]
    BY DEF Replace, CanReplace, Replaced
  <1>2. PICK content : content = CHOOSE found \in cycleFile.temp : TRUE
    OBVIOUS
  <1>3. content \in cycleFile.temp
    BY <1>1, <1>2
  <1>4. cycleFile'.saved = content /\ cycleFile'.temp = {} /\ DOMAIN cycleFile' = {"saved", "temp"}
    BY <1>1, <1>2
  <1>5. FileShape(cycleFile')
    BY <1>3, <1>4, RunIs DEF FileShape
  <1>6. ASSUME undisturbed
        PROVE  /\ run[t].cycle \in AutomationCycles /\ run[t].cycle # NoCycle
               /\ content = [cycleFile.saved EXCEPT ![run[t].cycle] = cycles[run[t].cycle]]
    <2>1. run[t].cycle \in AutomationCycles /\ run[t].cycle # NoCycle
      BY <1>1, RunIs, NoCycleAssumption DEF RunShape
    <2>2. Carries(run[t], cycleFile, cycles[run[t].cycle])
      BY <1>6, <2>1, RunIs
    <2> QED
      BY <1>1, <1>3, <2>1, <2>2 DEF Carries, Saving
  <1> QED
    BY <1>4, <1>5, <1>6

LEMMA ReplaceKeepsSaves ==
    ASSUME SavesInv, NEW t \in AutomationThreads, Replace(t)
    PROVE  SavesInv'
  <1>1. run[t].pc = "replace" /\ UNCHANGED <<cycles, orders, undisturbed>>
    BY DEF Replace
  <1>2. PICK s : s = [run[t] EXCEPT !.pc = run[t].after, !.copy = NoCycles] /\ Goes(t, s)
    BY DEF Replace
  <1>3. DOMAIN s = Fields /\ s.pc = run[t].after /\ s.copy = NoCycles /\ s.cycle = run[t].cycle
        /\ run[t].cycle \in AutomationCycles
        /\ s.after = run[t].after /\ s.after \in {"dispatch", "send", "idle"}
    BY <1>1, <1>2, RunIs DEF RunShape, Fields
  <1>4. RunShape(s)
    BY <1>3 DEF RunShape, NoCycles
  <1>5. PICK c : c = run[t].cycle
    OBVIOUS
  <1>6. ASSUME undisturbed
        PROVE  /\ \A d \in AutomationCycles \ {c} : cycleFile'.saved[d] = cycleFile.saved[d]
               /\ cycleFile'.saved[c] = cycles[c]
               /\ \/ s.pc = "dispatch" /\ cycleFile.saved[c] = Unborn /\ cycles[c] = "ADMITTED"
                  \/ s.pc = "send" /\ cycleFile.saved[c] = "ADMITTED" /\ cycles[c] = "DISPATCHED"
                  \/ /\ s.pc = "idle" /\ cycleFile.saved[c] \in {Unborn, "DISPATCHED"}
                     /\ cycles[c] = "BLOCKED"
    <2>1. c # NoCycle /\ cycleFile'.saved = [cycleFile.saved EXCEPT ![c] = cycles[c]]
      BY <1>5, <1>6, ReplaceIs
    <2>2. Progress(run[t], cycles[c], cycleFile.saved[c])
      BY <1>5, <1>6, <2>1, RunIs
    <2>3. DOMAIN cycleFile.saved = AutomationCycles
      BY RunIs DEF FileShape
    <2> QED
      BY <1>1, <1>3, <1>5, <2>1, <2>2, <2>3 DEF Progress
  <1>7. ASSUME undisturbed
        PROVE  /\ Progress(s, cycles[c], cycleFile'.saved[c])
               /\ Carries(s, cycleFile', cycles[c]) /\ ~Saving(s)
               /\ Ahead(cycles, cycleFile'.saved)
               /\ OrdersAreSaved(orders, cycleFile'.saved)
    <2>1. Progress(s, cycles[c], cycleFile'.saved[c])
      BY <1>6, <1>7 DEF Progress
    <2>2. Carries(s, cycleFile', cycles[c]) /\ ~Saving(s)
      BY <1>6, <1>7 DEF Carries, Saving
    <2>3. Ahead(cycles, cycleFile.saved) /\ OrdersAreSaved(orders, cycleFile.saved)
      BY <1>7, RunIs
    <2>4. Ahead(cycles, cycleFile'.saved)
      BY <1>6, <1>7, <2>3 DEF Ahead
    <2>5. OrdersAreSaved(orders, cycleFile'.saved)
      BY <1>6, <1>7, <2>3 DEF OrdersAreSaved, Unborn
    <2> QED
      BY <2>1, <2>2, <2>4, <2>5
  <1>8. FileShape(cycleFile') /\ Saving(run[t])
    BY <1>1, ReplaceIs DEF Saving
  <1> QED
    BY <1>1, <1>2, <1>3, <1>4, <1>5, <1>6, <1>7, <1>8, RunStep, RunIs

LEMMA SendKeepsSaves ==
    ASSUME SavesInv, NEW t \in AutomationThreads, Send(t)
    PROVE  SavesInv'
  <1>1. run[t].pc = "send" /\ UNCHANGED <<cycles, cycleFile, undisturbed>>
    BY DEF Send
  <1>2. orders' = orders \cup [cycle : {run[t].cycle}, account : run[t].began]
    BY DEF Send
  <1>3. run[t].cycle \in AutomationCycles /\ run[t].cycle # NoCycle
    BY <1>1, RunIs, NoCycleAssumption DEF RunShape
  <1>4. ASSUME undisturbed
        PROVE  /\ OrdersAreSaved(orders', cycleFile.saved)
               /\ cycleFile.saved[run[t].cycle] = "DISPATCHED" /\ cycles[run[t].cycle] = "DISPATCHED"
    <2>1. cycleFile.saved[run[t].cycle] = "DISPATCHED" /\ cycles[run[t].cycle] = "DISPATCHED"
      BY <1>1, <1>3, <1>4, RunIs DEF Progress
    <2>2. OrdersAreSaved(orders, cycleFile.saved)
      BY <1>4, RunIs
    <2> QED
      BY <1>2, <1>3, <2>1, <2>2 DEF OrdersAreSaved
  <1>5. CASE Ends(t)
    BY <1>1, <1>4, <1>5, EndsIsCalm
  <1>6. CASE Goes(t, [run[t] EXCEPT !.pc = "block"])
    <2>1. PICK r : r = [run[t] EXCEPT !.pc = "block"] /\ Goes(t, r)
      BY <1>6
    <2>2. RunShape(r) /\ r.pc = "block" /\ r.cycle = run[t].cycle /\ ~Saving(r)
      BY <1>3, <2>1, RunIs DEF RunShape, Fields, Saving
    <2>3. undisturbed => Progress(r, cycles[r.cycle], cycleFile.saved[r.cycle])
      BY <1>4, <2>2 DEF Progress
    <2> QED
      BY <1>1, <1>4, <2>1, <2>2, <2>3, CalmStep
  <1> QED
    BY <1>5, <1>6 DEF Send

(* A run that begins is given a cycle neither memory nor file has.         *)
LEMMA EvaluateKeepsSaves ==
    ASSUME SavesInv, NEW t \in AutomationThreads, Evaluate(t)
    PROVE  SavesInv'
  <1>1. UNCHANGED <<cycles, cycleFile, undisturbed, orders>>
    BY DEF Evaluate
  <1>2. undisturbed => OrdersAreSaved(orders', cycleFile.saved)
    BY <1>1, RunIs
  <1>3. PICK s \in Observations(account), c \in Fresh :
           Goes(t, [NoRun EXCEPT !.pc = "admit", !.cycle = c, !.seen = {s}, !.began = {account}])
    BY DEF Evaluate
  <1>4. PICK r : /\ r = [NoRun EXCEPT !.pc = "admit", !.cycle = c, !.seen = {s},
                                     !.began = {account}]
                 /\ Goes(t, r)
    BY <1>3
  <1>5. RunShape(r) /\ r.cycle = c /\ r.pc = "admit" /\ ~Saving(r) /\ cycles[c] = Unborn
    BY <1>4 DEF RunShape, NoRun, NoCycles, Fields, Saving, Fresh
  <1>6. ASSUME undisturbed PROVE cycleFile.saved[c] = Unborn
    <2>1. Ahead(cycles, cycleFile.saved)
      BY <1>6, RunIs
    <2> QED
      BY <1>5, <2>1 DEF Ahead, Fresh, AllowedTransitions, Unborn
  <1>7. undisturbed => Progress(r, cycles[r.cycle], cycleFile.saved[r.cycle])
    BY <1>5, <1>6 DEF Progress
  <1> QED
    BY <1>1, <1>2, <1>4, <1>5, <1>7, CalmStep

LEMMA StepKeepsSaves ==
    ASSUME SavesInv, NEW t \in AutomationThreads, AutomationStep(t)
    PROVE  SavesInv'
  <1>1. CASE Admit(t)
    <2>1. run[t].pc = "admit" /\ UNCHANGED <<cycleFile, undisturbed, orders>>
      BY <1>1 DEF Admit
    <2>2. Enters(t, "ADMITTED", "dispatch") \/ Enters(t, "BLOCKED", "idle")
      BY <1>1 DEF Admit
    <2> QED
      BY <2>1, <2>2, EntersIsAhead
  <1>2. CASE MarkDispatched(t)
    BY <1>2, EntersIsAhead DEF MarkDispatched
  <1>3. CASE Block(t)
    BY <1>3, EntersIsAhead DEF Block
  <1>4. CASE SaveFails(t) \/ Refused(t) \/ Duplicate(t)
    <2>1. Ends(t) /\ UNCHANGED <<cycles, cycleFile, undisturbed, orders>>
      BY <1>4 DEF SaveFails, Refused, Duplicate
    <2> QED
      BY <2>1, EndsIsCalm, RunIs
  <1> QED
    BY <1>1, <1>2, <1>3, <1>4, EvaluateKeepsSaves, LoadKeepsSaves, WriteKeepsSaves,
       ReplaceKeepsSaves, SendKeepsSaves DEF AutomationStep

(* A new process has the memory the file has, and no run.                  *)
LEMMA RestartKeepsSaves == SavesInv /\ AutomationRestart => SavesInv'
  <1> SUFFICES ASSUME SavesInv, AutomationRestart PROVE SavesInv'
    OBVIOUS
  <1>1. /\ cycles' = cycleFile.saved /\ run' = [t \in AutomationThreads |-> NoRun]
        /\ UNCHANGED <<cycleFile, orders, undisturbed>>
    BY DEF AutomationRestart
  <1>2. \A t \in AutomationThreads : run'[t] = NoRun
    BY <1>1
  <1>3. SavesShape'
    BY <1>1, <1>2, NoRunIsShaped DEF SavesInv, SavesShape, FileShape, RunShape, OwnCycles
  <1>4. OneSaves' /\ RunsProgress'
    BY <1>2, NoRunIsShaped DEF OneSaves, RunsProgress, Saving
  <1>5. ASSUME undisturbed'
        PROVE  Ahead(cycles, cycleFile.saved)' /\ OrdersAreSaved(orders, cycleFile.saved)'
    BY <1>1, <1>5 DEF SavesInv, Ahead, OrdersAreSaved
  <1> QED
    BY <1>3, <1>4, <1>5 DEF SavesInv

LEMMA SavesInvariance == AutomationSpec => []SavesInv
  <1>1. AutomationInit => SavesInv
    <2> SUFFICES ASSUME AutomationInit PROVE SavesInv
      OBVIOUS
    <2>1. \A t \in AutomationThreads : run[t] = NoRun
      BY DEF AutomationInit
    <2>2. SavesShape
      BY <2>1, NoRunIsShaped
      DEF AutomationInit, SavesShape, FileShape, NewFile, NoCycles, OwnCycles
    <2>3. OneSaves /\ RunsProgress
      BY <2>1, NoRunIsShaped DEF OneSaves, RunsProgress
    <2>4. Ahead(cycles, cycleFile.saved) /\ OrdersAreSaved(orders, cycleFile.saved)
      BY DEF AutomationInit, Ahead, OrdersAreSaved, NewFile
    <2> QED
      BY <2>2, <2>3, <2>4 DEF SavesInv
  <1>2. SavesInv /\ [AutomationNext]_automationVars => SavesInv'
    <2> SUFFICES ASSUME SavesInv, [AutomationNext]_automationVars PROVE SavesInv'
      OBVIOUS
    <2>1. CASE UNCHANGED <<cycles, cycleFile, run, orders, undisturbed>>
      BY <2>1 DEF SavesInv, SavesShape, RunShape, FileShape, OwnCycles, OneSaves, RunsProgress,
                  Ahead, OrdersAreSaved, Progress, Carries, Saving
    <2> QED
      BY <2>1, StepKeepsSaves, RestartKeepsSaves DEF AutomationNext, AccountMoves, automationVars
  <1> QED
    BY <1>1, <1>2, PTL DEF AutomationSpec

(* No order has gone out whose cycle the file does not have, whatever fails
   and however often the process starts again: see SentIsSaved.            *)
THEOREM SentOrdersAreSaved == AutomationSpec => []SentIsSaved
  <1>1. SavesInv => SentIsSaved
    BY DEF SavesInv, OrdersAreSaved, SentIsSaved
  <1> QED
    BY <1>1, SavesInvariance, PTL

(* The file moves along the transitions of P46 and loses no cycle: see
   SavedNeverGoesBack.                                                     *)
THEOREM SavesGoForward == AutomationSpec => SavedNeverGoesBack
  <1> DEFINE Forward == undisturbed' => \A c \in AutomationCycles :
                \/ cycleFile'.saved[c] = cycleFile.saved[c]
                \/ <<cycleFile.saved[c], cycleFile'.saved[c]>> \in AllowedTransitions
  <1>1. SavesInv /\ [AutomationNext]_automationVars => [Forward]_automationVars
    <2> SUFFICES ASSUME SavesInv, AutomationNext PROVE Forward
      BY DEF automationVars
    <2>1. CASE cycleFile'.saved = cycleFile.saved
      BY <2>1
    <2>2. ASSUME NEW t \in AutomationThreads, Replace(t) PROVE Forward
      <3>1. UNCHANGED <<undisturbed, cycles>>
        BY <2>2 DEF Replace
      <3>2. ASSUME undisturbed
            PROVE  /\ Ahead(cycles, cycleFile.saved) /\ DOMAIN cycleFile.saved = AutomationCycles
                   /\ cycleFile'.saved = [cycleFile.saved EXCEPT ![run[t].cycle] = cycles[run[t].cycle]]
        BY <2>2, <3>2, RunIs, ReplaceIs DEF FileShape
      <3> QED
        BY <3>1, <3>2 DEF Ahead
    <2>3. ASSUME NEW t \in AutomationThreads, Write(t) PROVE cycleFile'.saved = cycleFile.saved
      BY <2>3, RunIs DEF Write, Written, FileShape
    <2>4. CASE UNCHANGED cycleFile
      BY <2>1, <2>4
    <2> QED
      BY <2>1, <2>2, <2>3, <2>4
      DEF AutomationNext, AutomationStep, AccountMoves, AutomationRestart, Evaluate,
          Admit, MarkDispatched, Block, Load, SaveFails, Refused, Duplicate, Send
  <1> QED
    BY <1>1, SavesInvariance, PTL DEF AutomationSpec, SavedNeverGoesBack

=============================================================================
