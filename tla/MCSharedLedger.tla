--------------------------- MODULE MCSharedLedger ---------------------------
(* Instances of the two shared stores for TLC.  They have files of their own, *)
(* so that a behaviour exercises one of them.                                 *)
EXTENDS SharedLedger, SharedLifecycle, TLC

CONSTANTS
  Sharing,       \* threads of the program, which share one instance
  SharingKinds,  \* what they call
  OtherKinds     \* what threads with another instance call

VARIABLE store   \* the store whose calls are made

StoresInit == store \in {"ledger", "lifecycle"} /\ Init /\ LifecycleInit

StoresNext ==
  \/ store = "ledger" /\ Next /\ UNCHANGED <<store, lifecycleVars>>
  \/ store = "lifecycle" /\ LifecycleNext /\ UNCHANGED <<store, vars>>

StoresSpec == StoresInit /\ [][StoresNext]_<<store, vars, lifecycleVars>>

\* The program's instance, and the one a test opens on the same file.
Home == CHOOSE i \in Instances : TRUE
Away == CHOOSE i \in Instances : i # Home

HomeOrAway == [t \in Threads |-> IF t \in Sharing THEN Home ELSE Away]
KindsByPlace == [t \in Threads |-> IF t \in Sharing THEN SharingKinds ELSE OtherKinds]

Symmetric == Permutations(Sharing) \cup Permutations(Requests)
=============================================================================
