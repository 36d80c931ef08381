--------------------------- MODULE MCDemoExecution ---------------------------
(* Instances of the DEMO order path for TLC. *)
EXTENDS DemoExecutionProperties, TLC

Symmetric == Permutations(Threads) \cup Permutations(Requests)
               \cup Permutations(Cycles) \cup Permutations(Tickets)
=============================================================================
