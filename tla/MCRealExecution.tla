--------------------------- MODULE MCRealExecution ---------------------------
(* Instances of the REAL order path for TLC. *)
EXTENDS RealExecution, TLC

Symmetric == Permutations(Threads) \cup Permutations(Requests)
               \cup Permutations(Confirmations) \cup Permutations(Tickets)
=============================================================================
