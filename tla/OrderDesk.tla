------------------------------ MODULE OrderDesk ------------------------------
(***************************************************************************)
(* What the execution stores promise about orders, without threads, files, *)
(* tickets or restarts: a request is opened before its order is sent, it   *)
(* is sent at most once and only while it is open, and the one verdict it  *)
(* gets is true of the order, then and for ever.                           *)
(***************************************************************************)
CONSTANT Requests

VARIABLES
  desk,    \* "none", "open", "executed" or "not executed"
  sent,    \* requests handed to the executor
  filled   \* requests whose order was filled

deskVars == <<desk, sent, filled>>

InStatus(s) == {r \in Requests : desk[r] = s}

DeskInit ==
  /\ desk = [r \in Requests |-> "none"]
  /\ sent = {}
  /\ filled = {}

\* Requests enter the desk, several at once when one write saves them all.  One
\* whose earlier writes were lost may enter settled: it was never sent.
Enter(entry) ==
  /\ desk' = [r \in Requests |-> IF r \in InStatus("none") THEN entry[r] ELSE desk[r]]
  /\ UNCHANGED <<sent, filled>>

Send(r) ==
  /\ r \in InStatus("open") \ sent
  /\ sent' = sent \cup {r}
  /\ filled' \in {filled, filled \cup {r}}
  /\ UNCHANGED desk

\* An order that was only placed is filled, while its request is still open.
Fill(r) ==
  /\ r \in (InStatus("open") \cap sent) \ filled
  /\ filled' = filled \cup {r}
  /\ UNCHANGED <<desk, sent>>

Settle(r) ==
  /\ r \in InStatus("open")
  /\ desk' = [desk EXCEPT ![r] = IF r \in filled THEN "executed" ELSE "not executed"]
  /\ UNCHANGED <<sent, filled>>

DeskNext ==
  \/ \E entry \in [InStatus("none") -> {"none", "open", "not executed"}] : Enter(entry)
  \/ \E r \in Requests : Send(r) \/ Fill(r) \/ Settle(r)

DeskSpec == DeskInit /\ [][DeskNext]_deskVars
=============================================================================
