-------------------------------- MODULE Alerts --------------------------------
(***************************************************************************)
(* Operational alerts: OperationalAlertMonitor turns what the monitors say *)
(* into a report (P33), AlertDeduplicator hands the alerts of the report   *)
(* one by one to a sink that may raise (P34), and leaves out those of the  *)
(* report before (P35).                                                    *)
(***************************************************************************)
EXTENDS Integers, Sequences

CONSTANTS MarketHealths,     \* the members of MarketDataHealth that may be reported
          MaxSinkFaults      \* bound: how often the sink raises

ASSUME AlertsAssumption ==
    /\ MarketHealths \subseteq {"HEALTHY", "STALE", "GAP", "INVALID", "UNKNOWN"}
    /\ MaxSinkFaults \in Nat

VARIABLES
    alerts,       \* the alerts of the report that is or was dispatched
    left,         \* those the dispatch has still to go through
    lastKeys,     \* AlertDeduplicator._last_keys
    dispatching,  \* "done" and "raised" tell how the last dispatch ended
    notified,     \* how often each alert reached the sink since a whole report was without it
    sinkFaults

alertVars == <<alerts, left, lastKeys, dispatching, notified, sinkFaults>>

-----------------------------------------------------------------------------

(* An alert is its key: the source and what its message says. The code and
   the severity follow from these.                                         *)
Alarm(due, source, says) ==
    IF due THEN <<[source |-> source, says |-> says]>> ELSE <<>>

(* OperationalAlertMonitor.assess over RuntimeHealthMonitor, the market
   report and UnifiedSafetyGate, which has a reason for every health that is
   not HEALTHY; UNKNOWN market data raise no alert of their own.            *)
Assessed(runtime, market, killed) ==
    LET reasons == ({runtime, market} \ {"HEALTHY"}) \cup (IF killed THEN {"KILLED"} ELSE {}) IN
    Alarm(runtime # "HEALTHY", "runtime", {runtime})
        \o Alarm(market \in {"INVALID", "STALE", "GAP"}, "market_data", {market})
        \o Alarm(reasons # {}, "safety_gate", reasons)

Keys(assessed) == {assessed[i] : i \in DOMAIN assessed}

RuntimeHealths == {"HEALTHY", "ATTENTION", "BLOCKED"}

AlertReports == {Assessed(r, m, k) : r \in RuntimeHealths, m \in MarketHealths, k \in BOOLEAN}

Alert == UNION {Keys(assessed) : assessed \in AlertReports}

AlertsInit ==
    /\ alerts = <<>> /\ left = <<>>
    /\ lastKeys = {}
    /\ dispatching = "done"
    /\ notified = [a \in Alert |-> 0]
    /\ sinkFaults = 0

-----------------------------------------------------------------------------

BeginDispatch ==
    /\ dispatching # "dispatching"
    /\ alerts' \in AlertReports
    /\ left' = alerts'
    /\ dispatching' = "dispatching"
    /\ UNCHANGED <<lastKeys, notified, sinkFaults>>

Pending == dispatching = "dispatching" /\ left # <<>>

Suppress ==
    /\ Pending /\ Head(left) \in lastKeys
    /\ left' = Tail(left)
    /\ UNCHANGED <<alerts, lastKeys, dispatching, notified, sinkFaults>>

Deliver ==
    /\ Pending /\ Head(left) \notin lastKeys
    /\ notified' = [notified EXCEPT ![Head(left)] = @ + 1]
    /\ left' = Tail(left)
    /\ UNCHANGED <<alerts, lastKeys, dispatching, sinkFaults>>

(* Mutant: the keys are taken over however the dispatch ends.              *)
SinkRaisesAfterwards ==
    /\ Pending /\ Head(left) \notin lastKeys
    /\ sinkFaults < MaxSinkFaults /\ sinkFaults' = sinkFaults + 1
    /\ \E reached \in {0, 1} : notified' = [notified EXCEPT ![Head(left)] = @ + reached]
    /\ lastKeys' = Keys(alerts)
    /\ left' = <<>> /\ dispatching' = "raised"
    /\ UNCHANGED alerts

(* The sink raises, whether or not the message reached somebody, and so does
   dispatch: the alerts after it are not handed over and the keys stay as
   they were.                                                              *)
SinkRaises ==
    /\ Pending /\ Head(left) \notin lastKeys
    /\ sinkFaults < MaxSinkFaults /\ sinkFaults' = sinkFaults + 1
    /\ \E reached \in {0, 1} : notified' = [notified EXCEPT ![Head(left)] = @ + reached]
    /\ left' = <<>> /\ dispatching' = "raised"
    /\ UNCHANGED <<alerts, lastKeys>>

EndDispatch ==
    /\ dispatching = "dispatching" /\ left = <<>>
    /\ lastKeys' = Keys(alerts)
    /\ notified' = [a \in Alert |-> IF a \in Keys(alerts) THEN notified[a] ELSE 0]
    /\ dispatching' = "done"
    /\ UNCHANGED <<alerts, left, sinkFaults>>

AlertsNext == BeginDispatch \/ Suppress \/ Deliver \/ SinkRaises \/ EndDispatch

-----------------------------------------------------------------------------

(* When a report has been dispatched, each of its alerts has reached the sink
   since a whole report was last without it, and more than once only if the
   sink raised: neither a retry nor a report cut short hides a standing alert
   (p35_alert_deduplication.py:51).                                        *)
StandingAlertsAreTold ==
    dispatching = "done" => \A a \in Keys(alerts) : notified[a] \in 1..(1 + sinkFaults)
=============================================================================
