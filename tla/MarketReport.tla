----------------------------- MODULE MarketReport -----------------------------
(***************************************************************************)
(* The one market report of the runtime (MarketDataRuntimeState), which    *)
(* every analysis and every trading cycle writes and the gateway reads,    *)
(* and the check of the same candles by the readiness of the automation.   *)
(* Time is counted in minutes. A timeframe is the length of its candles;   *)
(* Candle.timestamp is the time a candle opened, and the candle that is    *)
(* still forming is never fetched (icmarkets_mt5_market_data.py:125).      *)
(***************************************************************************)
EXTENDS Integers

CONSTANTS MarketThreads,  \* threads that serve analyses and cycles
          Symbols,
          Timeframes,     \* a subset of _TIMEFRAME_SECONDS, in minutes
          MaxAge,         \* max_age_seconds, in minutes
          MaxTime,        \* bound: minutes of a behaviour
          MaxLag          \* bound: candles a provider may be behind

(* Time is whole minutes, and no candle has length zero.                   *)
ASSUME MarketAssumption ==
    /\ Timeframes \subseteq Nat \ {0}
    /\ MaxAge \in Nat /\ MaxLag \in Nat /\ MaxTime \in Nat

VARIABLES
    now,
    report,        \* MarketDataRuntimeState.report: none, or one report
    reading        \* the analysis or cycle of each thread

marketVars == <<now, report, reading>>

-----------------------------------------------------------------------------

(* MarketDataIntegrity.assess, for candles whose interval is known         *)
Assess(candles, at) ==
    IF candles.flaw = "INVALID" \/ candles.last > at THEN "INVALID"
    ELSE IF at - candles.last > MaxAge THEN "STALE"
    ELSE IF candles.flaw = "GAP" THEN "GAP"
    ELSE "HEALTHY"

(* MarketDataRuntimeIntegrity.assess counts the age from the close of the
   last candle.                                                            *)
ReportHealth(r) == Assess(r.candles, r.at - r.timeframe)

(* _build_mt5_automation_readiness counts it from its opening.             *)
ReadinessHealth(r) == Assess(r.candles, r.at)

(* The last candle that has closed, or an older one a slow provider has.   *)
LastClosed(timeframe, lag) == (now \div timeframe - 1 - lag) * timeframe

Fetchable(timeframe) ==
    [last : {LastClosed(timeframe, lag) : lag \in 0..MaxLag}, flaw : {"NONE", "GAP", "INVALID"}]

NoCandles == [last |-> 0, flaw |-> "INVALID"]

NoReading == [pc |-> "idle", kind |-> "analysis", symbol |-> CHOOSE s \in Symbols : TRUE,
              timeframe |-> 1, at |-> 0, candles |-> NoCandles, passed |-> {}]

MarketInit ==
    /\ now = 0 /\ report = {}
    /\ reading = [t \in MarketThreads |-> NoReading]

Reads(t, r) == reading' = [reading EXCEPT ![t] = r]

Stops(t) == Reads(t, NoReading)

-----------------------------------------------------------------------------

(* analyze_mt5_market or TradingRuntime.run: the time is taken first.      *)
BeginReading(t) ==
    /\ reading[t].pc = "idle"
    /\ \E kind \in {"analysis", "cycle"}, s \in Symbols, f \in Timeframes :
          Reads(t, [NoReading EXCEPT !.pc = "fetch", !.kind = kind, !.symbol = s,
                                     !.timeframe = f, !.at = now])
    /\ UNCHANGED <<now, report>>

Fetch(t) ==
    /\ reading[t].pc = "fetch"
    /\ \E candles \in Fetchable(reading[t].timeframe) :
          Reads(t, [reading[t] EXCEPT !.pc = "report", !.candles = candles])
    /\ UNCHANGED <<now, report>>

(* Reading the account or the market fails: an analysis then clears the
   report, a cycle leaves it.                                              *)
FetchFails(t) ==
    /\ reading[t].pc = "fetch"
    /\ report' = IF reading[t].kind = "analysis" THEN {} ELSE report
    /\ Stops(t)
    /\ UNCHANGED now

(* MarketDataRuntimeState.update; an analysis of unsafe data then raises,
   and nothing reads what it would have returned.                          *)
UpdateReport(t) ==
    /\ reading[t].pc = "report"
    /\ report' = {[symbol |-> reading[t].symbol, health |-> ReportHealth(reading[t])]}
    /\ IF reading[t].kind = "analysis" THEN Stops(t)
       ELSE Reads(t, [reading[t] EXCEPT !.pc = "readiness"])
    /\ UNCHANGED now

(* Mutant: readiness trusts the report of the runtime.                     *)
JudgeReadinessByReport(t) ==
    /\ reading[t].pc = "readiness"
    /\ IF \E x \in report : x.health = "HEALTHY"
       THEN Reads(t, [reading[t] EXCEPT !.pc = "gate"])
       ELSE Stops(t)
    /\ UNCHANGED <<now, report>>

(* The decision and the other conditions of admission are free: the cycle
   may end here whatever its candles are.                                  *)
JudgeReadiness(t) ==
    /\ reading[t].pc = "readiness"
    /\ \/ ReadinessHealth(reading[t]) = "HEALTHY" /\ Reads(t, [reading[t] EXCEPT !.pc = "gate"])
       \/ Stops(t)
    /\ UNCHANGED <<now, report>>

(* Mutant: the gateway does not ask whose report it is.                    *)
PassReportOfAny(t) ==
    /\ reading[t].pc = "gate"
    /\ LET passed == {x \in report : x.health = "HEALTHY"} IN
       IF passed = {} THEN Stops(t)
       ELSE Reads(t, [reading[t] EXCEPT !.pc = "order", !.passed = passed])
    /\ UNCHANGED <<now, report>>

(* ExecutionGateway.execute: no report, one that is not HEALTHY, and one of
   another symbol block; its timeframe and its age are not asked.          *)
PassReport(t) ==
    /\ reading[t].pc = "gate"
    /\ LET passed == {x \in report : x.health = "HEALTHY" /\ x.symbol = reading[t].symbol} IN
       IF passed = {} THEN Stops(t)
       ELSE Reads(t, [reading[t] EXCEPT !.pc = "order", !.passed = passed])
    /\ UNCHANGED <<now, report>>

(* The order is sent (DemoExecution has the steps) and the cycle ends.     *)
OrderSent(t) ==
    /\ reading[t].pc = "order"
    /\ Stops(t)
    /\ UNCHANGED <<now, report>>

Tick ==
    /\ now < MaxTime
    /\ now' = now + 1
    /\ UNCHANGED <<report, reading>>

MarketNext ==
    \/ \E t \in MarketThreads :
          BeginReading(t) \/ Fetch(t) \/ FetchFails(t) \/ UpdateReport(t)
          \/ JudgeReadiness(t) \/ PassReport(t) \/ OrderSent(t)
    \/ Tick

-----------------------------------------------------------------------------

(* An order rests on candles of its own cycle that were whole, in order and
   no older than MaxAge when the cycle began, and on a healthy report of
   its symbol, whoever wrote the report between readiness and gateway
   (market_data_runtime_state.py:30, gateway.py:81).                       *)
OrdersRestOnSoundCandles ==
    \A t \in MarketThreads : reading[t].pc = "order" =>
       /\ reading[t].candles.flaw = "NONE"
       /\ reading[t].candles.last \in (reading[t].at - MaxAge)..reading[t].at
       /\ \A x \in reading[t].passed : x.health = "HEALTHY" /\ x.symbol = reading[t].symbol
=============================================================================
