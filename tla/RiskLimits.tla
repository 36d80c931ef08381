------------------------------ MODULE RiskLimits ------------------------------
(***************************************************************************)
(* The checks a DEMO cycle passes before its order: the decision of the    *)
(* DecisionEngine with its RiskManager, the pre-trade risk (P39), the      *)
(* budget (P40) and the report that tells whether a request may be served. *)
(* Volumes and losses are counted in units of the smallest order, so that  *)
(* the comparisons are those of the code.                                  *)
(***************************************************************************)
EXTENDS Integers

CONSTANTS RiskManagerLimits,   \* daily_loss_limit, max_operations, max_consecutive_losses; 0 is no limit
          RiskPolicy,          \* CONTROLADOR_RISK_*; Unknown is a variable that is not set
          Amount               \* the volume of an order

Unknown == -1

Counts == Nat \cup {Unknown}

(* core/operational_state.py: what was read of the account; a field may be
   None, and a negative count is refused when the snapshot is built.       *)
OperationalState == [trades : Counts, streak : Counts, loss : Counts, volume : Counts]

ASSUME LimitsAssumption ==
    /\ RiskManagerLimits \in [dailyLoss : Nat, operations : Nat, streak : Nat]
    /\ RiskPolicy \in [orderVolume : Counts, totalVolume : Counts, lossPerOperation : Counts,
                       dailyLoss : Counts, operations : Counts]
    /\ Amount \in Nat \ {0}

(* Mutant: the loss that fills the streak is not counted.                  *)
RiskManagerAllowsOneMore(s) ==
    LET limit == RiskManagerLimits IN
    /\ s.trades # Unknown /\ s.streak # Unknown
    /\ limit.operations # 0 => s.trades < limit.operations
    /\ limit.streak # 0 => s.streak <= limit.streak
    /\ limit.dailyLoss # 0 => s.loss # Unknown /\ s.loss < limit.dailyLoss

(* RiskManager.evaluate: what is not known is never taken as allowed.      *)
RiskManagerAllows(s) ==
    LET limit == RiskManagerLimits IN
    /\ s.trades # Unknown /\ s.streak # Unknown
    /\ limit.operations # 0 => s.trades < limit.operations
    /\ limit.streak # 0 => s.streak < limit.streak
    /\ limit.dailyLoss # 0 => s.loss # Unknown /\ s.loss < limit.dailyLoss

-----------------------------------------------------------------------------

Analyses == [signal    : {"COMPRA", "VENDA", "AGUARDAR"},
             confirmed : BOOLEAN,
             scoreFits : BOOLEAN,
             context   : {"FAVORAVEL", "NEUTRO", "DESFAVORAVEL"},
             direction : {"ALTA", "BAIXA", "NEUTRA"},
             senior    : {"COMPLETE", "PARTIAL", "REASSESS", "NONE"}]

(* What the market has to say for an order: a confirmed signal whose score
   fits it, in a favourable market that moves the same way.                *)
Actionable(a) ==
    /\ a.signal # "AGUARDAR" /\ a.confirmed /\ a.scoreFits
    /\ a.context = "FAVORAVEL"
    /\ a.direction = IF a.signal = "COMPRA" THEN "ALTA" ELSE "BAIXA"

(* DecisionEngine.evaluate: a cycle of quality COMPLETE has its risk
   assessed, which is what SeniorRiskGate asks of it.                      *)
Decision(a, s) ==
    IF ~Actionable(a) THEN "AGUARDAR"
    ELSE IF ~RiskManagerAllows(s) THEN "BLOQUEAR"
    ELSE IF a.senior # "COMPLETE" THEN "AGUARDAR"
    ELSE "EXECUTAR"

-----------------------------------------------------------------------------

(* AutomationRiskPolicy.configured: what the environment does not set, or
   sets to no positive number, is None.                                    *)
Configured == RiskPolicy.orderVolume # Unknown /\ RiskPolicy.totalVolume # Unknown

(* _build_mt5_pretrade_risk and PreTradeRiskEvaluator.evaluate             *)
PreTradeApproves(s) ==
    /\ Configured /\ s.volume # Unknown
    /\ Amount <= RiskPolicy.orderVolume
    /\ s.volume + Amount <= RiskPolicy.totalVolume

(* _build_mt5_automation_risk_budget: a limit that is not set counts as 0,
   and 0 blocks.                                                           *)
HasBudget(s) ==
    /\ s.loss # Unknown /\ s.trades # Unknown
    /\ RiskPolicy.dailyLoss > 0 /\ RiskPolicy.operations > 0
    /\ RiskPolicy.lossPerOperation # Unknown

(* RiskBudgetEvaluator.evaluate                                            *)
BudgetApproves(s) ==
    /\ HasBudget(s)
    /\ s.loss + RiskPolicy.lossPerOperation <= RiskPolicy.dailyLoss
    /\ s.trades + 1 <= RiskPolicy.operations

(* UnifiedSafetyGate.evaluate                                              *)
SafetyReady(killed, healthy, recovered) == ~killed /\ healthy /\ recovered

(* DemoReadiness.evaluate: the intent of a DEMO cycle is always there.     *)
Ready(killed, healthy, recovered) == SafetyReady(killed, healthy, recovered)

(* AutomationAdmission.admit                                               *)
Admitted(ready, s) == ready /\ BudgetApproves(s) /\ PreTradeApproves(s)
=============================================================================
