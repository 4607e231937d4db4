----------------------------- MODULE RiskTiers -----------------------------
(***************************************************************************)
(* Where the tiers come from.  At the end of a training                    *)
(* ml/threshold_optimizer.py scans a grid of thresholds twice over the     *)
(* test set, once with the cost of a call and once with that of a message, *)
(* and saves a critical and a watch threshold; a BentoML server            *)
(* (serving/bentoml_service.py) cuts the combined scores of its models     *)
(* (ml/ensemble.py) with them, or with the defaults if there are none.     *)
(*                                                                         *)
(* Probabilities and thresholds are whole hundredths: a probability counts *)
(* only by the thresholds it reaches.  Costs are in the smallest unit, half *)
(* a pound.  While a training runs nothing is served here; ModelFiles has  *)
(* what the two do to each other.  FilesProofs extends both, hence the     *)
(* prefix of TiersInit, TiersNext and TiersSpec.                           *)
(***************************************************************************)
EXTENDS Integers, FiniteSets

CONSTANTS Example,         \* the customers of the test set
          Probability,     \* what a model may answer, in hundredths
          Grid,            \* the highest threshold scanned: 94
          CostMissed,      \* cost_missed_default: 20000
          CostCall,        \* cost_unnecessary_call: 10
          CostSms,         \* cost_unnecessary_sms: 1
          XgbWeight,       \* ENSEMBLE_XGB_WEIGHT: 35
          LgbWeight,       \* ENSEMBLE_LGB_WEIGHT: 40
          DefaultCritical, \* RISK_CRITICAL_THRESHOLD: 65
          DefaultWatch,    \* RISK_WATCH_THRESHOLD: 46
          NoModel          \* a model that is not loaded

VARIABLES sample,   \* the test set: calibrated probability and label of each
          phase,    \* how far the training is
          next,     \* the threshold the scan comes to next
          best,     \* best_threshold so far, 0 before the first
          critical, \* result of the first scan
          watch,    \* result of the second, once it is clamped
          loaded,   \* the thresholds a server took in when it started
          answer    \* its latest prediction

tierVars == <<sample, phase, next, best, critical, watch, loaded, answer>>

ASSUME TiersAssumption ==
  /\ IsFiniteSet(Example)
  /\ Probability \subseteq 0..100
  /\ Grid \in 1..94
  /\ CostMissed \in Nat /\ CostCall \in Nat /\ CostSms \in Nat
  /\ CostSms <= CostCall
  /\ XgbWeight \in Nat \ {0} /\ LgbWeight \in Nat \ {0}
  /\ DefaultCritical \in 0..100 /\ DefaultWatch \in 0..100
  /\ DefaultWatch <= DefaultCritical
  /\ NoModel \notin Int

Phase == {"idle", "critical", "watch", "clamp", "saved"}
Sample == [Example -> [proba: Probability, bad: BOOLEAN]]
Cut == [critical: 0..100, watch: 0..100]
Defaults == [critical |-> DefaultCritical, watch |-> DefaultWatch]
NotServing == [critical |-> 0, watch |-> 0]

Tier == {"critical", "watch", "stable"}
NoAnswer == [xgb |-> NoModel, lgb |-> NoModel, tier |-> "none"]
Answer == [xgb: Probability \cup {NoModel}, lgb: Probability \cup {NoModel}, tier: Tier]

TiersTypeOK ==
  /\ phase \in Phase
  /\ phase # "idle" => sample \in Sample
  /\ next \in 1..Grid + 1
  /\ best \in 0..Grid
  /\ next > 1 => best \in 1..Grid
  /\ critical \in 0..Grid
  /\ phase \in {"watch", "clamp", "saved"} => critical \in 1..Grid
  /\ watch \in 0..Grid
  /\ phase = "saved" => watch \in 1..Grid
  /\ loaded \in Cut
  /\ answer = NoAnswer \/ answer \in Answer

TiersInit ==
  /\ sample = <<>> /\ phase = "idle"
  /\ next = 1 /\ best = 0
  /\ critical = 0 /\ watch = 0
  /\ loaded = NotServing /\ answer = NoAnswer

-----------------------------------------------------------------------------
(* Training: optimize_thresholds.                                          *)

Missed(t) == {e \in Example : sample[e].bad /\ sample[e].proba < t}
FalseAlarms(t) == {e \in Example : ~sample[e].bad /\ sample[e].proba >= t}

\* What threshold t costs on the test set.
Cost(t, costFp) == Cardinality(Missed(t)) * CostMissed + Cardinality(FalseAlarms(t)) * costFp

\* What a false alarm costs in the scan under way.
CostFp == IF phase = "critical" THEN CostCall ELSE CostSms

\* The models and the calibrator are there; the test set is scored.
Train ==
  /\ phase = "idle" /\ loaded = NotServing
  /\ sample' \in Sample
  /\ phase' = "critical"
  /\ UNCHANGED <<next, best, critical, watch, loaded, answer>>

\* Mutant of Cheaper: a threshold as cheap as the best replaces it.
NoDearer(t) == best = 0 \/ Cost(t, CostFp) <= Cost(best, CostFp)

\* Is t the first threshold, or cheaper than all before it?
Cheaper(t) == best = 0 \/ Cost(t, CostFp) < Cost(best, CostFp)

\* One round of the loop of _find_optimal_threshold.
Scan ==
  /\ phase \in {"critical", "watch"} /\ next <= Grid
  /\ best' = IF Cheaper(next) THEN next ELSE best
  /\ next' = next + 1
  /\ UNCHANGED <<sample, phase, critical, watch, loaded, answer>>

\* The first scan ends and the second begins, or that ends as well.
EndScan ==
  /\ phase \in {"critical", "watch"} /\ next > Grid
  /\ IF phase = "critical"
     THEN /\ critical' = best /\ phase' = "watch"
          /\ next' = 1 /\ best' = 0
     ELSE phase' = "clamp" /\ UNCHANGED <<critical, next, best>>
  /\ UNCHANGED <<sample, watch, loaded, answer>>

\* Mutant of Scaled: rounded down.
ScaledDown(c) == (65 * c) \div 100

\* round(critical * 0.65, 2) for c hundredths; 0.7 * 0.65 is below 0.455 in floats.
Scaled(c) == IF c = 70 THEN 45 ELSE (65 * c + 50) \div 100

\* Mutant of Clamp: a tie is left as it is.
ClampAbove ==
  /\ phase = "clamp"
  /\ watch' = IF best > critical THEN Scaled(critical) ELSE best
  /\ phase' = "saved"
  /\ UNCHANGED <<sample, next, best, critical, loaded, answer>>

\* Watch must be the looser trigger; both are saved.
Clamp ==
  /\ phase = "clamp"
  /\ watch' = IF best >= critical THEN Scaled(critical) ELSE best
  /\ phase' = "saved"
  /\ UNCHANGED <<sample, next, best, critical, loaded, answer>>

-----------------------------------------------------------------------------
(* Serving.                                                                *)

\* A server imports ml.ensemble, and with it the thresholds, if there are any.
StartServer ==
  /\ phase \in {"idle", "saved"}
  /\ loaded' = IF phase = "saved" THEN [critical |-> critical, watch |-> watch] ELSE Defaults
  /\ answer' = NoAnswer
  /\ UNCHANGED <<sample, phase, next, best, critical, watch>>

\* Mutant of Combined: a missing model counts as one that answers 0.
CombinedWithGaps(x, l) ==
  [num |-> (IF x = NoModel THEN 0 ELSE x * XgbWeight) + (IF l = NoModel THEN 0 ELSE l * LgbWeight),
   weight |-> XgbWeight + LgbWeight]

\* EnsembleScorer.combine: the mean of what there is, as a sum and its weight.
Combined(x, l) ==
  IF x = NoModel /\ l = NoModel THEN [num |-> 50, weight |-> 1]
  ELSE IF l = NoModel THEN [num |-> x * XgbWeight, weight |-> XgbWeight]
  ELSE IF x = NoModel THEN [num |-> l * LgbWeight, weight |-> LgbWeight]
  ELSE [num |-> x * XgbWeight + l * LgbWeight, weight |-> XgbWeight + LgbWeight]

\* score_to_risk_tier.
TierOf(score, cut) ==
  IF score.num >= cut.critical * score.weight THEN "critical"
  ELSE IF score.num >= cut.watch * score.weight THEN "watch"
  ELSE "stable"

\* predict: the models answer, none of them calibrated.
Predict ==
  /\ loaded # NotServing
  /\ \E x, l \in Probability \cup {NoModel} :
       answer' = [xgb |-> x, lgb |-> l, tier |-> TierOf(Combined(x, l), loaded)]
  /\ UNCHANGED <<sample, phase, next, best, critical, watch, loaded>>

-----------------------------------------------------------------------------
TiersNext == Train \/ Scan \/ EndScan \/ Clamp \/ StartServer \/ Predict

TiersSpec == TiersInit /\ [][TiersNext]_tierVars

-----------------------------------------------------------------------------
(* Properties.                                                             *)

\* t is the lowest of the grid's thresholds with the least cost.
Optimal(t, costFp) ==
  /\ \A u \in 1..Grid : Cost(t, costFp) <= Cost(u, costFp)
  /\ \A u \in 1..t - 1 : Cost(t, costFp) < Cost(u, costFp)

\* The scan finds the cheapest critical threshold, the lowest if there are several:
\* nobody is spared a call that costs nothing more (threshold_optimizer.py:37).
CriticalIsCheapest ==
  phase \in {"watch", "clamp", "saved"} => Optimal(critical, CostCall)

\* Watch is the looser trigger.  A message being no dearer than a call, the second
\* scan never ends above the first: what the clamp corrects (threshold_optimizer.py:71)
\* is only ever a tie.  After it there are scores of tier watch, except where rounding
\* 0.65 of 0.01 makes both thresholds 0.01.
WatchIsLooser ==
  /\ phase = "clamp" => best <= critical
  /\ phase = "saved" => watch < critical \/ critical = 1

Healthy == {e \in Example : ~sample[e].bad}

\* Unless the test set has thousands of healthy customers, a missed default outweighs
\* all calls together: every defaulter who scores at least 0.01 is critical, and the
\* tier watch holds healthy customers only (threshold_optimizer.py:45-47).
DefaultersCritical ==
  phase = "saved" /\ Cardinality(Healthy) * CostCall < CostMissed =>
    \A e \in Example : sample[e].bad /\ sample[e].proba >= 1 => sample[e].proba >= critical

\* Whichever models are loaded, a customer all of them put above the critical
\* threshold is critical, and one all put below the watch threshold is stable: the
\* weights of missing models are spread over the others (ensemble.py:75-76).
Unanimous ==
  answer # NoAnswer =>
    LET scores == {answer.xgb, answer.lgb} \ {NoModel} IN
    scores # {} =>
      /\ (\A s \in scores : s >= loaded.critical) => answer.tier = "critical"
      /\ (\A s \in scores : s < loaded.watch) => answer.tier = "stable"

=============================================================================
