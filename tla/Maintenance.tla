----------------------------- MODULE Maintenance -----------------------------
(****************************************************************************)
(* What the predictive maintenance workflow makes of a set of sensor         *)
(* readings: the statistics of intelligence/anomaly_detector.py and the      *)
(* deterministic rules of workloads/predictive_maintenance.py.               *)
(*                                                                           *)
(* A reading is an integer in the unit of its metric, or Unreadable when it *)
(* is null, not a number or not finite.  A threshold is in tenths of a       *)
(* standard deviation and a score in ten-thousandths, as round(score, 4)     *)
(* keeps it.                                                                 *)
(****************************************************************************)
EXTENDS Integers, FiniteSets, FiniteSetsExt

CONSTANTS
    Metrics,        \* the metrics the detector knows
    NormalRange,    \* for each, its mean, std and threshold
    Unreadable      \* a reading of no use

ASSUME MaintenanceAssumption ==
    /\ IsFiniteSet(Metrics)
    /\ NormalRange \in [Metrics -> [mean : Int, std : Int, threshold : Nat \ {0}]]
    /\ Unreadable \notin Int

(* Readings of unknown metrics are never looked at; one that is absent and   *)
(* one that cannot be used are the same to the detector.                     *)
Reading(readings, m) == IF m \in DOMAIN readings THEN readings[m] ELSE Unreadable

Missing(readings) == {m \in Metrics : Reading(readings, m) = Unreadable}

Distance(readings, m) ==
    LET d == readings[m] - NormalRange[m].mean IN IF d < 0 THEN -d ELSE d

(* z-score over threshold; a metric with no spread is never anomalous.       *)
IsAnomalous(readings, m) ==
    /\ m \notin Missing(readings)
    /\ NormalRange[m].std > 0
    /\ Distance(readings, m) * 10 > NormalRange[m].std * NormalRange[m].threshold

AnomalousMetrics(readings) == {m \in Metrics : IsAnomalous(readings, m)}

(* How much of its threshold a metric uses, in ten-thousandths, rounded.     *)
Normalised(readings, m) ==
    LET limit == NormalRange[m].std * NormalRange[m].threshold
    IN  IF limit <= 0 THEN 0 ELSE (Distance(readings, m) * 200000 + limit) \div (2 * limit)

AnomalyScore(readings) ==
    Min({10000, Max({0} \cup {Normalised(readings, m) : m \in Metrics \ Missing(readings)})})

\* A mutant: any anomaly is complex.
AnyAnomalyIsComplex == 1

ComplexAnomalyThreshold == 2
HighRiskAnomalyScore == 8500
CriticalRiskAnomalyScore == 9500

(* The rules that decide without a model.                                    *)
ClassifyRisk(readings) ==
    LET n == Cardinality(AnomalousMetrics(readings))
        score == AnomalyScore(readings)
    IN  CASE n = 0 -> "low"
          [] n > 0 /\ (score >= CriticalRiskAnomalyScore \/ n >= 4) -> "critical"
          [] n > 0 /\ score < CriticalRiskAnomalyScore /\ n < 4
                   /\ (score >= HighRiskAnomalyScore \/ n >= 3) -> "high"
          [] OTHER -> "medium"

SelectRecommendationType(readings) ==
    LET n == Cardinality(AnomalousMetrics(readings))
    IN  IF n = 0 THEN "preventive"
        ELSE IF n >= 3 \/ AnomalyScore(readings) >= HighRiskAnomalyScore THEN "corrective"
        ELSE "condition_based"

(* Only an anomaly of several metrics is worth a model's reasoning.          *)
NeedsRootCause(readings) ==
    Cardinality(AnomalousMetrics(readings)) >= ComplexAnomalyThreshold

(* The recommendation; `answered' says that a model explained it.            *)
Recommendation(readings, answered) ==
    LET risk == ClassifyRisk(readings)
    IN  [type |-> SelectRecommendationType(readings),
         risk |-> risk,
         requires_approval |-> risk \in {"critical", "high"},
         recommendation_only |-> risk \in {"critical", "high"},
         quality |-> IF answered THEN "ESTIMATED" ELSE "ACTUAL"]
=============================================================================
