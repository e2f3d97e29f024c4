----------------------------- MODULE CostAnomaly -----------------------------
(****************************************************************************)
(* What counts as abnormal spend: the history of services/cost_service.py    *)
(* and the detector of intelligence/cost_anomaly_detector.py.                *)
(*                                                                           *)
(* An observation is a record of metrics, any of them absent or None.  The   *)
(* models used are a sequence of [model, calls], in the order of the dict.   *)
(* Numbers are whole: a z-score is compared by cross-multiplying, and the    *)
(* mean and the deviation of every history of the model are whole.           *)
(****************************************************************************)
EXTENDS Integers, Sequences, FiniteSets, FiniteSetsExt, SequencesExt

CONSTANT Absent         \* None, where a number is expected

ExpensiveModels == {"gpt-4o", "claude-3-5-sonnet", "gemini-1.5-pro"}

(****************************************************************************)
(* History: a sequence of daily costs.  None given means a flat one, and a   *)
(* flat one means the default deviation.                                     *)
(****************************************************************************)
DefaultMean == 50
DefaultDeviation == 10

Total(history) == FoldSeq(LAMBDA cost, sum : cost + sum, 0, history)

Mean(history) == IF history = << >> THEN DefaultMean ELSE Total(history) \div Len(history)

\* The variance, times the number of days.
Spread(history) ==
    FoldSeq(LAMBDA cost, sum : (cost - Mean(history)) * (cost - Mean(history)) + sum, 0, history)

Deviation(history) ==
    IF Spread(history) = 0 THEN DefaultDeviation
    ELSE CHOOSE d \in 1 .. Max(Range(history)) : d * d * Len(history) = Spread(history)

IsWhole(history) ==
    \/ history = << >>
    \/ /\ Total(history) % Len(history) = 0
       /\ \/ Spread(history) = 0
          \/ \E d \in 1 .. Max(Range(history)) : d * d * Len(history) = Spread(history)

\* What the investigation compares with: only the cost has a history.
Baseline(history) ==
    [cost_usd |-> [mean |-> Mean(history), std |-> Deviation(history)],
     token_count |-> [mean |-> 10000, std |-> 2000],
     latency_ms |-> [mean |-> 450, std |-> 100],
     request_count |-> [mean |-> 100, std |-> 20]]

(****************************************************************************)
(* Detection.                                                                *)
(****************************************************************************)
Metrics == <<"cost_usd", "token_count", "latency_ms", "request_count">>

\* In tenths of a deviation.
Threshold(metric) == IF metric = "latency_ms" THEN 30 ELSE 25

\* Ten times the deviation; a constant metric has a tenth of its mean, at least 1.
Tolerance(base) == IF base.std <= 0 THEN Max({10, base.mean}) ELSE 10 * base.std

\* The z-score reaches the threshold times tenths / 10.
Reaches(metric, base, actual, tenths) ==
    1000 * (actual - base.mean) >= Threshold(metric) * Tolerance(base) * tenths

Exceeds(metric, base, actual) ==
    100 * (actual - base.mean) > Threshold(metric) * Tolerance(base)

Severity(metric, base, actual) ==
    IF Reaches(metric, base, actual, 20) THEN "CRITICAL"
    ELSE IF Reaches(metric, base, actual, 15) THEN "HIGH"
    ELSE IF Reaches(metric, base, actual, 12) THEN "MEDIUM"
    ELSE "LOW"

Reported(current, metric) == metric \in DOMAIN current /\ current[metric] # Absent

\* Only what is above the baseline is flagged, a drop never.
MetricAnomalies(current, baseline) ==
    LET Flagged(metric) == /\ Reported(current, metric)
                           /\ Exceeds(metric, baseline[metric], current[metric])
        Anomaly(metric) ==
            [type |-> metric, severity |-> Severity(metric, baseline[metric], current[metric])]
        flagged == SelectSeq(Metrics, Flagged)
    IN  [i \in DOMAIN flagged |-> Anomaly(flagged[i])]

ModelsUsed(current) ==
    IF Reported(current, "model_distribution") THEN current.model_distribution ELSE << >>

Calls(used) == FoldSeq(LAMBDA use, sum : use.calls + sum, 0, used)

\* An expensive model that takes more than 40 % of the calls.
ModelAnomalies(used) ==
    LET Surges(use) == use.model \in ExpensiveModels /\ 10 * use.calls > 4 * Calls(used)
        Anomaly(use) == [type |-> "model_distribution",
                         severity |-> IF 10 * use.calls > 6 * Calls(used) THEN "HIGH" ELSE "MEDIUM"]
        surges == SelectSeq(used, Surges)
    IN  [i \in DOMAIN surges |-> Anomaly(surges[i])]

DetectAnomalies(current, baseline) ==
    MetricAnomalies(current, baseline) \o ModelAnomalies(ModelsUsed(current))
=============================================================================
