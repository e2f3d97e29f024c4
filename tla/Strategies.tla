----------------------------- MODULE Strategies -----------------------------
(****************************************************************************)
(* optimization/engine.py: six fixed candidates, scored by weights that      *)
(* depend on the priority of the business, of which the best is recommended. *)
(* Percentages are counted in tenths, weights in hundredths, scores in       *)
(* thousandths.                                                              *)
(****************************************************************************)
EXTENDS Integers, Sequences, SequencesExt

Candidate(strategy, saving, quality, latency, risk) ==
    [strategy |-> strategy, saving |-> saving, quality |-> quality, latency |-> latency,
     risk |-> risk, status |-> "PENDING_APPROVAL", requires_approval |-> TRUE]

GenerateCandidates(priority) == <<
    Candidate("model_routing",       450,  5, -350, "LOW"),
    Candidate("context_reduction",   250,  2, -200, "LOW"),
    Candidate("agent_reduction",     300, 10, -400, "MEDIUM"),
    Candidate("tool_call_reduction", 200,  1, -250, "LOW"),
    Candidate("workload_scheduling", 150,  0,  500, IF priority = "CRITICAL" THEN "HIGH" ELSE "LOW"),
    Candidate("model_mix",           400,  3, -300, "LOW") >>

Weights(priority) ==
    CASE priority = "CRITICAL" -> [cost |-> 30, quality |-> 40, latency |-> 20, risk |-> 10]
      [] priority = "HIGH"     -> [cost |-> 40, quality |-> 30, latency |-> 20, risk |-> 10]
      [] priority = "LOW"      -> [cost |-> 65, quality |-> 15, latency |-> 10, risk |-> 10]
      [] OTHER                 -> [cost |-> 50, quality |-> 25, latency |-> 15, risk |-> 10]

RiskPenalty(risk) ==
    CASE risk = "LOW" -> 0 [] risk = "MEDIUM" -> 150 [] risk = "HIGH" -> 350
      [] risk = "CRITICAL" -> 700 [] OTHER -> 200

CostScore(c) == IF 2 * c.saving > 1000 THEN 1000 ELSE 2 * c.saving

Score(c, priority) ==
    LET w == Weights(priority)
    IN  w.cost * CostScore(c) - w.quality * 20 * c.quality - w.latency * c.latency
          - w.risk * RiskPenalty(c.risk)

\* A stable sort, best first, so that the first of equals is recommended.
ScoredCandidates(priority) ==
    SortSeq(GenerateCandidates(priority), LAMBDA a, b : Score(a, priority) > Score(b, priority))

Analyze(priority) == Head(ScoredCandidates(priority))

\* In cents, of a historical cost in the unit of the currency.
EstimatedSaving(candidate, cost) == (cost * candidate.saving) \div 10
=============================================================================
