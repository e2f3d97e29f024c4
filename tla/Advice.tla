------------------------------- MODULE Advice -------------------------------
(****************************************************************************)
(* What the platform advises: the investigation of abnormal spend            *)
(* (intelligence/cost_investigation_graph.py), the what-if simulation and    *)
(* the optimization analysis (api/v1/routes/optimization.py), while prices   *)
(* are filled in and executions are recorded.                                *)
(*                                                                           *)
(* A session is one of the three.  An investigation is a graph of eight      *)
(* nodes that await one another, under one deadline around the whole; a      *)
(* simulation reads recorded spend, and then the registry one model at a     *)
(* time; an analysis checks its workload in one session of the database and  *)
(* inserts its recommendation in another.                                    *)
(****************************************************************************)
EXTENDS CostAnomaly, WhatIf, Strategies

CONSTANTS
    Sessions,
    Models,             \* those of the seed file
    SeedEntry,          \* what the seed file knows of a model
    Prices,             \* registry entries an operator may write
    Observations,       \* current metrics
    Histories,
    Inputs,             \* what may be simulated
    Workloads,          \* the rows of workloads
    NoWorkload,         \* the empty id, which is not looked up
    Charge,             \* the cost of an execution
    MaxRequests,        \* bound: recorded executions
    MaxVersions         \* bound: states of the registry

ASSUME AdviceAssumption ==
    /\ \A h \in Histories : IsWhole(h)
    /\ \A input \in Inputs : input.mix \in Seq(Range(input.mix))
    /\ NoWorkload \notin Workloads
    /\ Charge \in Nat /\ MaxRequests \in Nat /\ MaxVersions \in Nat \ {0}

VARIABLES
    registries,         \* the states of the model registry, the present one last
    spend,              \* what is recorded: [actual, estimated, requests]
    recommendations,    \* rows of optimization_recommendations
    task                \* of a session: what it does, and how far it got

adviceVars == <<registries, spend, recommendations, task>>

Registry == Last(registries)

AdviceInit ==
    /\ registries = << << >> >>
    /\ spend = [actual |-> 0, estimated |-> 0, requests |-> 0]
    /\ recommendations = {}
    /\ task = [s \in Sessions |-> [kind |-> "none", phase |-> "new"]]

In(s, kind, phase) == task[s].kind = kind /\ task[s].phase = phase

Become(s, new) == task' = [task EXCEPT ![s] = new]

-----------------------------------------------------------------------------
(****************************************************************************)
(* The surroundings.                                                         *)
(****************************************************************************)
\* A process that starts inserts the seeded models that are absent, together.
RegisterSeedModels ==
    /\ Len(registries) < MaxVersions
    /\ DOMAIN Registry # Models
    /\ registries' = Append(registries,
                            [m \in Models |-> IF m \in DOMAIN Registry THEN Registry[m] ELSE SeedEntry])
    /\ UNCHANGED <<spend, recommendations, task>>

\* An operator fills in, or corrects, what is known of a model.
FillIn(m, entry) ==
    /\ Len(registries) < MaxVersions
    /\ m \in DOMAIN Registry /\ Registry[m] # entry
    /\ registries' = Append(registries, [Registry EXCEPT ![m] = entry])
    /\ UNCHANGED <<spend, recommendations, task>>

\* An execution is recorded, with a cost that is measured, estimated or unknown:
\* of its two rows, what the queries of a baseline add up.
Record(provenance) ==
    /\ spend.requests < MaxRequests
    /\ spend' = [actual |-> spend.actual + (IF provenance = "ACTUAL" THEN Charge ELSE 0),
                 estimated |-> spend.estimated + (IF provenance = "ESTIMATED" THEN Charge ELSE 0),
                 requests |-> spend.requests + 1]
    /\ UNCHANGED <<registries, recommendations, task>>

-----------------------------------------------------------------------------
(****************************************************************************)
(* Investigation.  `iterations' counts the nodes that have run; an anomaly   *)
(* and a proposal are sequences of at most one, empty where there is none.   *)
(****************************************************************************)
InitialState(current, history) ==
    [current |-> current, history |-> history, baseline |-> << >>, anomaly |-> << >>,
     drivers |-> {}, cause |-> "", saving |-> 0, risk |-> "LOW", proposal |-> << >>,
     status |-> "in_progress", iterations |-> 0]

Investigate(s, current, history) ==
    /\ task[s].phase = "new"
    /\ Become(s, [kind |-> "investigate", phase |-> "running", answered |-> FALSE,
                  state |-> InitialState(current, history)])
    /\ UNCHANGED <<registries, spend, recommendations>>

AtNode(s, n) == In(s, "investigate", "running") /\ task[s].state.iterations = n - 1

\* A node leaves a state, and has run.
Merge(s, state) ==
    /\ Become(s, [task[s] EXCEPT !.state = [state EXCEPT !.iterations = @ + 1]])
    /\ UNCHANGED <<registries, spend, recommendations>>

\* Whatever raises, other than the deadline, leaves execute.
Raise(s) ==
    /\ Become(s, [task[s] EXCEPT !.phase = "raised"])
    /\ UNCHANGED <<registries, spend, recommendations>>

\* A metric that is read as given, and raises where it is given as None.
Unusable(current, metric) == metric \in DOMAIN current /\ current[metric] = Absent

LoadHistoricalCost(s) ==
    /\ AtNode(s, 1)
    /\ Merge(s, [task[s].state EXCEPT !.baseline = Baseline(task[s].state.history)])

\* The first anomaly found stands for all, whichever is the worst.
DetectAnomaly(s) ==
    LET state == task[s].state
        found == DetectAnomalies(state.current, state.baseline)
    IN  /\ AtNode(s, 2)
        /\ Merge(s, [state EXCEPT !.anomaly = IF found = << >> THEN << >> ELSE <<Head(found)>>])

Drivers(current) ==
    LET surging == {use \in Range(ModelsUsed(current)) :
                        use.model \in ExpensiveModels /\ use.calls > 0}
        found == (IF surging # {} THEN {"expensive_model_surge"} ELSE {})
                 \cup (IF "token_count" \in DOMAIN current /\ current.token_count > 20000
                       THEN {"high_token_volume"} ELSE {})
    IN  IF found = {} THEN {"workload_volume"} ELSE found

IdentifyDrivers(s) ==
    /\ AtNode(s, 3)
    /\ IF Unusable(task[s].state.current, "token_count") THEN Raise(s)
       ELSE Merge(s, [task[s].state EXCEPT !.drivers = Drivers(task[s].state.current)])

CompareModelWorkload(s) == AtNode(s, 4) /\ Merge(s, task[s].state)

\* Nothing abnormal needs no model.
FindNothing(s) ==
    /\ AtNode(s, 5)
    /\ task[s].state.anomaly = << >>
    /\ Merge(s, [task[s].state EXCEPT !.cause = "within normal bounds"])

AskModel(s) ==
    /\ AtNode(s, 5)
    /\ task[s].state.anomaly # << >>
    /\ Become(s, [task[s] EXCEPT !.phase = "asking"])
    /\ UNCHANGED <<registries, spend, recommendations>>

Answer(s) ==
    /\ In(s, "investigate", "asking")
    /\ Become(s, [task[s] EXCEPT !.phase = "running", !.answered = TRUE,
                                 !.state = [task[s].state EXCEPT !.cause = "the model's",
                                                                 !.iterations = @ + 1]])
    /\ UNCHANGED <<registries, spend, recommendations>>

GatewayRaises(s) == In(s, "investigate", "asking") /\ Raise(s)

Recommend(s) == AtNode(s, 6) /\ Merge(s, task[s].state)

\* 40 % of the cost observed, or of 50 where none was; in hundredths.
EstimatedOf(state) ==
    IF state.anomaly = << >> THEN 0
    ELSE 40 * (IF "cost_usd" \in DOMAIN state.current THEN state.current.cost_usd ELSE 50)

EstimateSavings(s) ==
    /\ AtNode(s, 7)
    /\ IF Unusable(task[s].state.current, "cost_usd") THEN Raise(s)
       ELSE Merge(s, [task[s].state EXCEPT !.saving = EstimatedOf(task[s].state)])

ProposePolicyChange(state) ==
    [monthly |-> 30 * state.saving, reason |-> state.cause,
     status |-> "PENDING_APPROVAL", requires_approval |-> TRUE]

RiskOf(state) ==
    IF state.anomaly = << >> THEN "LOW"
    ELSE IF Head(state.anomaly).severity \in {"LOW", "MEDIUM"} THEN "MEDIUM"
    ELSE "HIGH"

EvaluateRisk(s) ==
    LET state == task[s].state
        proposal == IF state.anomaly = << >> THEN << >> ELSE <<ProposePolicyChange(state)>>
    IN  /\ AtNode(s, 8)
        /\ Become(s, [task[s] EXCEPT
               !.phase = "ended",
               !.state = [state EXCEPT !.status = "completed", !.iterations = @ + 1,
                                       !.risk = RiskOf(state), !.proposal = proposal]])
        /\ UNCHANGED <<registries, spend, recommendations>>

Investigating(s) == task[s].kind = "investigate" /\ task[s].phase \in {"running", "asking"}

\* Mutant: what was found by then is returned.
TimeOutWithPartial(s) ==
    /\ Investigating(s)
    /\ Become(s, [task[s] EXCEPT !.phase = "ended", !.state.status = "timeout"])
    /\ UNCHANGED <<registries, spend, recommendations>>

\* Mutant: the deadline is looked at between nodes only.
TimeOutBetweenNodes(s) ==
    /\ In(s, "investigate", "running")
    /\ Become(s, [task[s] EXCEPT !.phase = "ended", !.state.status = "timeout",
                                 !.state.saving = 0])
    /\ UNCHANGED <<registries, spend, recommendations>>

\* The deadline cancels the graph wherever it is, and nothing found is kept.
TimeOut(s) ==
    LET state == task[s].state
    IN  /\ Investigating(s)
        /\ Become(s, [task[s] EXCEPT
               !.phase = "ended",
               !.state = [InitialState(state.current, state.history) EXCEPT
                             !.risk = "HIGH", !.cause = "timed out", !.status = "timeout"]])
        /\ UNCHANGED <<registries, spend, recommendations>>

-----------------------------------------------------------------------------
(****************************************************************************)
(* Simulation.                                                               *)
(****************************************************************************)
\* Where a mix mentions a model for the first time.
ModelIds(mix) == {i \in DOMAIN mix : \A j \in 1 .. (i - 1) : mix[j].model # mix[i].model}

\* _load_baseline.
LoadBaseline(s, input) ==
    /\ task[s].phase = "new"
    /\ Become(s, [kind |-> "simulate", phase |-> "reading", input |-> input, baseline |-> spend,
                  unread |-> ModelIds(input.mix), found |-> << >>,
                  since |-> Len(registries)])
    /\ UNCHANGED <<registries, spend, recommendations>>

\* _load_registry, one query for each model named, in the order of the mix; one
\* that is absent is not kept.
ReadModel(s) ==
    LET i == Min(task[s].unread)
        m == task[s].input.mix[i].model
        found == task[s].found
    IN  /\ In(s, "simulate", "reading")
        /\ task[s].unread # {}
        /\ Become(s, [task[s] EXCEPT
               !.unread = @ \ {i},
               !.found = IF m \in DOMAIN Registry
                         THEN [n \in {m} \cup DOMAIN found |->
                                  IF n = m THEN Registry[m] ELSE found[n]]
                         ELSE found])
        /\ UNCHANGED <<registries, spend, recommendations>>

Simulate(s) ==
    /\ In(s, "simulate", "reading")
    /\ task[s].unread = {}
    /\ Become(s, [kind |-> "simulate", phase |-> "ended", input |-> task[s].input,
                  baseline |-> task[s].baseline,
                  since |-> task[s].since, until |-> Len(registries),
                  result |-> Simulation(task[s].input, task[s].baseline, task[s].found)])
    /\ UNCHANGED <<registries, spend, recommendations>>

-----------------------------------------------------------------------------
(****************************************************************************)
(* Analysis.                                                                 *)
(****************************************************************************)
\* An unknown workload is refused; an empty id is not looked up.
CheckWorkload(s, workload) ==
    /\ task[s].phase = "new"
    /\ Become(s, [kind |-> "analyze", workload |-> workload,
                  phase |-> IF workload \in Workloads \cup {NoWorkload} THEN "checked" ELSE "refused"])
    /\ UNCHANGED <<registries, spend, recommendations>>

\* The engine is handed the workload's id only: its priority and its cost are
\* the defaults.  A foreign key refuses the empty id.
InsertRecommendation(s) ==
    LET best == Analyze("NORMAL")
        row == [of |-> s, workload |-> task[s].workload, strategy |-> best.strategy,
                saving |-> EstimatedSaving(best, 1000), risk |-> best.risk, status |-> best.status]
    IN  /\ In(s, "analyze", "checked")
        /\ IF task[s].workload \in Workloads
           THEN /\ recommendations' = recommendations \cup {row}
                /\ Become(s, [task[s] EXCEPT !.phase = "accepted"])
           ELSE /\ Become(s, [task[s] EXCEPT !.phase = "raised"])
                /\ UNCHANGED recommendations
        /\ UNCHANGED <<registries, spend>>

-----------------------------------------------------------------------------
RunNode(s) ==
    \/ LoadHistoricalCost(s) \/ DetectAnomaly(s) \/ IdentifyDrivers(s) \/ CompareModelWorkload(s)
    \/ FindNothing(s) \/ AskModel(s) \/ Answer(s) \/ GatewayRaises(s)
    \/ Recommend(s) \/ EstimateSavings(s) \/ EvaluateRisk(s)

AdviceNext ==
    \/ RegisterSeedModels
    \/ \E m \in Models, entry \in Prices : FillIn(m, entry)
    \/ \E provenance \in {"ACTUAL", "ESTIMATED", "UNAVAILABLE"} : Record(provenance)
    \/ \E s \in Sessions :
           \/ \E current \in Observations, history \in Histories : Investigate(s, current, history)
           \/ RunNode(s)
           \/ TimeOut(s)
           \/ \E input \in Inputs : LoadBaseline(s, input)
           \/ ReadModel(s)
           \/ Simulate(s)
           \/ \E workload \in Workloads \cup {NoWorkload, "unknown"} : CheckWorkload(s, workload)
           \/ InsertRecommendation(s)

\* The timer of the event loop fires; nothing is asked of the model or the nodes.
AdviceSpec == AdviceInit /\ [][AdviceNext]_adviceVars /\ \A s \in Sessions : WF_adviceVars(TimeOut(s))

-----------------------------------------------------------------------------
Ended(s, kind) == In(s, kind, "ended")

(****************************************************************************)
(* An investigation claims a saving, and proposes a policy, exactly when it  *)
(* came to its end, found the metrics abnormal and a model gave the cause:   *)
(* a deadline at any node, also after the answer, claims nothing, and no     *)
(* model is paid for metrics that are normal (execute, _node_risk_evaluation).*)
(****************************************************************************)
ClaimsHaveEvidence ==
    \A s \in Sessions :
        /\ Ended(s, "investigate") =>
               LET state == task[s].state
                   abnormal == DetectAnomalies(state.current, Baseline(state.history)) # << >>
                   concluded == state.status = "completed" /\ abnormal
               IN  /\ (state.proposal # << >>) <=> concluded
                   /\ state.saving # 0 => concluded
                   /\ concluded => /\ task[s].answered
                                   /\ state.iterations = 8
                                   /\ Head(state.proposal).monthly = 30 * state.saving
        /\ task[s].kind = "investigate" /\ (task[s].answered \/ task[s].phase = "asking") =>
               DetectAnomalies(task[s].state.current, Baseline(task[s].state.history)) # << >>

(****************************************************************************)
(* An investigation ends, also when the gateway never answers: the deadline  *)
(* is around the whole graph (execute).                                      *)
(****************************************************************************)
InvestigationsEnd ==
    \A s \in Sessions :
        task[s].kind = "investigate" ~> task[s].phase \in {"ended", "raised"}

\* The prices a model had at some moment of a finished simulation.
InForce(s, m) ==
    {registries[v][m] : v \in {w \in task[s].since .. task[s].until : m \in DOMAIN registries[w]}}

(****************************************************************************)
(* "Unknown is never zero" (simulation.py): a saving is claimed only when    *)
(* there was traffic and each model of the mix had a price while the         *)
(* simulation ran, and then of such prices; a model is called unpriced only  *)
(* if it was so at some moment of it.  Prices may change between two reads,  *)
(* so the moments of two models may differ.                                  *)
(****************************************************************************)
SavingIsOfRealPrices ==
    \A s \in Sessions : Ended(s, "simulate") =>
        LET mix == task[s].input.mix
            models == {part.model : part \in Range(mix)}
            result == task[s].result
        IN  /\ result.saving.amount # Unknown =>
                   /\ task[s].baseline.requests > 0
                   /\ \E price \in [models -> UNION {InForce(s, m) : m \in models}] :
                          /\ \A m \in models : price[m] \in InForce(s, m) /\ HasKnownPricing(price[m])
                          /\ result.optimized.amount.num
                                 = Weighted(mix, DOMAIN mix, price) * task[s].input.volume
            /\ \A m \in result.unpriced :
                   \/ \E v \in task[s].since .. task[s].until : m \notin DOMAIN registries[v]
                   \/ \E entry \in InForce(s, m) : ~HasKnownPricing(entry)
            /\ result.unpriced # {} => /\ result.saving = Unavailable
                                       /\ result.within_budget = Unknown
=============================================================================
