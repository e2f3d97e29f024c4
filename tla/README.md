# Verification of the manufacturing AI cost platform

TLA+ models of the platform's backend (`src/manufacturing-ai-cost-platform/backend/app`,
abbreviated `app/` below), the TLC runs that check them on small instances, and
TLAPS proofs of the properties that matter most for every instance.

`tlc -config X.cfg M` checks a run of module `M`; `tlapm M.tla` checks a proof
module.

## 1. The system

The backend is one asyncio process serving FastAPI routes. Every request gets
its own database session (`app/db/session.py:125-138`) that commits when the
handler returns and rolls back when it raises. Sessions load rows, hold them
across awaits, and flush only the columns that differ from what was loaded, by
primary key; no table has a version column and the tables that should have one
live row per key have no UNIQUE constraint. Whatever two requests do to the same
rows is therefore decided by the order of their awaits.

| Component | State it keeps | Operations | Talks to |
|---|---|---|---|
| Policy lifecycle (`services/policy_lifecycle.py`, `api/v1/routes/optimization.py`) | `optimization_recommendations`, `routing_policies`, `audit_events` | analyze, approve/reject, apply (full or canary), rollback | repositories, audit; its rows are what the orchestrator routes by |
| Orchestrator (`orchestrator/orchestrator.py`) | the plan of one execution | plan, primary call, fallback, record | budget gate, registry, routing policies, gateway, guardrails, telemetry recorder |
| Model gateway (`integrations/llm/client.py`) | circuit breaker: failures, opened-at, half-open | one logical call of several attempts | provider adapter, telemetry sink |
| Telemetry recorder (`telemetry/recorder.py`) | `usage_events`, `cost_events` | record an execution, in a session of its own | called by the orchestrator, failures swallowed |
| Model registry (`services/model_registry.py`) | `models` | candidate queries, seeding | read by orchestrator and fallback |
| Budgets (`services/budget_service.py`, `api/v1/routes/budgets.py`) | `budgets` | create, update, list with utilization | cost aggregation, budget policy |
| Budget policy (`policies/budget_policy.py`, `orchestrator/budget_gate.py`) | none: decision rules | classify, decide | budgets, cost aggregation; answers the orchestrator |
| Rate limiter (`core/rate_limit.py`) | hits per caller inside a window | check, retry-after, reset | the AI execution route |
| Identity, authorization and scope (`security/*`, `repositories/scope_filter.py`) | none | validate a token, map claims to roles, check a record, narrow a query | every route |
| Execution limits (`guardrails/limits.py`, `guardrails/tool_guard.py`) | counters of one execution, approved tools | consume tokens, tool calls, iterations; authorize a tool | nothing calls them yet |
| Cost engine and aggregation (`services/cost_engine.py`, `services/cost_aggregation.py`, `repositories/cost_repository.py`) | reads `usage_events`, `cost_events` | price usage, combine provenances; summary, breakdown, trend | recorder, budgets, cost pages |
| Workflows (`workloads/*`, `services/execution.py`) | one telemetry sink and one cost tracker shared by all | run maintenance and supply jobs, emit telemetry | gateway, cost tracker |
| Cost intelligence (`intelligence/*`, `services/cost_service.py`) | the state of one investigation | detect, investigate, propose; forecast, analytics worker | gateway, policy proposals |
| Optimization and simulation (`optimization/*`, `api/v1/routes/optimization.py`) | reads `models`, `cost_events`, writes recommendations | simulate a mix, rank strategies, insert a recommendation | registry, cost repository, policy lifecycle |
| Guardrails (`guardrails/input_guard.py`, `output_guard.py`, `context_guard.py`) | none | scan text | orchestrator |
| Frontend (`frontend/`) | none the backend relies on | | the HTTP routes |

Behaviours that are hard here, and the properties that make each part correct:

* **Overlapping sessions.** Two applies read the same latest version; a
  rejection commits between an apply's check and its commit. Correct: one live
  version per route, versions only from an authorised approval, an APPLIED
  recommendation never with a rolled-back version.
* **Protocols over several requests.** Rollbacks out of order, re-approval of an
  applied recommendation. Correct: rollback links always usable; live versions
  form a stack.
* **A breaker shared by calls that outlive each other.** Outcomes of calls
  admitted long ago arrive late. Correct: the circuit is open exactly after a
  streak of failures and is never stuck, and a permission to call is good for a
  bounded time.
* **Long awaits inside an execution.** The registry and the policy change while
  a model answers for seconds, and any await may raise. Correct: nothing is
  asked when blocked, what is asked was enabled, what is recorded is what ran.
* **Check-then-act on budgets**, thresholds written by two updates at once,
  spend measured query by query while costs are recorded, limits at their exact
  boundary. Correct: a second active budget and crossed thresholds arise only by
  the races named, a decision or a reported state is one of some moment of the
  request, the strictest limit decides.
* **Windows and counters at their exact boundary** (rate limiter, execution
  limits), and the promise made to a refused caller. Correct: no window and no
  ceiling is exceeded, whatever is called after a refusal, and the instant told
  is the instant a request is admitted again.
* **One rule, two renderings**: the scope of a caller as a SQL predicate and as
  a check of a loaded record. Correct: a query returns exactly what the check
  allows.
* **Figures made of several queries** while executions are recorded, and of rows
  of three provenances. Correct: each figure is the truth of its instant,
  nothing is counted twice, nothing estimated is called actual.
* **Executions that share a log** and suspend at their model call, where they
  may be answered, raise or be cancelled. Correct: each leaves one well-formed
  story and one cost per answer, and what a model inferred is marked as such.
* **A deadline around a chain of awaits**, and prices that change between the
  reads of one simulation. Correct: no finding without its evidence, no saving
  without prices, and an end to every investigation.

`PROJECT.json` lists every hazard at its line.

## 2. The modules

### PolicyLifecycle, PolicyRequests

`PolicyLifecycle` is the abstract specification: one action is one whole request.
`rec` and `policy` are the two tables (rows by id, status `ABSENT` before the
insert), `audits` counts `audit_events` rows. `origin` and `stray` are history
variables: which recommendation created a version, and whether a version that
was no longer live has ever been rolled back.

| Action | Code |
|---|---|
| `Analyze` | `analyze_optimization`, `optimization.py:117-167` |
| `Decide` | `approve_recommendation`, `policy_lifecycle.py:93-184`: role check, auto-approval of low risk, no look at the row's status, one audit row |
| `Apply` | `apply_policy`, `:204-312`: APPROVED and validated, supersede the live row, insert version + 1, link the recommendation |
| `Rollback` | `rollback_policy`, `:316-363`: restore the superseded row, mark the applied one and the recommendation |

A request answered with an HTTP error rolls back and is no step.

`PolicyRequests` extends it with the detailed specification: a request opens, reads row after
row, and commits what it changed. `Flushed` is the unit of work: a column is
written only if its value differs from the loaded one. `Abort` loses a request
anywhere. `AdmitOverlap = FALSE` admits one request at a time; that
specification implements `PolicyLifecycle` (`Lifecycle == INSTANCE PolicyLifecycle`,
`ImplementsLifecycle`).
With overlap the refinement holds step by step for every commit whose reads are
still true (`FreshCommitsAreAtomic`), which says exactly where atomicity is lost.

### ResilientGateway

Callers share one breaker. A call is admitted, makes up to `MaxAttempts`
attempts with backoffs, and ends with what it reports to the breaker. Time is in
ticks; ages saturate where the code stops comparing, and the time a call has
taken once no comparison can tell it from more (`Ceiling`). `Timeout` is the
longest silence of a provider: `httpx.Timeout` bounds each connect, read, write
and wait for the pool (`genailab.py:94-97`, `:181`), not the attempt made of them, so an
attempt that the provider keeps feeding (`Hear`) lasts for as long as it likes.
`Tick` cannot pass a timeout or wake-up that is due. `Lose` is a cancelled sleep
or a foreign exception, after which the breaker is told nothing. `recent` is a
history variable: the streak of failures and the ticks since the last.

| Action | Code (`client.py`) |
|---|---|
| `Begin`, `Refuse` | `_call` up to the first attempt, `allow` `:181-189` |
| `Hear` | the provider sends something and is waited for anew, in the adapter's `httpx` client |
| `Succeed` | `:396-411`, `record_success` |
| `Backoff`, `Wake` | `:358-394`, `_retry_delay`; the breaker is not asked again |
| `GiveUp` | `:358-379`, `record_failure` |
| `Lose` | `:354-358` |

### Orchestrator

One record per execution, flat: `pc` is the place in `execute`, `budget`,
`read`, `offered`, `selected` the plan, `primary` and `fallback` the models
called, `events` what the recorder committed. Steps are cut where the code
awaits something that can block; `SetEnabled` and `ChangePolicy` are other
sessions. `seen` is a history variable: the models enabled at some moment since
the request came. The sort of `_select_model` is a lexicographic order on
`SortKey`; ranks stand for scores, prices and names.

| Action | Code (`orchestrator.py`) |
|---|---|
| `EvaluateBudget`, `LoadPolicy`, `Choose` | `plan`, `:211-345`, and the two refusals of `execute`, `:195-204` |
| `CheckInput`, `PrimaryEnds` | `_execute_plan`, `:350-419`, `:446-458` |
| `FallBack`, `FallbackAnswers` | `:415-442`, `_fallback_model` |
| `Raise` | every exception nobody records |
| `Record` | `_record` and `TelemetryRecorder.record_execution` |

### BudgetPolicy, Budgets

`BudgetPolicy` has no state: it is the decision rules of
`policies/budget_policy.py` as operators, for any policy table. Percentages are
compared by cross-multiplication, which is what an exact `Decimal` division
amounts to.

`Budgets` composes them with the rows they are applied to. `row` is the table,
`ledger` the cost events joined with usage events (by day, place and
provenance), `today` the clock, `job` what each request has read and not yet
answered, `updates` bounds the updates. `stale` is a history variable: the
creates and updates whose check another commit has overtaken; `floor`, in the
job of a reader, is what had been spent when it listed the rows.

| Action | Code |
|---|---|
| `BeginCreate`, `CommitCreate` | `create_budget`, `budgets.py:173-228`: refuse if the scope has an active row, insert; thresholds are not compared |
| `BeginUpdate`, `CommitUpdate` | `update_budget`, `:233-289`: set the patch on the row as read, compare the thresholds, write the columns that differ |
| `BeginEvaluate` | `BudgetService.evaluate`, `budget_service.py:199-242`: list the active rows of the request's scopes, in one query |
| `BeginStatus` | `budget_status`, `budgets.py:294-317`: list rows of every status |
| `Measure` | `_to_limit`, `budget_service.py:256-292`: one row's spend, in a query of its own, for the period of the request's own instant |
| `Leave` | the answer, or the session lost |
| `RecordCost`, `NextDay` | the telemetry recorder; the clock (external) |

Rows are measured in any order, more orders than the loop has. Spend is in base
currency, and the amount of a budget or ceiling in its own: `ToBase` is
`currency.py:81-104`, with `Rates` the configured rates in units of spend, and
what has no rate is no limit anything can be compared with. The calendar is a
constant: for each period, which days fall together; `BudgetsAssumption` wants
finitely many days and places, and patches of the columns' types, which is what
the request schema admits. Two requests insert rows of
their own, so identifiers never collide. Left out: authorization (a missing
right is an error and no step), listing pages, and the gate of the orchestrator,
which hands on what it collects.

### Scope, Access

`Scope` is the authorization rules as operators: the grants of a token's roles,
the check of a loaded record (`authorization.py`), the branches a query is
constrained to and their SQL predicate (`scope.py`, `scope_filter.py`). `Access`
sends requests through it. `hits` is the limiter's deques, one per key; `now` the
clock; `granted` and `told` are history variables, the admissions of a caller
since its counter was cleared and the instant a refused caller was told; `answer`
is the response just given. A key is the parts of tenant and subject joined end
to end, as `rate_limit.py:116` joins them with a colon and escapes none in them;
`KeyAssumption` says that no two callers of the instance join alike, and it is
where the properties of the limiter stop: see section 4.

| Action | Code |
|---|---|
| `Handle` with an execution | token validation, `rate_limit.py:68-118`: drop what left the window, refuse or record |
| `Handle` with a query or a record | `require_permission`, `narrow`, the predicate and the record check |
| `Clear` | `reset` of one key, or a restart, which forgets all of them |
| `Tick` | the clock |

None of these handlers suspends before its answer, so a request is one step.

### CostEngine, Costs

`CostEngine` is `compute_cost` without its wording: the rate of a unit, token,
tool and infrastructure cost, and the provenance of a total. `Costs` records
executions and reads pages of them. `doing` is the work of each execution,
`pending` its rows not yet committed and `usage`, `costs` the two tables; `page` is a cost
page being assembled, a query at a time. Sums, here and in `Budgets`, are those of
`Sums`. `CostsAssumption` says that the callers of a page hold scopes of the
shape `principal.py` builds, and that filters are a plant, a department, an
instant or absent.

| Action | Code |
|---|---|
| `Execute`, `Commit`, `Lose` | `recorder.py`: build both rows, commit them together, or lose both |
| `OpenPage`, `AddBreakdown`, `AddTrend`, `ClosePage` | `cost_aggregation.py`, `cost_repository.py`: the summary, a breakdown by one dimension, a trend, each with its own join and scope |

### Maintenance, SupplyPlan, Workflows

`Maintenance` and `SupplyPlan` are the two deterministic halves as operators:
z-scores by cross-multiplication, anomaly rules and escalation; shortages,
supplier choice, routes, budget pressure and the verdict of a plan. `Workflows`
is `AIExecutionService` over both. `events` and `records` are the shared log and
the shared tracker, `phase`, `job` and `output` one execution each. An execution
suspends only at the gateway, so it is one step up to the call (`RefuseUnknown`,
`RefuseInvalid`, `FailAnalysis`, `RunToEnd`, `AskModel`) and one from there on
(`Answer`, `GatewayFails`, `Cancel`). `WorkflowsAssumption` says that readings are
integers or unreadable and that the input of a plan is what the normalisation
and the context filters hand on (`IsInput`): finitely many items, quantities that
are numbers, and prices, lead times, risks, transit times and a limit that may be
missing. A supplier's merit is given for each item, since the composite score
weighs the price of the item.

### ExecutionLimits

`ExecutionBudget` and `ToolGuard`, driven by the most general caller because
the application has none: any method at any time, also after a refusal. `used`
counts what was consumed, `granted` (history) what was let through, and
`approved` the tools a human approved. Registry rows may be of unknown risk or
role, and their lists may not parse (`Garbled`): `FromRecord` is how the guard
reads them.

### CostAnomaly, WhatIf, Strategies, Advice

The first three are pure: the history and detector of abnormal spend, the
what-if arithmetic over exact fractions, and the six scored strategies. `Advice`
runs them as sessions over registries that change. `registries` is the history
of the model registry, so that a property can speak of every price in force
while a simulation ran; `spend` the recorded costs; `task` a session's place and
what it has read. An anomaly and a proposal are sequences of at most one, empty
where the code has None; `Unknown` is the None of a price or a figure, `Absent`
that of a metric. `AdviceAssumption` says that mixes are sequences, which the
proofs use, and that the means and deviations of the histories given are whole,
which they do not.

| Action | Code |
|---|---|
| `Investigate`, the nodes from `LoadHistoricalCost` to `EvaluateRisk`, `TimeOut` | `cost_investigation_graph.py:132-527`: eight nodes under one `wait_for` |
| `AskModel`, `Answer`, `GatewayRaises` | the call in its root-cause node |
| `LoadBaseline`, `ReadModel`, `Simulate` | `optimization.py:356-457`: spend first, then a model at a time, then the arithmetic |
| `CheckWorkload`, `InsertRecommendation` | `analyze_optimization`, `optimization.py:117-168`, two database sessions |
| `FillIn`, `RegisterSeedModels`, `Record` | an operator's edit, `model_registry.py` seeding, the recorder |

## 3. The runs

| Run | Question | Bounds |
|---|---|---|
| `PolicyLifecycle` | Is there one live version, over a stack of dormant ones, for as long as rollbacks are in order? | four recommendations of one route (one auto-approved, one failing validation), three new versions, four decisions, a seeded row of another complexity |
| `PolicyRequests` | What still holds when two requests interleave? | two requests, two recommendations, two versions, three decisions |
| `PolicyRequestsSerial` | Does the read-then-commit code implement the atomic lifecycle when served serially, aborts included? | as above, three versions, an approver and a viewer |
| `ResilientGateway` | Does the circuit follow the consecutive outcomes, how late may a retry begin, does the circuit recover? | two callers, threshold 2, three attempts, window 3, ceiling 3, timeout 2 |
| `Orchestrator` | Do what is asked, what it costs and what is recorded agree, and does every execution end? | one execution, three models (one unrated, one unpriced, one untimed), three policies, every budget outcome |
| `OrchestratorUnrecorded` (violation) | Is an execution that asked a model always recorded? No. | as above |
| `Budgets` | Are decisions and reported states true of some moment of the request, and how can a scope get a second active budget or crossed thresholds? | two requests, one of them measuring at a time; two budgets of a tenant and a plant inside it, one offer with crossed thresholds one in a currency worth two units of spend and one in a currency without a rate; two days in one month; two sources of cost, one unit per cell of the ledger; two updates |
| `Access` | Does the limiter keep its ceiling and its word, and does a query see what the record check allows? | four tokens of two tenants that name a subject alike, one expiring and one not yet valid; two requests per window of two; clock to 3; rows with and without plant and department |
| `Costs` | Are the figures of a page true while executions are recorded, and is nothing called actual that is not? | two executions of six kinds of work (measured, estimated, unavailable, with and without rates and tools); three callers; clock to 2 |
| `Workflows` | Does each execution leave one story and one cost per answer in a shared log, and what bounds a plan that goes ahead unapproved? | two executions of any of nineteen jobs: readings at, below and above their thresholds, plans at, over and out of budget, an item wholly out of stock, figures that are missing |
| `ExecutionLimits` | Are the ceilings kept by a caller that does not stop at a refusal, and does a tool run only by its row, unreadable ones included? | ceilings of 2 and 3, counts of 0, 1 and 3, seven tools, of low, high and unknown risk, with lists that parse or not; clock to 3, counter to 6 |
| `Advice` | Are findings backed by evidence and savings by prices, and does every investigation end? | one session of any of the three kinds; two models that start unpriced and three registry rows to write; ten observations, three histories, six mixes; four versions of the registry, two recorded costs |

Why the bounds are enough: the policy hazards need two recommendations and a
third to interleave rollbacks of a stack of depth three; a race needs two
requests; the breaker's hazards need one call that outlives another and one
attempt more than the threshold; executions do not read each other's state, so
one of them with a moving registry shows what several would; a budget row is
overtaken by one other request, and a reader by one writer and the two external
actors; one unit of spend is a half of the wider budget, all of the narrower,
and so meets each threshold from below and exactly. The theorems of section 5
cover every other size. For the rest: a window of two and two requests is the
smallest in which a deque holds more than one entry, loses one and keeps one;
two executions are enough to interleave in a shared log, since an execution
reads only its own entries; a page and two executions show a figure taken
before and after a row; two models are a mix. Sessions of `Advice` read nothing
another session writes, so one of them among the external actors shows what
several would.

Fairness. `ResilientGateway`: time passes and timers fire (the event loop),
attempts succeed once the provider is well, and callers keep coming;
`Recovers` is conditional on the provider staying well and needs nothing of
`GiveUp` or `Lose`. `Orchestrator`: weak fairness of each execution's next step,
which assumes that a provider asked answers, fails or falls silent, and that
queries end: a silent one is given up after `Timeout`, one that drips for ever
is not, and an execution that waits for it does not end. `Advice`: weak
fairness of `TimeOut` alone, the timer of `asyncio.wait_for`; nothing is asked of
the model or of the nodes, so `InvestigationsEnd` holds even if the gateway never
answers. Nothing is
assumed fair in the policy modules and no liveness is claimed there: nobody is
obliged to decide or to apply. Their runs do not check deadlock, because a
bounded number of decisions and versions runs out; nor does the gateway's,
where time always can pass. `Budgets` claims no liveness either, and its run
does check deadlock: some request can always begin, go on or leave. `Access` and
`Costs` check deadlock too; `Workflows`, `ExecutionLimits` and `Advice` do not,
because executions, calls and requests are finite in number there.

Type invariants are not among the runs' properties: those of the modules with
proofs are conjuncts of the proved invariants.

Each property has a mutant in its module, a plausible bug of the mapped
definition, that breaks it.

## 4. Disagreements between the code and what is said of it

One violation run is a finding of `PROJECT.json`: an execution that asked a
model may end by an exception nothing records, although `_record` promises
telemetry "for every execution, including refusals". The others met while
modelling are listed here; none of them is assumed away by the models.

Policies.
* Rolling back out of order leaves a route with two ACTIVE rows
  (`policy_lifecycle.py:346`), after which the orchestrator's lookup
  (`routing_policy_repository.py:36-44`, `scalar_one_or_none`) raises; a test
  says it "resolves a single active policy" (`tests/test_demo_dataset.py:148`).
* A canary is stored as CANARY (`policy_lifecycle.py:265`) and the orchestrator
  looks for ACTIVE only, so that after a canary activation it resolves no policy:
  "an applied policy is visible to the next execution"
  (`tests/test_e2e_platform.py:497`) is true of full activations.
* A rejection that commits between the status check of an apply
  (`policy_lifecycle.py:219`) and its commit is overwritten with APPLIED;
  "applying unapproved recommendations is strictly rejected" (`:12`) holds of
  requests that do not overlap. Two overlapping applies can number two versions
  alike.
* `approve_recommendation` does not look at the row's status although its route
  says "pending". Activation and rollback write no audit event (`:174` is the
  only one) although the module says every state change is audited.

Gateway and orchestrator.
* Every caller that arrives once the window is over is let through, where the
  comment says "exactly one probe" (`client.py:186-188`); retries of calls
  admitted earlier go out while the circuit is open (`:393`).
* `max_elapsed_seconds` is called the "Total wall-clock ceiling across all
  attempts" (`client.py:81`) and is compared before a backoff only: the attempt
  that follows may begin up to one backoff later (`NoLateAttempt`), and lasts as
  long as the provider sends something within each of its phases
  (`genailab.py:94-97`, `:181`). A call has no total bound.
* The fallback is chosen without the policy's quality floor and pin
  (`orchestrator.py:644`) although "a fallback is a different model, not a
  relaxation of the requirements" (`:641`).
* A REQUIRE_APPROVAL plan is executed like an allowed one (`:195`); an unrated
  model ties with one rated 0.0 (`:625`).
* Budgets are evaluated before the execution they authorise is costed (`:257`),
  so concurrent executions would be authorised against the same spend; today the
  limit source they are wired to returns none (`ai_execution.py:161`, which says
  so itself), and no route calls `BudgetService.evaluate`.

Budgets.
* `create_budget` accepts thresholds that `update_budget` would refuse. Two
  overlapping creates, or an update that sets ACTIVE again, leave a scope with
  two active rows, after which `get_for_scope` raises for every further create
  there; "two would make the decision depend on which row was read first" is not
  so, since the decision is taken on a sort by severity, scope and id.
* A PATCH may set EXCEEDED, a status the evaluation does not list, so that the
  row stops counting; a projected breach asks for approval even where a limit
  already CRITICAL is configured to block, so that the request that would exceed
  the budget is treated more leniently than one that would not.

Access.
* The limiter's `check` says "record an attempt"; a refused attempt is not
  recorded (`rate_limit.py:52`), which is what keeps the promise to the caller.
* The counter is "keyed on the authenticated principal" (`rate_limit.py:112`), but
  the key joins tenant, subject and route with colons and escapes none in them
  (`:116`), so callers whose identifiers contain colons can share a counter.
* With `rate_limit_enabled` off, the null limiter admits everyone; not modelled.

Costs.
* The orchestrator hands over no total, and its estimate returns the model's
  `cost_unit` as a currency (`orchestrator.py:688`); `compute_cost` is called by
  tests only. The average per request divides by every request, blocked and
  failed ones too. Both ends of a window are inclusive, so a row at the border of
  two windows is in both. The aggregation labels sums with the base currency
  without converting.

Workflows.
* A cancelled execution leaves no terminal event (`docs/AI_WORKFLOWS.md:417`:
  "Every execution emits telemetry."); `llm.call_failed` is never emitted. A
  call whose price is unknown is tracked as 0.0 ESTIMATED, where
  `tracker.py:7-9` says UNAVAILABLE.
* Any anomaly scores 1.0, so the medium and high tiers below it are unreachable;
  a supplier without a price or lead time raises, and so does a route without a
  cost or transit time, because the context filter puts None where the optimizer
  would use its default; a BLOCK verdict comes after the model has
  been asked; items nobody supplies are ordered at no cost; the capacity and
  lead-time constraints are read and not used.
* "High-risk actions (critical stockout, supplier switching, severe budget
  overrun) require explicit human policy approval" (`supply_chain.py:19-20`).
  `CRITICAL_STOCKOUT_THRESHOLD`, "If shortage is > 50% of safety stock" (`:56`),
  is never read: one or two items wholly out of stock, within the bound on the total
  shortage, are a medium risk and go ahead unapproved, as `UnapprovedIsBounded`
  says of them. `HIGH_BUDGET_OVERRUN_THRESHOLD` (`:58`) is never read either, and a
  supplier's risk is compared with >= where `:57` says >; both make the code stricter.

Limits.
* `ExecutionBudget` and `ToolGuard` are called by tests only. The deadline is
  compared when an iteration is consumed and nowhere else. A tool read from the
  registry declares no parameters and is refused any.
* "An unrecognised entry must never widen access" (`tool_guard.py:88`) is kept for
  roles and risks. A list of workloads that does not parse is read as an empty
  one (`:131-136`), and an empty one restricts nothing (`:115`): the tool runs for
  every workload. `RunsByItsRow` says so.

Investigation, simulation, analysis.
* A saving is 40% of a default cost of 50 when none was observed; a cost given as
  None raises at the seventh node, after the model was paid; the risk follows
  the first anomaly found and not the worst; only upward deviations are found
  though the detector says "spike or drop"; `_max_iterations` is never read.
* Shares of a mix need not sum to 100, so a mix of 10% of one model is costed at a
  tenth of its price ("Unknown is never zero" is kept for prices, not for shares); a model
  missing from the registry counts as LOW risk where the docstring says unknown
  is MEDIUM; a rate per cost unit is multiplied by requests.
* The analyze route passes neither cost nor priority, so it always recommends
  model routing with the same saving, 45% of a default of 1000; an empty workload
  id skips the check and fails on the foreign key.

## 5. What is proved

For every value of the constants, from the named assumptions of each module
(which TLC evaluates in the runs):

* `PolicyProofs`, in three parts. Of the atomic requests: `LifecycleInv` joins the
  type invariant, well-formed links, one live row and the stack while in order,
  approvals by right, approved versions and standing applications. The stack is
  what makes "one live row" inductive: a rollback may restore its predecessor
  only because that row is SUPERSEDED, by this recommendation alone, and the live
  row it replaces is the one rolled back. Theorems for each conjunct, and the two
  action properties `VersionsOnlyGrow` and `RolledBackIsFinalInOrder`.
  Of overlapping requests: `RequestInv` says what the rows keep under any
  interleaving (a name on a recommendation is that of someone entitled, its links
  lead to versions that exist and go on existing) and what an open request has loaded at each place
  it can stand (`Loaded`), though another commit may since have changed it. That
  is enough for `VersionsWereApproved` and `VersionsAreImmutable`, and for the step
  the refinement rests on: a commit whose reads are still true is one action of
  `PolicyLifecycle` (`FreshCommit`), column by column, because a column left
  unwritten is one whose value was right already.
  Of requests served one by one: `SerialInv` says that what a request has read
  is still so and that the others are idle; hence every step of the detailed
  specification is a step of the abstract one or a stutter
  (`SerialRequestsRefine`), and one live row follows from the first part.
* `ResilientGatewayProofs`. `IInv` relates the breaker's own count and clock to
  the history, bounds when a backoff may end by the ceiling and one delay
  (`TimeLeft`), dates the admission of a call before an opening it still sees
  (`AdmittedBefore`), and says busy calls have no outcome. Theorems: types (and so
  the attempt bound), open exactly after a streak, half-open only after quiet, no
  retry begins later than the ceiling and one backoff, or in an open circuit
  unless its call was admitted before (`NoAttemptIsLate`), refusals are fresh.
* `OrchestratorProofs`. `IInv` says, for each execution, what it holds at each
  place it can stand (`Placed`), that a blocked one stopped, that what it holds
  it has seen enabled, that a downgraded one chose the cheapest candidate
  (from the sort order, lemma `FirstIsCheapest`), and that what is about to be
  recorded already tells what ran. Theorems for the safety invariants of the run
  and for two more: a blocked execution asks no model, and a fallback is another
  model than the first.
* `SumsProofs`. A sum is a fold over a set, whose recursion the library defines by
  a CHOOSE. The lemmas show that the recursion has a solution, by looking at a
  smallest subset on which it has none, and from there that a sum takes its
  elements in any order, splits over disjoint sets and over groups, grows with
  what is added, and is the same under other names for what is summed; and that
  of a finite set one element is largest by any measure.
* `BudgetsProofs`. First the rules alone: no limit asks for more than what is
  decided, more limits never loosen a decision, a limit that cannot be compared
  is never permission, a spent limit blocks (given a table that blocks on
  EXCEEDED), what goes ahead leaves every limit below its amount, the threshold
  state grows with spend, and under the default table so does the severity. That a
  first limit exists in the sort order follows from there being finitely many
  outcomes and scope types, whatever the number of limits.
  Then the rows: `IInv` joins their types with what open requests still know: a
  create that nothing overtook still finds its scope without an active row, an
  update that nothing overtook still finds the row it read. Both action
  properties follow from it.
  Then the figures: `SpendInv` says that what a request measured of a row lies
  between all that had been recorded in the row's period when the rows were
  listed and all that is recorded now (`InTime`). The two queries of `_to_limit`
  add up to that total (`SpentIsTotal`), and recording only raises it. So a
  budget spent at listing time blocks, a block has a limit spent by now (or a
  request whose own ceiling is nothing), and a state reported is that of some spend in between. The first needs a table that
  blocks on EXCEEDED, the second one that blocks on nothing else; both are the
  shipped table.

* `AccessProofs`. First, without state: for any claims, any narrowing and any row,
  the predicate of the query selects the row exactly when the record check passes
  (`FilterAgreesWithRecordCheck`), by cases on the assignments of the caller.
  Then `AccessInv`: the deque of a caller is a suffix of its admissions, ordered in
  time; what precedes it has left the window; a promise still standing is the
  instant at which the oldest entry of a full deque leaves. That a deque is one
  caller's is `KeyAssumption` (lemma `OwnKey`). Theorems for all five properties of
  the run.
* `SpendProofs`, in two parts. Of `Costs`: `NeverFabricated` says of `compute_cost`, for any usage, rates,
  tools and allocation, that ACTUAL means measured tokens at configured rates
  with no estimate in the total. `CostsInv` says that what waits or is stored was
  built from the work of its execution, which ran once; pairing and provenance
  of the stored rows follow. `CostPageInv` adds what a page is made of: its query
  finds, one for one, the rows of the executions its caller may open (by the
  argument of `AccessProofs`, shown again because `Costs` takes the rules of scope
  by INSTANCE), and what it knows keeps its rows while others are recorded. So a
  summary is the truth about those executions at its instant, in all five
  figures, and the groups of a breakdown or a trend share the same rows among
  them: they add up to the summary, to no less when more was recorded between.
  Of `Advice`: `AdviceInv` tells what each session knows at its place. For an
  investigation it is told by the number of nodes that ran (`InProgress`): the baseline is
  that of its history once the first has, an anomaly is held exactly if the metrics
  are abnormal once the second has, no saving is held before the seventh, none at
  all without an anomaly, and past the fifth an anomaly means an answer of the
  model. The last clause is why `ClaimsHaveEvidence` can say "exactly when"; the
  deadline throws all of it away but the metrics and the history, of which alone
  abnormality is told. For a simulation (`Gathered`) it is about the past of the
  registry: each price found was in force at some moment since the spend was read,
  and each model of the mix is found, or was absent at some such moment, or is yet to
  be read at its first mention (`FirstMention`). The registry only gains states, so a
  price that changes afterwards takes none of this away (`KnownGrows`).
  `SavingIsOfRealPrices` then has the prices found for its witness: where a saving is
  claimed the arithmetic had no unpriced model (`SavingIsOfKnown`), and a blend depends
  on the prices of its models only (`SamePricesSameBlend`, from `SumsProofs`).
* `ExecutionProofs`, in two parts. Of `ExecutionLimits`: `LimitsInv` joins the
  properties with `RefusalIsCounted`: a refusal of tokens leaves the counter beyond
  the ceiling. That the counter is raised before it is compared is what makes
  refusals final. That a tool runs by its row follows from how a row is decoded.
  Of `Workflows`: what a property reads off the shared log about one execution is
  kept by no step on its own account; `StoryInv` tells, for each phase, which
  events the log has of the execution, once each, which is first and which last,
  what is recorded for it and what it returned. A step appends a run of events of
  one execution, so it extends that story (`Emitting`, `SetsOff`, `GoesOn`) and leaves every other one
  alone (`Kept`). `OneEnding`, `PaidCallsAreRecorded` and `InferenceIsMarked`
  follow by counting. `UnapprovedIsBounded` needs the rules besides: an anomaly
  uses up its threshold, so the score is full and the risk critical whatever else
  is read (`AnomalyIsCritical`, which is also why the lower tiers are unreachable);
  a plan of a proper input whose analysis does not raise has a price
  (`PlanIsPriced`: the sorts have a first, `BestIsOne`, and the sums are numbers),
  so that a test which did not ask for an approval bounds it.

## 6. Only model-checked, and not modelled

Only model-checked: liveness (`Recovers`, `Ends`, `InvestigationsEnd`), which is
out of the provers' reach. Every other property of a passing run is also a
theorem. What TLC alone says of the operators of `CostAnomaly`, `Strategies` and
the folds over sequences is what the runs evaluate: the proofs of `Advice` hold for
any detector, since they ask only that the same metrics are judged alike.

Abstracted everywhere: text, logging, identifiers, timestamps other than the
clocks of the gateway, the limiter, the budgets and the cost pages. Tenants
matter to access and costs only; in the other modules a key stands for tenant
and scope.

Not modelled:
* the guardrails' text scanning: pattern tables over strings. Their decisions
  enter the orchestrator as outcomes;
* the forecaster, a regression over floats, and the analytics worker, which
  stores what detector and forecaster return; a repeated run stores it again;
* the provider adapter's encoding and decoding, the mock gateway, the complexity
  classifier and prompts;
* role checks by list (`RequireRoles`), which no route uses; signature and key
  resolution of tokens, a library's work;
* configuration, migrations, HTTP plumbing and the frontend.

## 7. How it grew, and what could follow

The modules were written in the order of section 2: what is routed and what may
be asked first, then budgets, access, costs, and the workflows and advice built
on them; the theorems came after, module by module, and brought some
definitions into the form they have (sums over sets, sequences of at most one).
What could follow: two sessions in `Advice`, once an application of a
recommendation feeds back into what the next simulation reads; today none does.
