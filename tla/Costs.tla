------------------------------- MODULE Costs -------------------------------
(***************************************************************************)
(* How the cost of an execution reaches a report: the recorder writes one  *)
(* usage event and one cost event in a session of its own                  *)
(* (telemetry/recorder.py); the cost pages join, scope and sum them        *)
(* (repositories/cost_repository.py, services/cost_aggregation.py), one    *)
(* query for each figure, while other executions are recorded.             *)
(*                                                                         *)
(* The result handed to the recorder carries what the cost engine makes of *)
(* the execution, as in the recorder's tests; today's orchestrator hands   *)
(* over only results without a total, which are among these.               *)
(***************************************************************************)
EXTENDS CostEngine, Sums

CONSTANTS
  Tenants, Subjects, Plants, Departments,
  Executions,   \* executions that may be recorded
  Work,         \* what an execution is and what it used
  Questions,    \* what a cost page is asked: caller, plant, department, from, to
  MaxTime,      \* bound: the clock stops there
  BucketOf      \* for each granularity, the bucket of an instant

INSTANCE Scope

Dimensions == {"model", "agent", "plant"}
Granularities == DOMAIN BucketOf

ASSUME CostsAssumption ==
  /\ MaxTime \in Nat
  /\ None \notin Tenants \union Plants \union Departments /\ None \notin Work
  /\ \A w \in Work :
       /\ w.outcome \in {"success", "blocked", "no_model", "error"}
       /\ w.usage \in TokenUsage /\ w.pricing \in ModelPricing /\ w.tools \in ToolUsage
       /\ w.infrastructure \in Optional(Nat) /\ w.estimate \in Optional(Nat)
  /\ \A q \in Questions :
       /\ HasPermission(q.caller, "cost:read") /\ WellScoped(q.caller)
       /\ q.plant \in Optional(Plants) /\ q.department \in Optional(Departments)
       /\ q.from \in Optional(Nat) /\ q.to \in Optional(Nat)

VARIABLES
  now,      \* the clock
  doing,    \* the work of each execution, None before it ran
  pending,  \* rows of record_execution not yet committed
  usage,    \* usage_events
  costs,    \* cost_events
  page      \* what an open cost page shows

vars == <<now, doing, pending, usage, costs, page>>

NoPage == [shown |-> "nothing"]

UsageEvent ==
  [id: Executions, at: Nat, tokens: Optional(Nat), status: {"SUCCESS", "BLOCKED", "FAILURE"}]
CostEvent ==
  [of: Executions, estimated: Optional(Nat), actual: Optional(Nat), provenance: Provenances]

Init ==
  /\ now = 0
  /\ doing = [e \in Executions |-> None]
  /\ pending = [e \in Executions |-> {}]
  /\ usage = {}
  /\ costs = {}
  /\ page = NoPage

-----------------------------------------------------------------------------
(* Recording.                                                               *)

\* An execution that asked no model has no result, and so no cost.
Result(w) ==
  IF w.outcome = "success"
  THEN LET c == ComputeCost(w.usage, w.pricing, w.tools, w.infrastructure)
       IN  [amount |-> c.total, provenance |-> c.provenance,
            tokens |-> IF None \in {w.usage.input, w.usage.output} THEN None
                       ELSE w.usage.input + w.usage.output]
  ELSE [amount |-> None, provenance |-> "UNAVAILABLE", tokens |-> None]

Status(outcome) ==
  CASE outcome = "success" -> "SUCCESS" [] outcome = "blocked" -> "BLOCKED" [] OTHER -> "FAILURE"

BuildUsageEvent(e, w) ==
  [id |-> e, at |-> now, tokens |-> Result(w).tokens, status |-> Status(w.outcome),
   tenant |-> w.tenant, plant |-> w.plant, department |-> w.department,
   model |-> w.model, agent |-> w.agent]

\* A row that is not an estimate keeps the estimate of the plan beside it.
BuildCostEvent(e, w) ==
  LET r == Result(w)
  IN  [of |-> e, provenance |-> r.provenance,
       estimated |-> IF r.provenance = "ESTIMATED" THEN r.amount ELSE w.estimate,
       actual |-> IF r.provenance = "ACTUAL" THEN r.amount ELSE None]

\* An execution ends and its rows are built, stamped with this instant.
Execute(e, w) ==
  /\ doing[e] = None
  /\ doing' = [doing EXCEPT ![e] = w]
  /\ pending' = [pending EXCEPT ![e] = {[usage |-> BuildUsageEvent(e, w),
                                         cost |-> BuildCostEvent(e, w)]}]
  /\ UNCHANGED <<now, usage, costs, page>>

\* Mutant: the usage event is committed first, the cost event by a step of its own.
CommitUsageFirst(e) ==
  \E rows \in pending[e] :
    /\ \/ rows.usage \notin usage /\ usage' = usage \union {rows.usage} /\ UNCHANGED <<costs, pending>>
       \/ /\ rows.usage \in usage
          /\ costs' = costs \union {rows.cost}
          /\ pending' = [pending EXCEPT ![e] = {}]
          /\ UNCHANGED usage
    /\ UNCHANGED <<now, doing, page>>

Commit(e) ==
  \E rows \in pending[e] :
    /\ usage' = usage \union {rows.usage}
    /\ costs' = costs \union {rows.cost}
    /\ pending' = [pending EXCEPT ![e] = {}]
    /\ UNCHANGED <<now, doing, page>>

\* A failed flush or commit is rolled back and swallowed; a crash does the same.
Lose(e) ==
  /\ pending[e] # {}
  /\ pending' = [pending EXCEPT ![e] = {}]
  /\ UNCHANGED <<now, doing, usage, costs, page>>

Tick ==
  /\ now < MaxTime
  /\ now' = now + 1
  /\ UNCHANGED <<doing, pending, usage, costs, page>>

-----------------------------------------------------------------------------
(* Reporting.                                                               *)

Joined == {[usage |-> u, cost |-> c] : u \in usage, c \in costs}

\* Both bounds of the window belong to it.
BaseSelect(q, plant, department) ==
  LET branches == Resolve(q.caller, "cost:read", plant, department)
  IN  {r \in Joined :
         /\ r.cost.of = r.usage.id
         /\ Selects(q.caller.tenant, branches, r.usage)
         /\ q.from = None \/ q.from <= r.usage.at
         /\ q.to = None \/ r.usage.at <= q.to}

\* Mutant: a column is summed whatever the provenance of its row.
SumWhereKnown(rows, column, provenance) ==
  SumOver([r \in rows |-> Charged(r.cost[column])], rows)

SumWhere(rows, column, provenance) ==
  SumOver([r \in rows |-> Charged(r.cost[column])],
          {r \in rows : r.cost.provenance = provenance})

TotalsColumns(rows) ==
  [actual      |-> SumWhere(rows, "actual", "ACTUAL"),
   estimated   |-> SumWhere(rows, "estimated", "ESTIMATED"),
   unavailable |-> Cardinality({r \in rows : r.cost.provenance \notin {"ACTUAL", "ESTIMATED"}}),
   requests    |-> Cardinality({r.usage.id : r \in rows}),
   tokens      |-> SumOver([r \in rows |-> Charged(r.usage.tokens)], rows)]

Summary(q) == TotalsColumns(BaseSelect(q, q.plant, q.department))

AveragePerRequest(totals) ==
  IF totals.requests <= 0 THEN None
  ELSE (totals.actual + totals.estimated) \div totals.requests

GroupBy(rows, Key(_)) ==
  [k \in {Key(r) : r \in rows} |-> TotalsColumns({r \in rows : Key(r) = k})]

\* Mutant: what names no model, agent or plant is left out.
BreakdownOfNamed(q, dimension) ==
  LET rows == IF dimension = "plant" THEN BaseSelect(q, None, None)
              ELSE BaseSelect(q, q.plant, q.department)
  IN  GroupBy({r \in rows : r.usage[dimension] # None}, LAMBDA r : r.usage[dimension])

\* The group None holds what names no model, agent or plant; the page by plant
\* takes no filter.
Breakdown(q, dimension) ==
  LET rows == IF dimension = "plant" THEN BaseSelect(q, None, None)
              ELSE BaseSelect(q, q.plant, q.department)
  IN  GroupBy(rows, LAMBDA r : r.usage[dimension])

Trend(q, granularity) ==
  GroupBy(BaseSelect(q, q.plant, q.department), LAMBDA r : BucketOf[granularity][r.usage.at])

\* A page asks for its summary, and then for its parts, one request at a time.
OpenPage(q) ==
  /\ page = NoPage
  /\ Resolve(q.caller, "cost:read", q.plant, q.department) # {}
  /\ page' = [shown |-> "summary", q |-> q, summary |-> Summary(q), known |-> usage]
  /\ UNCHANGED <<now, doing, pending, usage, costs>>

AddParts(parts) ==
  /\ page' = [shown |-> "parts", q |-> page.q, summary |-> page.summary, known |-> page.known,
              parts |-> parts, later |-> usage]
  /\ UNCHANGED <<now, doing, pending, usage, costs>>

\* The page by plant is compared when nothing is filtered.
AddBreakdown(dimension) ==
  /\ page.shown = "summary"
  /\ dimension = "plant" => page.q.plant = None /\ page.q.department = None
  /\ AddParts(Breakdown(page.q, dimension))

AddTrend(granularity) == page.shown = "summary" /\ AddParts(Trend(page.q, granularity))

ClosePage ==
  /\ page # NoPage
  /\ page' = NoPage
  /\ UNCHANGED <<now, doing, pending, usage, costs>>

Next ==
  \/ \E e \in Executions : (\E w \in Work : Execute(e, w)) \/ Commit(e) \/ Lose(e)
  \/ Tick
  \/ \E q \in Questions : OpenPage(q)
  \/ \E d \in Dimensions : AddBreakdown(d)
  \/ \E g \in Granularities : AddTrend(g)
  \/ ClosePage

Spec == Init /\ [][Next]_vars

-----------------------------------------------------------------------------
(* Properties.                                                              *)

(***************************************************************************)
(* A usage event and its cost event are committed together or not at all,  *)
(* once for an execution, whatever fails: spend that cannot be priced is   *)
(* counted, not lost (record_execution, _build_cost_event).                *)
(***************************************************************************)
RecordedTogether ==
  /\ {u.id : u \in usage} = {c.of : c \in costs}
  /\ \A e \in Executions :
       /\ Cardinality({u \in usage : u.id = e}) <= 1
       /\ Cardinality({c \in costs : c.of = e}) <= 1
       /\ pending[e] # {} => \A u \in usage : u.id # e

(***************************************************************************)
(* "Never fabricate an actual cost" (cost_engine.py): a row says ACTUAL    *)
(* only of tokens the provider reported, at configured rates in a known    *)
(* unit, with no tool or infrastructure estimate in it.                    *)
(***************************************************************************)
ActualIsMeasured ==
  \A c \in costs :
    LET w == doing[c.of]
    IN  c.actual # None \/ c.provenance = "ACTUAL" =>
          /\ w.outcome = "success"
          /\ w.usage.source = "PROVIDER_REPORTED"
          /\ None \notin {w.usage.input, w.usage.output, w.pricing.input, w.pricing.output,
                          Unit(w.pricing)}
          /\ w.infrastructure = None
          /\ w.tools.calls = 0 \/ w.tools.rate = None

\* The executions behind some of the usage events that the caller may each
\* open by itself, within the bounds.
Reachable(q, events) ==
  {e \in Executions : \E u \in events :
     /\ u.id = e
     /\ CanAccess(q.caller, doing[e], "cost:read")
     /\ q.plant \in {None, doing[e].plant} /\ q.department \in {None, doing[e].department}
     /\ q.from = None \/ u.at >= q.from
     /\ q.to = None \/ u.at <= q.to}

Cost(e) ==
  LET w == doing[e] IN ComputeCost(w.usage, w.pricing, w.tools, w.infrastructure)

Tokens(e) ==
  LET w == doing[e]
  IN  IF w.outcome # "success" \/ None \in {w.usage.input, w.usage.output} THEN 0
      ELSE w.usage.input + w.usage.output

(***************************************************************************)
(* A summary is the truth about the executions recorded when it was read   *)
(* that its caller may see one by one: each is counted once, as actual, as *)
(* estimated or as unavailable, and an estimate of the plan beside another *)
(* figure is never added; the tokens of all of them are counted, priced or *)
(* not (_totals_columns).                                                  *)
(***************************************************************************)
SummaryIsTheTruth ==
  page # NoPage =>
    LET seen    == Reachable(page.q, page.known)
        ran     == {e \in seen : doing[e].outcome = "success"}
        priced(p) == {e \in ran : Cost(e).provenance = p}
    IN  /\ page.summary.actual
             = SumOver([e \in ran |-> ActualCost(Cost(e))], priced("ACTUAL"))
        /\ page.summary.estimated
             = SumOver([e \in ran |-> EstimatedCost(Cost(e))], priced("ESTIMATED"))
        /\ page.summary.unavailable
             = Cardinality(seen \ (priced("ACTUAL") \union priced("ESTIMATED")))
        /\ page.summary.requests = Cardinality(seen)
        /\ page.summary.tokens = SumOver([e \in seen |-> Tokens(e)], seen)
        /\ AveragePerRequest(page.summary) = None <=> seen = {}

Figures == {"actual", "estimated", "unavailable", "requests", "tokens"}

(***************************************************************************)
(* The parts of a page, read after its summary, add up to it when nothing  *)
(* was recorded in between, and to no less when something was: no event    *)
(* falls out of every group or into two (breakdown, trend).                *)
(***************************************************************************)
PartsAddUp ==
  page.shown = "parts" =>
    \A f \in Figures :
      LET whole == SumOver([k \in DOMAIN page.parts |-> page.parts[k][f]], DOMAIN page.parts)
      IN  /\ page.summary[f] <= whole
          /\ page.known = page.later => page.summary[f] = whole
=============================================================================
