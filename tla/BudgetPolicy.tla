---------------------------- MODULE BudgetPolicy ----------------------------
(***************************************************************************)
(* The deterministic budget rules (policies/budget_policy.py): what state  *)
(* a limit is in, what that state asks for, and which of several limits    *)
(* decides.  Amounts are whole units of the base currency; a percentage is *)
(* compared by cross-multiplication, so it is exact like the Decimal it    *)
(* stands for.                                                             *)
(***************************************************************************)
EXTENDS Integers, FiniteSets

CONSTANTS
  OutcomeByState,          \* BudgetPolicy.outcome_by_state, possibly partial
  ApproveProjectedBreach   \* require_approval_on_projected_breach

States   == {"NORMAL", "WARNING", "CRITICAL", "EXCEEDED"}
Outcomes == {"ALLOW", "DOWNGRADE", "REQUIRE_APPROVAL", "BLOCK"}

ASSUME BudgetPolicyAssumption ==
  /\ DOMAIN OutcomeByState \subseteq States
  /\ \A s \in DOMAIN OutcomeByState : OutcomeByState[s] \in Outcomes
  /\ ApproveProjectedBreach \in BOOLEAN

\* Higher is more restrictive.
Severity(o) ==
  CASE o = "ALLOW"            -> 0
    [] o = "DOWNGRADE"        -> 1
    [] o = "REQUIRE_APPROVAL" -> 2
    [] OTHER                  -> 3

ScopeTypes == {"REQUEST", "MODEL", "AGENT", "WORKLOAD", "DEPARTMENT",
               "PLANT", "TENANT", "ENTERPRISE"}

\* Narrowest first.
ScopeRank(s) ==
  CASE s = "REQUEST"    -> 0
    [] s = "MODEL"      -> 1
    [] s = "AGENT"      -> 2
    [] s = "WORKLOAD"   -> 3
    [] s = "DEPARTMENT" -> 4
    [] s = "PLANT"      -> 5
    [] s = "TENANT"     -> 6
    [] OTHER            -> 7

Limit == [type: ScopeTypes, amount: Nat, actual: Nat, estimated: Nat,
          warning: Nat, critical: Nat, evaluable: BOOLEAN]

-----------------------------------------------------------------------------
(* One limit.                                                              *)

Consumed(l) == l.actual + l.estimated

\* An amount of zero counts as fully consumed.
AtLeast(spent, amount, percent) ==
  IF amount <= 0 THEN 100 >= percent ELSE 100 * spent >= percent * amount

\* Mutant: the critical threshold is what exceeds a budget.
ClassifyStateEager(spent, l) ==
  CASE AtLeast(spent, l.amount, l.critical) -> "EXCEEDED"
    [] AtLeast(spent, l.amount, l.warning)  -> "WARNING"
    [] OTHER                                -> "NORMAL"

\* Thresholds are inclusive; 100 percent is not configurable.
ClassifyState(spent, l) ==
  IF AtLeast(spent, l.amount, 100) THEN "EXCEEDED"
  ELSE IF AtLeast(spent, l.amount, l.critical) THEN "CRITICAL"
  ELSE IF AtLeast(spent, l.amount, l.warning) THEN "WARNING"
  ELSE "NORMAL"

OutcomeFor(state) ==
  IF state \in DOMAIN OutcomeByState THEN OutcomeByState[state] ELSE "BLOCK"

State(l) == ClassifyState(Consumed(l), l)

ProjectedBreach(l, cost) ==
  /\ ApproveProjectedBreach
  /\ State(l) # "EXCEEDED"
  /\ AtLeast(Consumed(l) + cost, l.amount, 100)

\* A limit nobody can compare is never permission.
EvaluateLimit(l, cost) ==
  IF ~l.evaluable \/ ProjectedBreach(l, cost) THEN "REQUIRE_APPROVAL"
  ELSE OutcomeFor(State(l))

-----------------------------------------------------------------------------
(* Several limits.                                                         *)

\* _decision_sort_key, up to the id of the budget.
SortsBefore(a, b, cost) ==
  LET sa == Severity(EvaluateLimit(a, cost))
      sb == Severity(EvaluateLimit(b, cost))
  IN  sa > sb \/ (sa = sb /\ ScopeRank(a.type) < ScopeRank(b.type))

\* Mutant: the narrowest limit decides, however lenient.
DecidingNarrowest(limits, cost) ==
  CHOOSE l \in limits : \A m \in limits : ScopeRank(l.type) <= ScopeRank(m.type)

Deciding(limits, cost) ==
  CHOOSE l \in limits : \A m \in limits : ~SortsBefore(m, l, cost)

\* An absent budget is not a limit of zero.
Decide(limits, cost) ==
  IF limits = {} THEN "ALLOW" ELSE EvaluateLimit(Deciding(limits, cost), cost)
=============================================================================
