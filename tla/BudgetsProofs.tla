--------------------------- MODULE BudgetsProofs ---------------------------
(***************************************************************************)
(* Proofs about the budget rules, for every policy table, every set of     *)
(* limits (infinite ones too) and every request cost; then about the       *)
(* sessions of Budgets, for any number of requests, rows, scopes, offers   *)
(* and patches.                                                            *)
(***************************************************************************)
EXTENDS Budgets, SumsProofs

USE BudgetPolicyAssumption

-----------------------------------------------------------------------------
(* The rules.                                                              *)

(***************************************************************************)
(* The default BudgetPolicy.                                               *)
(***************************************************************************)
DefaultPolicy ==
  /\ DOMAIN OutcomeByState = States
  /\ OutcomeByState["NORMAL"] = "ALLOW"
  /\ OutcomeByState["WARNING"] = "ALLOW"
  /\ OutcomeByState["CRITICAL"] = "DOWNGRADE"
  /\ OutcomeByState["EXCEEDED"] = "BLOCK"
  /\ ApproveProjectedBreach

(***************************************************************************)
(* Every limit has a state, and every evaluation is an outcome.            *)
(***************************************************************************)
LEMMA Evaluations ==
  ASSUME NEW l, NEW cost
  PROVE  State(l) \in States /\ EvaluateLimit(l, cost) \in Outcomes
<1>1. State(l) \in States
  BY DEF State, ClassifyState, States
<1>2. OutcomeFor(State(l)) \in Outcomes
  BY DEF OutcomeFor, Outcomes
<1> QED
  BY <1>1, <1>2 DEF EvaluateLimit, Outcomes

(***************************************************************************)
(* Severities are distinct small numbers.                                  *)
(***************************************************************************)
LEMMA Severities ==
  ASSUME NEW o \in Outcomes
  PROVE  /\ Severity(o) \in 0..3
         /\ Severity(o) = 3 <=> o = "BLOCK"
         /\ Severity(o) = 2 <=> o = "REQUIRE_APPROVAL"
         /\ Severity(o) = 1 <=> o = "DOWNGRADE"
         /\ Severity(o) = 0 <=> o = "ALLOW"
  BY DEF Severity, Outcomes

LEMMA Ranks ==
  ASSUME NEW s
  PROVE  ScopeRank(s) \in 0..7
  BY DEF ScopeRank

(***************************************************************************)
(* A set of limits that is not empty has a limit nothing sorts before,     *)
(* because outcomes and scope types are finitely many: choose the most     *)
(* severe, then the narrowest among those.                                 *)
(***************************************************************************)
LEMMA DecidingIsFirst ==
  ASSUME NEW limits, limits # {}, NEW cost
  PROVE  /\ Deciding(limits, cost) \in limits
         /\ \A m \in limits : ~SortsBefore(m, Deciding(limits, cost), cost)
<1> DEFINE sev(l) == Severity(EvaluateLimit(l, cost))
           rank(l) == ScopeRank(l.type)
<1>1. \A l : sev(l) \in 0..3
  BY Evaluations, Severities
<1>2. \A l : rank(l) \in 0..7
  BY Ranks
<1>3. PICK a \in limits : \A m \in limits : sev(m) <= sev(a)
  <2> HIDE DEF sev
  <2> DEFINE Has(n) == \E l \in limits : sev(l) = n
  <2>1. Has(0) \/ Has(1) \/ Has(2) \/ Has(3)
    BY <1>1
  <2>2. CASE Has(3)
    BY <2>2, <1>1
  <2>3. CASE ~Has(3) /\ Has(2)
    BY <2>3, <1>1
  <2>4. CASE ~Has(3) /\ ~Has(2) /\ Has(1)
    BY <2>4, <1>1
  <2>5. CASE ~Has(3) /\ ~Has(2) /\ ~Has(1) /\ Has(0)
    BY <2>5, <1>1
  <2> QED
    BY <2>1, <2>2, <2>3, <2>4, <2>5
<1> DEFINE top == {l \in limits : sev(l) = sev(a)}
<1>4. PICK b \in top : \A m \in top : rank(b) <= rank(m)
  <2> DEFINE Has(n) == \E l \in top : rank(l) = n
  <2>0. top # {}
    BY <1>3
  <2> HIDE DEF rank, top
  <2>1. Has(0) \/ Has(1) \/ Has(2) \/ Has(3) \/ Has(4) \/ Has(5) \/ Has(6) \/ Has(7)
    BY <1>2, <2>0
  <2>2. CASE Has(0)
    BY <2>2, <1>2
  <2>3. CASE ~Has(0) /\ Has(1)
    BY <2>3, <1>2
  <2>4. CASE ~Has(0) /\ ~Has(1) /\ Has(2)
    BY <2>4, <1>2
  <2>5. CASE ~Has(0) /\ ~Has(1) /\ ~Has(2) /\ Has(3)
    BY <2>5, <1>2
  <2>6. CASE ~Has(0) /\ ~Has(1) /\ ~Has(2) /\ ~Has(3) /\ Has(4)
    BY <2>6, <1>2
  <2>7. CASE ~Has(0) /\ ~Has(1) /\ ~Has(2) /\ ~Has(3) /\ ~Has(4) /\ Has(5)
    BY <2>7, <1>2
  <2>8. CASE ~Has(0) /\ ~Has(1) /\ ~Has(2) /\ ~Has(3) /\ ~Has(4) /\ ~Has(5) /\ Has(6)
    BY <2>8, <1>2
  <2>9. CASE ~Has(0) /\ ~Has(1) /\ ~Has(2) /\ ~Has(3) /\ ~Has(4) /\ ~Has(5) /\ ~Has(6)
    BY <2>9, <2>1, <1>2
  <2> QED
    BY <2>2, <2>3, <2>4, <2>5, <2>6, <2>7, <2>8, <2>9
<1>5. b \in limits /\ \A m \in limits : ~SortsBefore(m, b, cost)
  <2>1. b \in limits /\ sev(b) = sev(a)
    OBVIOUS
  <2>2. ASSUME NEW m \in limits PROVE ~SortsBefore(m, b, cost)
    <3>1. sev(m) <= sev(b)
      BY <1>3, <2>1
    <3>2. sev(m) = sev(b) => rank(b) <= rank(m)
      BY <1>4, <2>1
    <3>3. sev(m) \in 0..3 /\ sev(b) \in 0..3 /\ rank(m) \in 0..7 /\ rank(b) \in 0..7
      BY <1>1, <1>2
    <3> QED
      BY <3>1, <3>2, <3>3 DEF SortsBefore
  <2> QED
    BY <2>1, <2>2
<1> QED
  BY <1>5 DEF Deciding

(***************************************************************************)
(* The most restrictive outcome wins: no limit asks for more than what is  *)
(* decided (module docstring of policies/budget_policy.py, decide).        *)
(***************************************************************************)
THEOREM MostRestrictiveWins ==
  ASSUME NEW limits, NEW cost, NEW l \in limits
  PROVE  Severity(EvaluateLimit(l, cost)) <= Severity(Decide(limits, cost))
<1> DEFINE d == Deciding(limits, cost)
<1>1. d \in limits /\ ~SortsBefore(l, d, cost)
  BY DecidingIsFirst
<1>2. Severity(EvaluateLimit(l, cost)) \in 0..3 /\ Severity(EvaluateLimit(d, cost)) \in 0..3
  BY Evaluations, Severities
<1>3. Decide(limits, cost) = EvaluateLimit(d, cost)
  BY <1>1 DEF Decide
<1> QED
  BY <1>1, <1>2, <1>3 DEF SortsBefore

(***************************************************************************)
(* Nothing is decided that no limit asked for.                             *)
(***************************************************************************)
THEOREM DecisionIsSomeLimits ==
  ASSUME NEW limits, NEW cost
  PROVE  Decide(limits, cost) = "ALLOW" \/
         \E l \in limits : EvaluateLimit(l, cost) = Decide(limits, cost)
  BY DecidingIsFirst DEF Decide

LEMMA DecisionIsOutcome ==
  ASSUME NEW limits, NEW cost
  PROVE  Decide(limits, cost) \in Outcomes
  BY DecisionIsSomeLimits, Evaluations DEF Outcomes

(***************************************************************************)
(* Adding a limit, narrower or broader, never loosens a decision: a        *)
(* comfortable budget cannot buy back what another one refuses.            *)
(***************************************************************************)
THEOREM MoreLimitsNeverLoosen ==
  ASSUME NEW limits, NEW more, limits \subseteq more, NEW cost
  PROVE  Severity(Decide(limits, cost)) <= Severity(Decide(more, cost))
<1>1. Severity(Decide(more, cost)) \in 0..3
  BY DecisionIsOutcome, Severities
<1>2. CASE Decide(limits, cost) = "ALLOW"
  BY <1>1, <1>2 DEF Severity
<1>3. CASE \E l \in limits : EvaluateLimit(l, cost) = Decide(limits, cost)
  BY <1>3, MostRestrictiveWins
<1> QED
  BY <1>2, <1>3, DecisionIsSomeLimits

(***************************************************************************)
(* A limit that cannot be compared never lets a request go ahead, whatever *)
(* the policy table says and whatever the other limits are.                *)
(***************************************************************************)
THEOREM UnevaluableIsNotPermission ==
  ASSUME NEW limits, NEW cost, NEW l \in limits, ~l.evaluable
  PROVE  Decide(limits, cost) \in {"REQUIRE_APPROVAL", "BLOCK"}
<1>1. EvaluateLimit(l, cost) = "REQUIRE_APPROVAL"
  BY DEF EvaluateLimit
<1>2. 2 <= Severity(Decide(limits, cost))
  BY <1>1, MostRestrictiveWins DEF Severity
<1> QED
  BY <1>2, DecisionIsOutcome, Severities

(***************************************************************************)
(* A spent limit blocks under the default policy and under every policy    *)
(* that leaves EXCEEDED out of its table, alone or among others.           *)
(***************************************************************************)
THEOREM SpentLimitBlocks ==
  ASSUME OutcomeFor("EXCEEDED") = "BLOCK",
         NEW limits, NEW cost, NEW l \in limits, l \in Limit,
         l.evaluable, Consumed(l) >= l.amount
  PROVE  Decide(limits, cost) = "BLOCK"
<1>1. State(l) = "EXCEEDED"
  BY DEF State, ClassifyState, AtLeast, Limit, Consumed
<1>2. EvaluateLimit(l, cost) = "BLOCK"
  BY <1>1 DEF EvaluateLimit, ProjectedBreach
<1>3. 3 <= Severity(Decide(limits, cost))
  BY <1>2, MostRestrictiveWins DEF Severity
<1> QED
  BY <1>3, DecisionIsOutcome, Severities

(***************************************************************************)
(* What goes ahead fits: under a policy that sends projected breaches to a *)
(* human, a request that may proceed leaves every limit below its amount.  *)
(***************************************************************************)
THEOREM GoingAheadFits ==
  ASSUME ApproveProjectedBreach, OutcomeFor("EXCEEDED") = "BLOCK",
         NEW limits, NEW cost \in Nat, NEW l \in limits, l \in Limit,
         Decide(limits, cost) \in {"ALLOW", "DOWNGRADE"}
  PROVE  l.evaluable /\ Consumed(l) + cost < l.amount
<1>1. EvaluateLimit(l, cost) \notin {"REQUIRE_APPROVAL", "BLOCK"}
  BY MostRestrictiveWins, DecisionIsOutcome, Evaluations, Severities
<1>2. l.evaluable /\ ~ProjectedBreach(l, cost)
  BY <1>1 DEF EvaluateLimit
<1>3. State(l) # "EXCEEDED"
  BY <1>1, <1>2 DEF EvaluateLimit
<1>4. ~AtLeast(Consumed(l) + cost, l.amount, 100)
  BY <1>2, <1>3 DEF ProjectedBreach
<1> QED
  BY <1>2, <1>4 DEF AtLeast, Limit, Consumed

-----------------------------------------------------------------------------
(* Spend only ever tightens.                                               *)

(***************************************************************************)
(* What has been reached stays reached.                                    *)
(***************************************************************************)
LEMMA AtLeastGrows ==
  ASSUME NEW spent \in Nat, NEW more \in Nat, spent <= more,
         NEW amount \in Nat, NEW percent \in Nat, AtLeast(spent, amount, percent)
  PROVE  AtLeast(more, amount, percent)
<1> DEFINE bar == percent * amount
<1>1. bar \in Nat
  OBVIOUS
<1>2. CASE amount <= 0
  BY <1>2 DEF AtLeast
<1>3. CASE ~(amount <= 0)
  <2>1. 100 * spent >= bar
    BY <1>3 DEF AtLeast
  <2>2. 100 * more >= bar
    <3> HIDE DEF bar
    <3> QED BY <1>1, <2>1
  <2> QED
    BY <1>3, <2>2 DEF AtLeast
<1> QED
  BY <1>2, <1>3

(***************************************************************************)
(* The threshold state of a budget never falls while spend grows, also     *)
(* when the two thresholds are crossed (classify_state tests the critical  *)
(* one first).                                                             *)
(***************************************************************************)
THEOREM StateGrowsWithSpend ==
  ASSUME NEW l \in Limit, NEW spent \in Nat, NEW more \in Nat, spent <= more
  PROVE  StateRank(ClassifyState(spent, l)) <= StateRank(ClassifyState(more, l))
<1>1. l.amount \in Nat /\ l.critical \in Nat /\ l.warning \in Nat
  BY DEF Limit
<1>2. /\ AtLeast(spent, l.amount, 100) => AtLeast(more, l.amount, 100)
      /\ AtLeast(spent, l.amount, l.critical) => AtLeast(more, l.amount, l.critical)
      /\ AtLeast(spent, l.amount, l.warning) => AtLeast(more, l.amount, l.warning)
  BY <1>1, AtLeastGrows
<1> QED
  BY <1>2 DEF ClassifyState, StateRank

(***************************************************************************)
(* Under the default policy, a limit on which more is spent never answers  *)
(* the same request more leniently.                                        *)
(***************************************************************************)
THEOREM MoreSpendNeverLoosens ==
  ASSUME DefaultPolicy, NEW cost \in Nat, NEW l \in Limit, NEW k \in Limit,
         k.amount = l.amount, k.warning = l.warning, k.critical = l.critical,
         k.evaluable = l.evaluable, Consumed(l) <= Consumed(k)
  PROVE  Severity(EvaluateLimit(l, cost)) <= Severity(EvaluateLimit(k, cost))
<1>1. /\ Consumed(l) \in Nat /\ Consumed(k) \in Nat /\ Consumed(l) + cost \in Nat
      /\ Consumed(k) + cost \in Nat /\ Consumed(l) + cost <= Consumed(k) + cost
  BY DEF Limit, Consumed
<1>2. l.amount \in Nat /\ l.critical \in Nat /\ l.warning \in Nat
  BY DEF Limit
<1>3. /\ AtLeast(Consumed(l), l.amount, 100) => AtLeast(Consumed(k), l.amount, 100)
      /\ AtLeast(Consumed(l), l.amount, l.critical) =>
           AtLeast(Consumed(k), l.amount, l.critical)
      /\ AtLeast(Consumed(l) + cost, l.amount, 100) =>
           AtLeast(Consumed(k) + cost, l.amount, 100)
  BY <1>1, <1>2, AtLeastGrows
<1>4. AtLeast(Consumed(l), l.amount, 100) => AtLeast(Consumed(l) + cost, l.amount, 100)
  BY <1>1, <1>2, AtLeastGrows
<1>5. /\ State(l) \in States /\ State(k) \in States
      /\ State(l) = "EXCEEDED" => State(k) = "EXCEEDED"
      /\ State(l) = "CRITICAL" => State(k) \in {"CRITICAL", "EXCEEDED"}
      /\ ProjectedBreach(l, cost) => ProjectedBreach(k, cost) \/ State(k) = "EXCEEDED"
  <2>1. State(l) \in States /\ State(k) \in States
    BY Evaluations
  <2>2. /\ State(l) = "EXCEEDED" => State(k) = "EXCEEDED"
        /\ State(l) = "CRITICAL" => State(k) \in {"CRITICAL", "EXCEEDED"}
    BY <1>3 DEF State, ClassifyState
  <2>3. ProjectedBreach(l, cost) => ProjectedBreach(k, cost) \/ State(k) = "EXCEEDED"
    BY <1>3 DEF ProjectedBreach
  <2> QED
    BY <2>1, <2>2, <2>3
<1>6. /\ OutcomeFor("NORMAL") = "ALLOW" /\ OutcomeFor("WARNING") = "ALLOW"
      /\ OutcomeFor("CRITICAL") = "DOWNGRADE" /\ OutcomeFor("EXCEEDED") = "BLOCK"
  BY DEF DefaultPolicy, OutcomeFor, States
<1>7. ~ProjectedBreach(k, cost) \/ State(k) # "EXCEEDED"
  BY DEF ProjectedBreach
<1> QED
  BY <1>5, <1>6, <1>7 DEF EvaluateLimit, Severity, States

-----------------------------------------------------------------------------
(* What open creates and updates still know.                               *)

USE BudgetsAssumption

(***************************************************************************)
(* What is stored has the columns of a budget.                             *)
(***************************************************************************)
RowColumns == {"status", "scope", "amount", "warning", "critical", "period", "currency"}

Whole ==
  /\ DOMAIN row = Ids /\ DOMAIN job = Requests
  /\ \A i \in Stored : DOMAIN row[i] = RowColumns
  /\ \A q \in Requests : "kind" \in DOMAIN job[q]

(***************************************************************************)
(* An open create still finds no budget at its scope, unless one has been  *)
(* committed since it looked.                                              *)
(***************************************************************************)
CreateCurrent(q) == job[q].kind = "create" /\ q \notin stale => Active(job[q].scope) = {}

(***************************************************************************)
(* An open update is of a stored row, moves it to no other scope, and was  *)
(* accepted with its thresholds in order; the row is still as loaded,      *)
(* unless another update of it has been committed since.                   *)
(***************************************************************************)
UpdateCurrent(q) ==
  job[q].kind = "update" =>
    /\ job[q].id \in Stored
    /\ job[q].was.scope = row[job[q].id].scope
    /\ job[q].now.scope = job[q].was.scope
    /\ job[q].now.warning <= job[q].now.critical
    /\ q \notin stale => job[q].was = row[job[q].id] /\ DOMAIN job[q].now = RowColumns

IInv == Whole /\ \A q \in Requests : CreateCurrent(q) /\ UpdateCurrent(q)

LEMMA InitIInv == Init => IInv
<1> SUFFICES ASSUME Init PROVE IInv
  OBVIOUS
<1>1. Stored = {}
  BY DEF Init, Stored
<1>2. Whole
  BY <1>1 DEF Init, Whole, Idle
<1>3. \A q \in Requests : job[q].kind = "idle"
  BY DEF Init, Idle
<1> QED
  BY <1>2, <1>3 DEF IInv, CreateCurrent, UpdateCurrent

(***************************************************************************)
(* Steps that leave the table alone and give one request another job.      *)
(***************************************************************************)
LEMMA TableUntouched ==
  ASSUME IInv, NEW q \in Requests, NEW j, row' = row, job' = [job EXCEPT ![q] = j],
         stale' = stale \/ stale' = stale \ {q}, "kind" \in DOMAIN j,
         CreateCurrent(q)', UpdateCurrent(q)'
  PROVE  IInv'
<1>1. Stored' = Stored /\ \A s : Active(s)' = Active(s)
  BY DEF Stored, Active
<1>2. \A p \in Requests \ {q} : job'[p] = job[p] /\ (p \in stale' <=> p \in stale)
  BY DEF IInv, Whole
<1>3. job'[q] = j
  BY DEF IInv, Whole
<1>4. Whole'
  BY <1>1, <1>2, <1>3 DEF IInv, Whole
<1>5. ASSUME NEW p \in Requests \ {q} PROVE CreateCurrent(p)' /\ UpdateCurrent(p)'
  <2>1. CreateCurrent(p) /\ UpdateCurrent(p)
    BY DEF IInv
  <2>2. CreateCurrent(p)'
    BY <1>1, <1>2, <2>1 DEF CreateCurrent
  <2>3. UpdateCurrent(p)'
    BY <1>1, <1>2, <2>1 DEF UpdateCurrent
  <2> QED
    BY <2>2, <2>3
<1> QED
  BY <1>4, <1>5 DEF IInv

LEMMA ReadingsHoldNothing ==
  ASSUME NEW q, job[q].kind \notin {"create", "update"}
  PROVE  CreateCurrent(q) /\ UpdateCurrent(q)
  BY DEF CreateCurrent, UpdateCurrent

(***************************************************************************)
(* Commits that make row i into r: the open requests they overtake become  *)
(* stale, the others are not concerned.                                    *)
(***************************************************************************)
LEMMA RowCommitted ==
  ASSUME IInv, NEW q \in Requests, NEW i \in Ids, NEW r,
         row' = [row EXCEPT ![i] = r], Close(q, i, r), DOMAIN r = RowColumns,
         i \in Stored => r.scope = row[i].scope
  PROVE  IInv'
<1>1. row'[i] = r /\ \A k \in Ids \ {i} : row'[k] = row[k]
  BY DEF IInv, Whole
<1>2. job'[q] = Idle /\ \A p \in Requests \ {q} : job'[p] = job[p]
  BY DEF IInv, Whole, Close
<1>3. r # Absent
  <2>1. "scope" \in DOMAIN r /\ "scope" \notin DOMAIN Absent
    BY DEF RowColumns, Absent
  <2> QED
    BY <2>1
<1>4. Stored' = Stored \cup {i}
  BY <1>1, <1>3 DEF Stored
<1>5. Whole'
  <2>1. DOMAIN row' = Ids /\ DOMAIN job' = Requests
    BY DEF IInv, Whole, Close
  <2>2. \A k \in Stored' : DOMAIN row'[k] = RowColumns
    BY <1>1, <1>4 DEF IInv, Whole, Stored
  <2>3. \A p \in Requests : "kind" \in DOMAIN job'[p]
    BY <1>2 DEF IInv, Whole, Idle
  <2> QED
    BY <2>1, <2>2, <2>3 DEF Whole
<1>6. CreateCurrent(q)' /\ UpdateCurrent(q)'
  BY <1>2 DEF CreateCurrent, UpdateCurrent, Idle
<1>7. ASSUME NEW p \in Requests \ {q} PROVE CreateCurrent(p)' /\ UpdateCurrent(p)'
  <2>1. CreateCurrent(p) /\ UpdateCurrent(p) /\ job'[p] = job[p]
    BY <1>2 DEF IInv
  <2>2. p \notin stale' =>
          /\ p \notin stale
          /\ ~(job[p].kind = "create" /\ job[p].scope = r.scope /\ r.status = "ACTIVE")
          /\ ~(job[p].kind = "update" /\ job[p].id = i)
    BY DEF Close
  <2>3. CreateCurrent(p)'
    <3> SUFFICES ASSUME job[p].kind = "create", p \notin stale'
                 PROVE  Active(job[p].scope)' = {}
      BY <2>1 DEF CreateCurrent
    <3>1. Active(job[p].scope) = {}
      BY <2>1, <2>2 DEF CreateCurrent
    <3>2. ASSUME NEW k \in Stored', row'[k].status = "ACTIVE", row'[k].scope = job[p].scope
          PROVE  FALSE
      <4>1. CASE k = i
        BY <4>1, <3>2, <1>1, <2>2
      <4>2. CASE k # i
        BY <4>2, <3>1, <3>2, <1>1, <1>4 DEF Active, Stored
      <4> QED
        BY <4>1, <4>2
    <3> QED
      BY <3>2, <2>1 DEF Active
  <2>4. UpdateCurrent(p)'
    <3> SUFFICES ASSUME job[p].kind = "update"
                 PROVE  /\ job[p].id \in Stored'
                        /\ job[p].was.scope = row'[job[p].id].scope
                        /\ job[p].now.scope = job[p].was.scope
                        /\ job[p].now.warning <= job[p].now.critical
                        /\ p \notin stale' => /\ job[p].was = row'[job[p].id]
                                              /\ DOMAIN job[p].now = RowColumns
      BY <2>1 DEF UpdateCurrent
    <3>1. /\ job[p].id \in Stored
          /\ job[p].was.scope = row[job[p].id].scope
          /\ job[p].now.scope = job[p].was.scope
          /\ job[p].now.warning <= job[p].now.critical
          /\ p \notin stale => /\ job[p].was = row[job[p].id]
                               /\ DOMAIN job[p].now = RowColumns
      BY <2>1 DEF UpdateCurrent
    <3>2. row'[job[p].id].scope = row[job[p].id].scope
      BY <1>1, <3>1 DEF Stored
    <3>3. p \notin stale' => row'[job[p].id] = row[job[p].id] /\ p \notin stale
      BY <1>1, <2>2, <3>1 DEF Stored
    <3> QED
      BY <1>4, <3>1, <3>2, <3>3
  <2> QED
    BY <2>3, <2>4
<1> QED
  BY <1>5, <1>6, <1>7 DEF IInv

(***************************************************************************)
(* A patch keeps the columns, and the scope is none of those it sets.      *)
(***************************************************************************)
LEMMA SetKeepsScope ==
  ASSUME NEW r, DOMAIN r = RowColumns, NEW patch \in Patches
  PROVE  DOMAIN Set(r, patch) = RowColumns /\ Set(r, patch).scope = r.scope
<1>1. "scope" \in RowColumns /\ "scope" \notin DOMAIN patch
  BY DEF RowColumns, Columns
<1> QED
  BY <1>1 DEF Set

(***************************************************************************)
(* What a commit makes of the row.                                         *)
(***************************************************************************)
LEMMA CreateCommits ==
  ASSUME IInv, NEW q \in Requests, NEW i \in Ids, CommitCreate(q, i)
  PROVE  LET r == Created(job[q].scope, job[q].terms)
         IN  /\ row' = [row EXCEPT ![i] = r] /\ Close(q, i, r) /\ i \notin Stored
             /\ DOMAIN r = RowColumns /\ r.scope = job[q].scope /\ r.status = "ACTIVE"
<1> DEFINE r == Created(job[q].scope, job[q].terms)
<1>1. row' = [row EXCEPT ![i] = r] /\ row[i] = Absent /\ Close(q, i, row'[i])
  BY DEF CommitCreate
<1>2. row'[i] = r
  BY <1>1 DEF IInv, Whole
<1>3. DOMAIN r = RowColumns /\ r.scope = job[q].scope /\ r.status = "ACTIVE"
  BY DEF Created, RowColumns
<1> QED
  BY <1>1, <1>2, <1>3 DEF Stored

LEMMA UpdateCommits ==
  ASSUME IInv, NEW q \in Requests, CommitUpdate(q)
  PROVE  LET i == job[q].id
             r == Flushed(row[i], job[q].was, job[q].now)
         IN  /\ row' = [row EXCEPT ![i] = r] /\ Close(q, i, r) /\ i \in Stored
             /\ DOMAIN r = RowColumns /\ r.scope = row[i].scope
             /\ job[q].kind = "update"
<1> DEFINE i == job[q].id
           r == Flushed(row[i], job[q].was, job[q].now)
<1>1. job[q].kind = "update" /\ row' = [row EXCEPT ![i] = r] /\ Close(q, i, row'[i])
  BY DEF CommitUpdate
<1>2. i \in Stored /\ job[q].now.scope = job[q].was.scope
  BY <1>1 DEF IInv, UpdateCurrent
<1>3. row'[i] = r
  BY <1>1, <1>2 DEF IInv, Whole, Stored
<1>4. DOMAIN row[i] = RowColumns
  BY <1>2 DEF IInv, Whole
<1>5. DOMAIN r = RowColumns /\ r.scope = row[i].scope
  <2>1. "scope" \in DOMAIN row[i]
    BY <1>4 DEF RowColumns
  <2>2. r.scope = IF job[q].now.scope # job[q].was.scope THEN job[q].now.scope
                                                        ELSE row[i].scope
    BY <2>1 DEF Flushed
  <2>3. DOMAIN r = DOMAIN row[i]
    BY DEF Flushed
  <2> QED
    BY <1>2, <1>4, <2>2, <2>3
<1> QED
  BY <1>1, <1>2, <1>3, <1>5

(***************************************************************************)
(* The invariant, one action at a time.                                    *)
(***************************************************************************)
LEMMA ReadingStep ==
  ASSUME IInv, NEW q \in Requests, NEW j, "kind" \in DOMAIN j, j.kind \in ReadingKinds,
         row' = row, stale' = stale, job' = [job EXCEPT ![q] = j]
  PROVE  IInv'
<1>1. job'[q] = j
  BY DEF IInv, Whole
<1>2. CreateCurrent(q)' /\ UpdateCurrent(q)'
  BY <1>1 DEF CreateCurrent, UpdateCurrent, ReadingKinds
<1> QED
  BY <1>2, TableUntouched

LEMMA BeginReadingKeeps ==
  ASSUME IInv, NEW q \in Requests, NEW kind \in ReadingKinds, NEW ids, NEW cost, NEW ceiling,
         BeginReading(q, kind, ids, cost, ceiling)
  PROVE  IInv'
<1> DEFINE j == [kind |-> kind, day |-> today, cost |-> cost, ceiling |-> ceiling,
                 rows |-> [i \in ids |-> row[i]],
                 floor |-> [i \in ids |-> TotalIn(row[i], today)],
                 spent |-> <<>>]
<1>1. job' = [job EXCEPT ![q] = j] /\ row' = row /\ stale' = stale
  BY DEF BeginReading
<1>2. "kind" \in DOMAIN j /\ j.kind = kind
  OBVIOUS
<1> HIDE DEF j
<1> QED
  BY <1>1, <1>2, ReadingStep

LEMMA NextIInv == IInv /\ [Next]_vars => IInv'
<1> SUFFICES ASSUME IInv, [Next]_vars PROVE IInv'
  OBVIOUS
<1>1. ASSUME NEW q \in Requests, NEW o \in Offers, BeginCreate(q, o[1], o[2]) PROVE IInv'
  <2> DEFINE j == [kind |-> "create", scope |-> o[1], terms |-> o[2]]
  <2>1. job' = [job EXCEPT ![q] = j] /\ row' = row /\ stale' = stale /\ Active(o[1]) = {}
    BY <1>1 DEF BeginCreate
  <2>2. job'[q] = j /\ Active(o[1])' = {}
    BY <2>1 DEF IInv, Whole, Active, Stored
  <2>3. CreateCurrent(q)' /\ UpdateCurrent(q)'
    BY <2>2 DEF CreateCurrent, UpdateCurrent
  <2>4. "kind" \in DOMAIN j
    OBVIOUS
  <2> HIDE DEF j
  <2> QED
    BY <2>1, <2>3, <2>4, TableUntouched
<1>2. ASSUME NEW q \in Requests, NEW i \in Ids, CommitCreate(q, i) PROVE IInv'
  BY <1>2, CreateCommits, RowCommitted
<1>3. ASSUME NEW q \in Requests, NEW i \in Ids, NEW p \in Patches, BeginUpdate(q, i, p)
      PROVE  IInv'
  <2> DEFINE j == [kind |-> "update", id |-> i, was |-> row[i], now |-> Set(row[i], p)]
  <2>1. /\ job' = [job EXCEPT ![q] = j] /\ row' = row /\ stale' = stale /\ i \in Stored
        /\ Set(row[i], p).warning <= Set(row[i], p).critical
    BY <1>3 DEF BeginUpdate, ThresholdsAccepted
  <2>2. job'[q] = j /\ Stored' = Stored
    BY <2>1 DEF IInv, Whole, Stored
  <2>3. DOMAIN Set(row[i], p) = RowColumns /\ Set(row[i], p).scope = row[i].scope
    BY <2>1, SetKeepsScope DEF IInv, Whole
  <2>4. CreateCurrent(q)' /\ UpdateCurrent(q)'
    BY <2>1, <2>2, <2>3 DEF CreateCurrent, UpdateCurrent
  <2>5. "kind" \in DOMAIN j
    OBVIOUS
  <2> HIDE DEF j
  <2> QED
    BY <2>1, <2>4, <2>5, TableUntouched
<1>4. ASSUME NEW q \in Requests, CommitUpdate(q) PROVE IInv'
  <2>1. job[q].id \in Ids
    BY <1>4, UpdateCommits DEF Stored
  <2> QED
    BY <1>4, <2>1, UpdateCommits, RowCommitted
<1>5. ASSUME NEW q \in Requests, NEW p \in Places, NEW c, NEW l, BeginEvaluate(q, p, c, l)
      PROVE  IInv'
  BY <1>5, BeginReadingKeeps DEF BeginEvaluate, ReadingKinds
<1>6. ASSUME NEW q \in Requests, BeginStatus(q) PROVE IInv'
  BY <1>6, BeginReadingKeeps DEF BeginStatus, ReadingKinds
<1>7. ASSUME NEW q \in Requests, NEW i \in Ids, Measure(q, i) PROVE IInv'
  <2> DEFINE old == job[q]
             j == [old EXCEPT !.spent =
                     [k \in DOMAIN @ \cup {i} |->
                        IF k = i THEN SpentIn(old.rows[i], old.day) ELSE @[k]]]
  <2>1. job' = [job EXCEPT ![q] = j] /\ row' = row /\ stale' = stale
    BY <1>7 DEF Measure
  <2>2. old.kind \in ReadingKinds /\ "kind" \in DOMAIN old
    BY <1>7 DEF Measure, ReadingKinds, IInv, Whole
  <2>3. "kind" \in DOMAIN j /\ j.kind = old.kind
    BY <2>2
  <2> HIDE DEF j, old
  <2> QED
    BY <2>1, <2>2, <2>3, ReadingStep
<1>8. ASSUME NEW q \in Requests, Leave(q) PROVE IInv'
  <2>1. job'[q] = Idle /\ "kind" \in DOMAIN Idle
    BY <1>8 DEF Leave, IInv, Whole, Idle
  <2>2. CreateCurrent(q)' /\ UpdateCurrent(q)'
    BY <2>1 DEF CreateCurrent, UpdateCurrent, Idle
  <2> QED
    BY <1>8, <2>1, <2>2, TableUntouched DEF Leave
<1>9. ASSUME UNCHANGED <<row, job, stale>> PROVE IInv'
  BY <1>9 DEF IInv, Whole, CreateCurrent, UpdateCurrent, Stored, Active
<1> QED
  BY <1>1, <1>2, <1>3, <1>4, <1>5, <1>6, <1>7, <1>8, <1>9
  DEF Next, vars, RecordCost, NextDay

THEOREM BudgetsInvariant == Spec => []IInv
  BY InitIInv, NextIInv, PTL DEF Spec

-----------------------------------------------------------------------------
(* The two action properties.                                              *)

(***************************************************************************)
(* A step that gives a scope another active budget is a commit, of a       *)
(* create or of an update: the table changes by no other step.             *)
(***************************************************************************)
LEMMA OnlyCommitsChangeRows ==
  ASSUME [Next]_vars
  PROVE  \/ row' = row
         \/ \E q \in Requests, i \in Ids : CommitCreate(q, i)
         \/ \E q \in Requests : CommitUpdate(q)
  BY DEF Next, vars, BeginCreate, BeginUpdate, BeginEvaluate, BeginStatus,
         BeginReading, Measure, Leave, RecordCost, NextDay

LEMMA SecondActiveStep ==
  ASSUME IInv, [Next]_vars, NEW s \in Scopes, Active(s) # {}, ~(Active(s)' \subseteq Active(s))
  PROVE  \E q \in Requests :
           /\ Commits(q)
           /\ \/ job[q].kind = "create" /\ job[q].scope = s /\ q \in stale
              \/ /\ job[q].kind = "update" /\ row[job[q].id].scope = s
                 /\ job[q].was.status # "ACTIVE" /\ job[q].now.status = "ACTIVE"
<1>1. row' # row
  BY DEF Active, Stored
<1>2. ASSUME NEW q \in Requests, NEW i \in Ids, CommitCreate(q, i)
      PROVE  Commits(q) /\ job[q].kind = "create" /\ job[q].scope = s /\ q \in stale
  <2> DEFINE r == Created(job[q].scope, job[q].terms)
  <2>1. /\ row' = [row EXCEPT ![i] = r] /\ Close(q, i, r)
        /\ r.scope = job[q].scope /\ job[q].kind = "create"
    BY <1>2, CreateCommits DEF CommitCreate
  <2>2. row'[i] = r /\ \A k \in Ids \ {i} : row'[k] = row[k]
    BY <2>1 DEF IInv, Whole
  <2>3. job'[q] = Idle
    BY <2>1 DEF IInv, Whole, Close
  <2>4. r.scope = s
    BY <2>2 DEF Active, Stored
  <2>5. q \in stale
    BY <2>1, <2>4 DEF IInv, CreateCurrent
  <2> QED
    BY <1>1, <2>1, <2>3, <2>4, <2>5 DEF Commits
<1>3. ASSUME NEW q \in Requests, CommitUpdate(q)
      PROVE  /\ Commits(q) /\ job[q].kind = "update" /\ row[job[q].id].scope = s
             /\ job[q].was.status # "ACTIVE" /\ job[q].now.status = "ACTIVE"
  <2> DEFINE i == job[q].id
             r == Flushed(row[i], job[q].was, job[q].now)
  <2>1. /\ row' = [row EXCEPT ![i] = r] /\ Close(q, i, r) /\ i \in Stored
        /\ r.scope = row[i].scope /\ job[q].kind = "update"
    BY <1>3, UpdateCommits
  <2>2. row'[i] = r /\ \A k \in Ids \ {i} : row'[k] = row[k]
    BY <2>1 DEF IInv, Whole, Stored
  <2>3. job'[q] = Idle
    BY <2>1 DEF IInv, Whole, Close
  <2>4. r.scope = s /\ r.status = "ACTIVE" /\ i \notin Active(s)
    <3> HIDE DEF r, i
    <3> QED BY <2>2 DEF Active, Stored
  <2>5. row[i].status # "ACTIVE"
    BY <2>1, <2>4 DEF Active
  <2>6. "status" \in DOMAIN row[i]
    BY <2>1 DEF IInv, Whole, RowColumns
  <2>7. r.status = IF job[q].now.status # job[q].was.status THEN job[q].now.status
                                                           ELSE row[i].status
    BY <2>6 DEF Flushed
  <2> QED
    BY <1>1, <2>1, <2>3, <2>4, <2>5, <2>7 DEF Commits
<1> QED
  BY <1>1, <1>2, <1>3, OnlyCommitsChangeRows

(***************************************************************************)
(* A scope gets a second active budget only by a create overtaken between  *)
(* its check and its insert, or by a patch that switches a row on.         *)
(***************************************************************************)
THEOREM SecondActiveOnlyByRaceOrPatchHolds == Spec => SecondActiveOnlyByRaceOrPatch
<1>1. IInv /\ [Next]_vars =>
        [\A s \in Scopes :
           Active(s) # {} /\ ~(Active(s)' \subseteq Active(s)) =>
             \E q \in Requests :
               /\ Commits(q)
               /\ \/ job[q].kind = "create" /\ job[q].scope = s /\ q \in stale
                  \/ /\ job[q].kind = "update" /\ row[job[q].id].scope = s
                     /\ job[q].was.status # "ACTIVE" /\ job[q].now.status = "ACTIVE"]_vars
  BY SecondActiveStep
<1> QED
  BY <1>1, BudgetsInvariant, PTL DEF Spec, SecondActiveOnlyByRaceOrPatch

LEMMA LoneUpdateStep ==
  ASSUME IInv, [Next]_vars, NEW q \in Requests,
         job[q].kind = "update", q \notin stale, Commits(q)
  PROVE  row'[job[q].id].warning <= row'[job[q].id].critical
<1> DEFINE i == job[q].id
<1>1. job'[q] = Idle /\ job[q] # Idle /\ row' # row
  BY DEF Commits, Idle
<1>3. CommitUpdate(q)
  <2>1. ASSUME NEW p \in Requests, NEW k \in Ids, CommitCreate(p, k) PROVE FALSE
    <3>1. p # q /\ job' = [job EXCEPT ![p] = Idle]
      BY <2>1 DEF CommitCreate, Close
    <3> QED
      BY <3>1, <1>1 DEF IInv, Whole
  <2>2. ASSUME NEW p \in Requests, CommitUpdate(p), p # q PROVE FALSE
    <3>1. job' = [job EXCEPT ![p] = Idle]
      BY <2>2 DEF CommitUpdate, Close
    <3> QED
      BY <3>1, <2>2, <1>1 DEF IInv, Whole
  <2> QED
    BY <1>1, <2>1, <2>2, OnlyCommitsChangeRows
<1>4. /\ i \in Stored /\ job[q].was = row[i] /\ job[q].now.warning <= job[q].now.critical
      /\ DOMAIN job[q].now = RowColumns
  BY DEF IInv, UpdateCurrent
<1>5. DOMAIN row[i] = RowColumns
  BY <1>4 DEF IInv, Whole
<1>6. row'[i] = Flushed(row[i], job[q].was, job[q].now)
  BY <1>3, <1>4 DEF CommitUpdate, IInv, Whole, Stored
<1>7. row'[i].warning = job[q].now.warning /\ row'[i].critical = job[q].now.critical
  <2>1. "warning" \in DOMAIN row[i] /\ "critical" \in DOMAIN row[i]
    BY <1>5 DEF RowColumns
  <2>2. /\ Flushed(row[i], job[q].was, job[q].now).warning =
             IF job[q].now.warning # job[q].was.warning THEN job[q].now.warning
                                                        ELSE row[i].warning
        /\ Flushed(row[i], job[q].was, job[q].now).critical =
             IF job[q].now.critical # job[q].was.critical THEN job[q].now.critical
                                                          ELSE row[i].critical
    BY <2>1 DEF Flushed
  <2> QED
    BY <1>4, <1>6, <2>2
<1> QED
  BY <1>4, <1>7

(***************************************************************************)
(* An update nobody overtook leaves the thresholds of its row in order.    *)
(***************************************************************************)
THEOREM LoneUpdateOrdersThresholdsHolds == Spec => LoneUpdateOrdersThresholds
<1>1. IInv /\ [Next]_vars =>
        [\A q \in Requests :
           job[q].kind = "update" /\ q \notin stale /\ Commits(q) =>
             row'[job[q].id].warning <= row'[job[q].id].critical]_vars
  BY LoneUpdateStep
<1> QED
  BY <1>1, BudgetsInvariant, PTL DEF Spec, LoneUpdateOrdersThresholds

-----------------------------------------------------------------------------
(* Types.                                                                   *)

IsReading(j) ==
  \E listed \in SUBSET Ids, measured \in SUBSET Ids :
    measured \subseteq listed /\ j \in Reading(listed, measured)

IsJob(j) == j \in {Idle} \cup Create \cup Update \/ IsReading(j)

LEMMA CreatedIsRow ==
  ASSUME NEW s \in Scopes, NEW t \in Term
  PROVE  Created(s, t) \in Row
  BY DEF Created, Term, Row, Status

LEMMA SetIsRow ==
  ASSUME NEW r \in Row, NEW patch \in Patches
  PROVE  Set(r, patch) \in Row
<1> DEFINE n == Set(r, patch)
<1>1. DOMAIN r = RowColumns /\ DOMAIN n = RowColumns
  BY DEF Row, Set, RowColumns
<1>2. \A c \in RowColumns : n[c] = IF c \in DOMAIN patch THEN patch[c] ELSE r[c]
  BY <1>1 DEF Set
<1>3. DOMAIN patch \subseteq Columns
  OBVIOUS
<1>4. /\ n.status \in Status /\ n.scope \in Scopes /\ n.amount \in Nat \ {0}
      /\ n.warning \in 1..100 /\ n.critical \in 1..100
      /\ n.period \in Periods /\ n.currency \in Currencies
  <2> HIDE DEF n
  <2>1. n.status \in Status
    BY <1>2 DEF Row, RowColumns
  <2>2. n.scope \in Scopes
    BY <1>2, <1>3 DEF Row, RowColumns, Columns
  <2>3. n.amount \in Nat \ {0}
    BY <1>2 DEF Row, RowColumns
  <2>4. n.warning \in 1..100 /\ n.critical \in 1..100
    BY <1>2 DEF Row, RowColumns
  <2>5. n.period \in Periods
    BY <1>2 DEF Row, RowColumns
  <2>6. n.currency \in Currencies
    BY <1>2, <1>3 DEF Row, RowColumns, Columns
  <2> QED
    BY <2>1, <2>2, <2>3, <2>4, <2>5, <2>6
<1>5. n = [c \in RowColumns |-> n[c]]
  BY <1>1 DEF Set
<1> HIDE DEF n
<1>6. n \in Row
  BY <1>4, <1>5 DEF Row, RowColumns
<1> QED
  BY <1>6 DEF n

LEMMA FlushedIsRow ==
  ASSUME NEW r \in Row, NEW was, NEW now \in Row
  PROVE  Flushed(r, was, now) \in Row
<1> DEFINE n == Flushed(r, was, now)
<1>1. DOMAIN r = RowColumns
  BY DEF Row, RowColumns
<1>2. n = [c \in RowColumns |-> n[c]] /\ \A c \in RowColumns : n[c] \in {now[c], r[c]}
  BY <1>1 DEF Flushed
<1> HIDE DEF n
<1>3. n \in Row
  <2>1. n.status \in Status /\ n.scope \in Scopes /\ n.amount \in Nat \ {0}
    BY <1>2 DEF Row, RowColumns
  <2>2. n.warning \in 1..100 /\ n.critical \in 1..100
    BY <1>2 DEF Row, RowColumns
  <2>3. n.period \in Periods /\ n.currency \in Currencies
    BY <1>2 DEF Row, RowColumns
  <2> QED
    BY <1>2, <2>1, <2>2, <2>3 DEF Row, RowColumns
<1> QED
  BY <1>3 DEF n

LEMMA StoredIsRow ==
  ASSUME TypeOK, NEW i \in Stored
  PROVE  i \in Ids /\ row[i] \in Row
  BY DEF TypeOK, Stored

-----------------------------------------------------------------------------
(* Sums of spend.                                                           *)

LEMMA CellsFinite == IsFiniteSet(Cells)
<1> DEFINE cell == [x \in (Days \X Places) \X Kinds |-> <<x[1][1], x[1][2], x[2]>>]
<1>1. IsFiniteSet(Kinds)
  <2>1. IsFiniteSet({"ACTUAL"}) /\ IsFiniteSet({"ESTIMATED"})
    BY FS_Singleton
  <2>2. Kinds = {"ACTUAL"} \cup {"ESTIMATED"}
    BY DEF Kinds
  <2> QED
    BY <2>1, <2>2, FS_Union
<1>2. IsFiniteSet((Days \X Places) \X Kinds)
  BY <1>1, FS_Product
<1>3. cell \in Surjection((Days \X Places) \X Kinds, Cells)
  <2>1. ASSUME NEW c \in Cells PROVE \E x \in (Days \X Places) \X Kinds : cell[x] = c
    <3>1. <<<<c[1], c[2]>>, c[3]>> \in (Days \X Places) \X Kinds
      BY DEF Cells
    <3>2. cell[<<<<c[1], c[2]>>, c[3]>>] = c
      BY <3>1 DEF Cells
    <3> QED
      BY <3>1, <3>2
  <2>2. cell \in [(Days \X Places) \X Kinds -> Cells]
    BY DEF Cells
  <2> QED
    BY <2>1, <2>2 DEF Surjection
<1> QED
  BY <1>2, <1>3, FS_Surjection

\* The cells TotalIn sums, and those of them SpentIn sums for each provenance.
Counted(r, day) ==
  {c \in Cells : /\ Calendar[r.period][c[1]] = Calendar[r.period][day]
                 /\ c[2] \in Covers[r.scope]}
CountedAs(r, day, kind) == Window(r.period, day) \X Covers[r.scope] \X {kind}

(***************************************************************************)
(* What the two queries of _to_limit return, taken together, is all that   *)
(* was recorded in the period: every cell is in one of them, and in one    *)
(* only.                                                                   *)
(***************************************************************************)
LEMMA SpentIsTotal ==
  ASSUME ledger \in [Cells -> Nat], NEW r \in Row, NEW day \in Days
  PROVE  /\ SpentIn(r, day) \in Spend
         /\ TotalIn(r, day) \in Nat
         /\ SpentIn(r, day).actual + SpentIn(r, day).estimated = TotalIn(r, day)
<1> DEFINE A == CountedAs(r, day, "ACTUAL")
           E == CountedAs(r, day, "ESTIMATED")
<1>1. r.period \in Periods /\ r.scope \in Scopes
  BY DEF Row
<1>2. A \cup E = Counted(r, day) /\ A \cap E = {}
  <2>1. Covers[r.scope] \subseteq Places /\ Window(r.period, day) \subseteq Days
    BY <1>1 DEF Window
  <2>2. ASSUME NEW c \in A \cup E PROVE c \in Counted(r, day)
    BY <2>1 DEF CountedAs, Counted, Cells, Kinds, Window
  <2>3. ASSUME NEW c \in Counted(r, day) PROVE c \in A \cup E
    <3>1. c \in Cells /\ c[1] \in Window(r.period, day) /\ c[2] \in Covers[r.scope]
      BY DEF Counted, Cells, Window
    <3>2. c = <<c[1], c[2], c[3]>> /\ (c[3] = "ACTUAL" \/ c[3] = "ESTIMATED")
      BY <3>1 DEF Cells, Kinds
    <3> QED
      BY <3>1, <3>2 DEF CountedAs
  <2>4. A \cap E = {}
    BY DEF CountedAs
  <2> QED
    BY <2>2, <2>3, <2>4
<1>3. IsFiniteSet(A) /\ IsFiniteSet(E) /\ \A c \in A \cup E : ledger[c] \in Nat
  <2>1. A \subseteq Cells /\ E \subseteq Cells
    BY <1>2 DEF Counted
  <2> HIDE DEF A, E
  <2> QED
    BY <2>1, CellsFinite, FS_Subset
<1> HIDE DEF A, E
<1>4. SumOver(ledger, A) \in Nat /\ SumOver(ledger, E) \in Nat
  BY <1>3, SumIsNat
<1>5. SumOver(ledger, A \cup E) = SumOver(ledger, A) + SumOver(ledger, E)
  BY <1>2, <1>3, SumOfUnion
<1>6. SpentIn(r, day) = [actual |-> SumOver(ledger, A), estimated |-> SumOver(ledger, E)]
  BY DEF SpentIn, SpendForScope, CountedAs, A, E
<1>7. TotalIn(r, day) = SumOver(ledger, A \cup E)
  BY <1>2 DEF TotalIn, Counted
<1> QED
  BY <1>4, <1>5, <1>6, <1>7 DEF Spend

\* The total of a period after a step.
LEMMA SpentIsTotalNext ==
  ASSUME ledger' \in [Cells -> Nat], NEW r \in Row, NEW day \in Days
  PROVE  TotalIn(r, day)' \in Nat
<1>1. IsFiniteSet(Counted(r, day)) /\ Counted(r, day) \subseteq Cells
  <2>1. Counted(r, day) \subseteq Cells
    BY DEF Counted
  <2> QED
    BY <2>1, CellsFinite, FS_Subset
<1>2. SumOver(ledger', Counted(r, day)) \in Nat
  BY <1>1, SumIsNat
<1> QED
  BY <1>2 DEF TotalIn, Counted

(***************************************************************************)
(* While nothing but costs is recorded, the total of a period only grows.  *)
(***************************************************************************)
LEMMA TotalGrows ==
  ASSUME ledger \in [Cells -> Nat], ledger' \in [Cells -> Nat],
         \A c \in Cells : ledger[c] <= ledger'[c], NEW r, NEW day
  PROVE  TotalIn(r, day) <= TotalIn(r, day)'
<1>1. IsFiniteSet(Counted(r, day)) /\ Counted(r, day) \subseteq Cells
  <2>1. Counted(r, day) \subseteq Cells
    BY DEF Counted
  <2> QED
    BY <2>1, CellsFinite, FS_Subset
<1>2. SumOver(ledger, Counted(r, day)) <= SumOver(ledger', Counted(r, day))
  BY <1>1, SumIsAbove
<1> QED
  BY <1>2 DEF TotalIn, Counted

-----------------------------------------------------------------------------
(* What a reading has listed and measured.                                  *)

(***************************************************************************)
(* What was measured of a row lies between all that had been recorded in   *)
(* its period when the rows were listed and all that is recorded now.      *)
(***************************************************************************)
InTime(j) ==
  \A i \in DOMAIN j.rows :
    /\ j.floor[i] <= TotalIn(j.rows[i], j.day)
    /\ i \in DOMAIN j.spent =>
         /\ j.floor[i] <= j.spent[i].actual + j.spent[i].estimated
         /\ j.spent[i].actual + j.spent[i].estimated <= TotalIn(j.rows[i], j.day)

SpendInv ==
  /\ IInv
  /\ TypeOK
  /\ \A q \in Requests : job[q].kind \in ReadingKinds => InTime(job[q])

LEMMA ReadingIsTyped ==
  ASSUME NEW j, IsJob(j), j.kind \in ReadingKinds
  PROVE  /\ IsReading(j)
         /\ j.day \in Days /\ j.cost \in Nat /\ j.ceiling \subseteq Ceilings
         /\ DOMAIN j.rows \subseteq Ids /\ DOMAIN j.floor = DOMAIN j.rows
         /\ DOMAIN j.spent \subseteq DOMAIN j.rows
         /\ \A i \in DOMAIN j.rows : j.rows[i] \in Row /\ j.floor[i] \in Nat
         /\ \A i \in DOMAIN j.spent : j.spent[i] \in Spend
<1>1. IsReading(j)
  BY DEF IsJob, ReadingKinds, Idle, Create, Update
<1> QED
  BY <1>1 DEF IsReading, Reading

(***************************************************************************)
(* Each step: the job of one request changes, or the ledger does.          *)
(***************************************************************************)
LEMMA JobChanges ==
  ASSUME SpendInv, IInv', NEW q \in Requests, NEW j, job' = [job EXCEPT ![q] = j],
         IsJob(j), j.kind \in ReadingKinds => InTime(j),
         row' \in [Ids -> {Absent} \cup Row], stale' \subseteq Requests, updates' \in Nat,
         UNCHANGED <<ledger, today>>
  PROVE  SpendInv'
<1>1. job'[q] = j /\ \A p \in Requests \ {q} : job'[p] = job[p]
  BY DEF SpendInv, IInv, Whole
<1>2. \A p \in Requests : IsJob(job'[p])
  BY <1>1 DEF SpendInv, TypeOK, IsJob, IsReading
<1>3. TypeOK'
  <2>1. \A p \in Requests :
          \/ job'[p] \in {Idle} \cup Create \cup Update
          \/ \E listed \in SUBSET Ids, measured \in SUBSET Ids :
               measured \subseteq listed /\ job'[p] \in Reading(listed, measured)
    BY <1>2 DEF IsJob, IsReading
  <2> QED
    BY <2>1 DEF SpendInv, TypeOK
<1>4. \A p \in Requests : job'[p].kind \in ReadingKinds => InTime(job'[p])
  BY <1>1 DEF SpendInv
<1>5. \A p \in Requests : InTime(job'[p]) => InTime(job[p])'
  BY DEF InTime, TotalIn
<1> QED
  BY <1>3, <1>4, <1>5 DEF SpendInv

LEMMA LedgerGrows ==
  ASSUME SpendInv, IInv', ledger' \in [Cells -> Nat], \A c \in Cells : ledger[c] <= ledger'[c],
         today' \in Days, UNCHANGED <<row, job, stale, updates>>
  PROVE  SpendInv'
<1>1. TypeOK'
  BY DEF SpendInv, TypeOK
<1>2. ASSUME NEW p \in Requests, job[p].kind \in ReadingKinds PROVE InTime(job[p])'
  <2> PICK j : j = job[p]
    OBVIOUS
  <2>1. InTime(j)
    BY <1>2 DEF SpendInv
  <2>2. IsJob(j)
    BY DEF SpendInv, TypeOK, IsJob, IsReading
  <2>3. ASSUME NEW i \in DOMAIN j.rows
        PROVE  /\ TotalIn(j.rows[i], j.day) \in Nat /\ j.floor[i] \in Nat
               /\ TotalIn(j.rows[i], j.day)' \in Nat
               /\ TotalIn(j.rows[i], j.day) <= TotalIn(j.rows[i], j.day)'
    <3> PICK r : r = j.rows[i]
      OBVIOUS
    <3> PICK day : day = j.day
      OBVIOUS
    <3>1. r \in Row /\ day \in Days /\ j.floor[i] \in Nat
      BY <1>2, <2>2, ReadingIsTyped
    <3>2. TotalIn(r, day) \in Nat /\ TotalIn(r, day)' \in Nat
      BY <3>1, SpentIsTotal, SpentIsTotalNext DEF SpendInv, TypeOK
    <3>3. TotalIn(r, day) <= TotalIn(r, day)'
      BY TotalGrows DEF SpendInv, TypeOK
    <3> QED
      BY <3>1, <3>2, <3>3
  <2>4. ASSUME NEW i \in DOMAIN j.spent
        PROVE  j.spent[i].actual + j.spent[i].estimated \in Nat
    <3>1. j.spent[i] \in Spend
      BY <1>2, <2>2, ReadingIsTyped
    <3> QED
      BY <3>1 DEF Spend
  <2>5. InTime(j)'
    BY <2>1, <2>3, <2>4 DEF InTime
  <2>6. job'[p] = j
    OBVIOUS
  <2> QED
    BY <2>5, <2>6 DEF InTime
<1> QED
  BY <1>1, <1>2 DEF SpendInv

LEMMA ListingInTime ==
  ASSUME SpendInv, NEW q \in Requests, NEW kind \in ReadingKinds, NEW ids \in SUBSET Stored,
         NEW cost \in Nat, NEW ceiling \in SUBSET Ceilings
  PROVE  LET j == [kind |-> kind, day |-> today, cost |-> cost, ceiling |-> ceiling,
                   rows |-> [i \in ids |-> row[i]],
                   floor |-> [i \in ids |-> TotalIn(row[i], today)],
                   spent |-> <<>>]
         IN  IsJob(j) /\ InTime(j)
<1> DEFINE j == [kind |-> kind, day |-> today, cost |-> cost, ceiling |-> ceiling,
                 rows |-> [i \in ids |-> row[i]],
                 floor |-> [i \in ids |-> TotalIn(row[i], today)],
                 spent |-> <<>>]
<1>1. today \in Days /\ ledger \in [Cells -> Nat]
  BY DEF SpendInv, TypeOK
<1>2. \A i \in ids : i \in Ids /\ row[i] \in Row /\ TotalIn(row[i], today) \in Nat
  BY <1>1, StoredIsRow, SpentIsTotal DEF SpendInv
<1>3. j \in Reading(ids, {})
  <2>1. <<>> \in [{} -> Spend]
    OBVIOUS
  <2>2. [i \in ids |-> row[i]] \in [ids -> Row]
    BY <1>2
  <2>3. [i \in ids |-> TotalIn(row[i], today)] \in [ids -> Nat]
    BY <1>2
  <2> QED
    BY <1>1, <2>1, <2>2, <2>3 DEF Reading
<1>4. IsReading(j)
  <2>1. ids \in SUBSET Ids
    BY <1>2
  <2> HIDE DEF j
  <2> QED
    BY <1>3, <2>1 DEF IsReading
<1>5. InTime(j)
  BY <1>2 DEF InTime
<1> QED
  BY <1>4, <1>5 DEF IsJob

LEMMA MeasuringInTime ==
  ASSUME SpendInv, NEW q \in Requests, job[q].kind \in ReadingKinds,
         NEW i \in DOMAIN job[q].rows \ DOMAIN job[q].spent
  PROVE  LET j == [job[q] EXCEPT !.spent =
                     [k \in DOMAIN @ \cup {i} |->
                        IF k = i THEN SpentIn(job[q].rows[i], job[q].day) ELSE @[k]]]
         IN  IsJob(j) /\ j.kind = job[q].kind /\ InTime(j)
<1> PICK old : old = job[q]
  OBVIOUS
<1>1. IsJob(old) /\ InTime(old)
  BY DEF SpendInv, TypeOK, IsJob, IsReading
<1>2. PICK listed \in SUBSET Ids, measured \in SUBSET Ids :
        measured \subseteq listed /\ old \in Reading(listed, measured)
  BY <1>1, ReadingIsTyped DEF IsReading
<1>3. /\ old.day \in Days /\ old.rows \in [listed -> Row] /\ old.spent \in [measured -> Spend]
      /\ old.floor \in [listed -> Nat] /\ i \in listed /\ i \notin measured
      /\ old.kind \in ReadingKinds
  BY <1>2 DEF Reading
<1> DEFINE s == SpentIn(old.rows[i], old.day)
           spent == [k \in measured \cup {i} |-> IF k = i THEN s ELSE old.spent[k]]
<1>4. s \in Spend /\ s.actual + s.estimated = TotalIn(old.rows[i], old.day)
  BY <1>3, SpentIsTotal DEF SpendInv, TypeOK
<1> HIDE DEF s
<1>5. spent \in [measured \cup {i} -> Spend]
  BY <1>3, <1>4
<1>6. /\ [old EXCEPT !.spent = spent] \in Reading(listed, measured \cup {i})
      /\ [old EXCEPT !.spent = spent].kind = old.kind
      /\ [old EXCEPT !.spent = spent].rows = old.rows
      /\ [old EXCEPT !.spent = spent].floor = old.floor
      /\ [old EXCEPT !.spent = spent].day = old.day
      /\ [old EXCEPT !.spent = spent].spent = spent
  <2> HIDE DEF spent
  <2> QED
    BY <1>2, <1>5 DEF Reading
<1> DEFINE j == [old EXCEPT !.spent = spent]
<1>7. IsJob(j)
  <2>1. measured \cup {i} \in SUBSET Ids /\ measured \cup {i} \subseteq listed
    BY <1>2, <1>3
  <2> HIDE DEF j
  <2> QED
    BY <1>6, <2>1 DEF IsJob, IsReading, j
<1>8. InTime(j)
  <2> SUFFICES ASSUME NEW k \in listed
               PROVE  /\ old.floor[k] <= TotalIn(old.rows[k], old.day)
                      /\ k \in measured \cup {i} =>
                           /\ old.floor[k] <= spent[k].actual + spent[k].estimated
                           /\ spent[k].actual + spent[k].estimated
                                <= TotalIn(old.rows[k], old.day)
    <3>1. DOMAIN old.rows = listed /\ DOMAIN spent = measured \cup {i}
      BY <1>3
    <3> HIDE DEF spent
    <3> QED
      BY <1>6, <3>1 DEF InTime, j
  <2>1. /\ old.floor[k] <= TotalIn(old.rows[k], old.day)
        /\ k \in measured => /\ old.floor[k] <= old.spent[k].actual + old.spent[k].estimated
                             /\ old.spent[k].actual + old.spent[k].estimated
                                  <= TotalIn(old.rows[k], old.day)
    BY <1>1, <1>3 DEF InTime
  <2>2. TotalIn(old.rows[k], old.day) \in Nat
    BY <1>3, SpentIsTotal DEF SpendInv, TypeOK
  <2> QED
    BY <1>3, <1>4, <2>1, <2>2
<1>9. j = [job[q] EXCEPT !.spent =
             [k \in DOMAIN @ \cup {i} |->
                IF k = i THEN SpentIn(job[q].rows[i], job[q].day) ELSE @[k]]]
  BY <1>3 DEF s
<1> QED
  BY <1>6, <1>7, <1>8, <1>9

LEMMA InitSpendInv == Init => SpendInv
<1> SUFFICES ASSUME Init PROVE SpendInv
  OBVIOUS
<1>1. \A q \in Requests : job[q] = Idle /\ job[q].kind \notin ReadingKinds
  BY DEF Init, Idle, ReadingKinds
<1>2. TypeOK
  BY <1>1 DEF Init, TypeOK
<1> QED
  BY <1>1, <1>2, InitIInv DEF SpendInv

LEMMA NextSpendInv == SpendInv /\ [Next]_vars => SpendInv'
<1> SUFFICES ASSUME SpendInv, [Next]_vars PROVE SpendInv'
  OBVIOUS
<1>0. /\ IInv' /\ row \in [Ids -> {Absent} \cup Row] /\ stale \subseteq Requests
      /\ updates \in Nat /\ today \in Days /\ ledger \in [Cells -> Nat]
      /\ \A q \in Requests : IsJob(job[q])
  BY NextIInv DEF SpendInv, TypeOK, IsJob, IsReading
<1>1. ASSUME NEW q \in Requests, NEW o \in Offers, BeginCreate(q, o[1], o[2]) PROVE SpendInv'
  <2> DEFINE j == [kind |-> "create", scope |-> o[1], terms |-> o[2]]
  <2>1. /\ job' = [job EXCEPT ![q] = j] /\ UNCHANGED <<row, ledger, today, stale, updates>>
    BY <1>1 DEF BeginCreate
  <2>2. j \in Create /\ j.kind \notin ReadingKinds
    BY DEF Create, ReadingKinds
  <2>3. IsJob(j)
    BY <2>2 DEF IsJob
  <2> HIDE DEF j
  <2> QED
    BY <1>0, <2>1, <2>2, <2>3, JobChanges
<1>2. ASSUME NEW q \in Requests, IsJob(Idle), NEW i \in Ids, NEW r \in Row,
             row' = [row EXCEPT ![i] = r], Close(q, i, r), updates' \in Nat,
             UNCHANGED <<ledger, today>>
      PROVE  SpendInv'
  <2>1. job' = [job EXCEPT ![q] = Idle] /\ stale' \subseteq Requests
    BY <1>0, <1>2 DEF Close
  <2>2. row' \in [Ids -> {Absent} \cup Row]
    BY <1>0, <1>2
  <2>3. Idle.kind \notin ReadingKinds
    BY DEF Idle, ReadingKinds
  <2> QED
    BY <1>0, <1>2, <2>1, <2>2, <2>3, JobChanges
<1>3. IsJob(Idle) /\ Idle.kind \notin ReadingKinds
  BY DEF IsJob, Idle, ReadingKinds
<1>4. ASSUME NEW q \in Requests, NEW i \in Ids, CommitCreate(q, i) PROVE SpendInv'
  <2> DEFINE r == Created(job[q].scope, job[q].terms)
  <2>1. row' = [row EXCEPT ![i] = r] /\ Close(q, i, r) /\ UNCHANGED <<ledger, today, updates>>
    BY <1>4, CreateCommits DEF SpendInv, CommitCreate
  <2>2. job[q] \in Create
    BY <1>0, <1>4 DEF CommitCreate, IsJob, IsReading, Reading, ReadingKinds, Idle, Update
  <2>3. r \in Row
    BY <2>2, CreatedIsRow DEF Create
  <2> HIDE DEF r
  <2> QED
    BY <1>0, <1>2, <1>3, <2>1, <2>3
<1>5. ASSUME NEW q \in Requests, NEW i \in Ids, NEW p \in Patches, BeginUpdate(q, i, p)
      PROVE  SpendInv'
  <2> DEFINE j == [kind |-> "update", id |-> i, was |-> row[i], now |-> Set(row[i], p)]
  <2>1. /\ job' = [job EXCEPT ![q] = j] /\ UNCHANGED <<row, ledger, today, stale, updates>>
        /\ i \in Stored
    BY <1>5 DEF BeginUpdate
  <2>2. row[i] \in Row /\ Set(row[i], p) \in Row
    BY <2>1, StoredIsRow, SetIsRow DEF SpendInv
  <2>3. j \in Update /\ j.kind \notin ReadingKinds
    BY <2>2 DEF Update, ReadingKinds
  <2>4. IsJob(j)
    BY <2>3 DEF IsJob
  <2> HIDE DEF j
  <2> QED
    BY <1>0, <2>1, <2>3, <2>4, JobChanges
<1>6. ASSUME NEW q \in Requests, CommitUpdate(q) PROVE SpendInv'
  <2> PICK i : i = job[q].id
    OBVIOUS
  <2> DEFINE r == Flushed(row[i], job[q].was, job[q].now)
  <2>1. /\ row' = [row EXCEPT ![i] = r] /\ Close(q, i, r) /\ i \in Stored
        /\ UNCHANGED <<ledger, today>> /\ updates' = updates + 1
    BY <1>6, UpdateCommits DEF SpendInv, CommitUpdate
  <2>2. job[q] \in Update
    BY <1>0, <1>6 DEF CommitUpdate, IsJob, IsReading, Reading, ReadingKinds, Idle, Create
  <2>3. i \in Ids /\ row[i] \in Row /\ job[q].now \in Row
    BY <2>1, <2>2, StoredIsRow DEF SpendInv, Update
  <2>4. r \in Row
    BY <2>3, FlushedIsRow
  <2>5. updates' \in Nat
    BY <1>0, <2>1
  <2> HIDE DEF r
  <2> QED
    BY <1>0, <1>2, <1>3, <2>1, <2>3, <2>4, <2>5
<1>7. ASSUME NEW q \in Requests, NEW kind \in ReadingKinds, NEW ids \in SUBSET Stored,
             NEW cost \in Nat, NEW ceiling \in SUBSET Ceilings,
             BeginReading(q, kind, ids, cost, ceiling)
      PROVE  SpendInv'
  <2> DEFINE j == [kind |-> kind, day |-> today, cost |-> cost, ceiling |-> ceiling,
                   rows |-> [i \in ids |-> row[i]],
                   floor |-> [i \in ids |-> TotalIn(row[i], today)],
                   spent |-> <<>>]
  <2>1. job' = [job EXCEPT ![q] = j] /\ UNCHANGED <<row, ledger, today, stale, updates>>
    BY <1>7 DEF BeginReading
  <2>2. IsJob(j) /\ InTime(j)
    BY <1>7, ListingInTime
  <2> HIDE DEF j
  <2> QED
    BY <1>0, <2>1, <2>2, JobChanges
<1>8. ASSUME NEW q \in Requests, NEW p \in Places, NEW c \in Costs,
             NEW l \in {{}} \cup {{x} : x \in Ceilings}, BeginEvaluate(q, p, c, l)
      PROVE  SpendInv'
  <2> DEFINE ids == UNION {Active(s) : s \in {s \in Scopes : p \in Covers[s]}}
  <2>1. ids \in SUBSET Stored /\ c \in Nat /\ l \in SUBSET Ceilings /\ "evaluate" \in ReadingKinds
    BY DEF Active, ReadingKinds
  <2>2. BeginReading(q, "evaluate", ids, c, l)
    BY <1>8 DEF BeginEvaluate
  <2> HIDE DEF ids
  <2> QED
    BY <1>7, <2>1, <2>2
<1>9. ASSUME NEW q \in Requests, BeginStatus(q) PROVE SpendInv'
  <2>1. "status" \in ReadingKinds /\ {} \in SUBSET Ceilings /\ 0 \in Nat
    BY DEF ReadingKinds
  <2> QED
    BY <1>7, <1>9, <2>1 DEF BeginStatus
<1>10. ASSUME NEW q \in Requests, NEW i \in Ids, Measure(q, i) PROVE SpendInv'
  <2> DEFINE j == [job[q] EXCEPT !.spent =
                     [k \in DOMAIN @ \cup {i} |->
                        IF k = i THEN SpentIn(job[q].rows[i], job[q].day) ELSE @[k]]]
  <2>1. /\ job[q].kind \in ReadingKinds /\ i \in DOMAIN job[q].rows \ DOMAIN job[q].spent
        /\ job' = [job EXCEPT ![q] = j] /\ UNCHANGED <<row, ledger, today, stale, updates>>
    BY <1>10 DEF Measure
  <2>2. IsJob(j) /\ InTime(j)
    BY <2>1, MeasuringInTime
  <2> HIDE DEF j
  <2> QED
    BY <1>0, <2>1, <2>2, JobChanges
<1>11. ASSUME NEW q \in Requests, Leave(q) PROVE SpendInv'
  <2>1. job' = [job EXCEPT ![q] = Idle] /\ stale' \subseteq Requests
        /\ UNCHANGED <<row, ledger, today, updates>>
    BY <1>0, <1>11 DEF Leave
  <2> QED
    BY <1>0, <1>3, <2>1, JobChanges
<1>12. ASSUME NEW s \in Sources, RecordCost(s) PROVE SpendInv'
  <2> PICK c : c = <<today, s[1], s[2]>>
    OBVIOUS
  <2>1. c \in Cells
    BY <1>0 DEF Cells
  <2>2. ledger' = [ledger EXCEPT ![c] = @ + 1] /\ UNCHANGED <<row, today, job, stale, updates>>
    BY <1>12 DEF RecordCost
  <2>3. ledger' \in [Cells -> Nat] /\ \A x \in Cells : ledger[x] <= ledger'[x]
    BY <1>0, <2>1, <2>2
  <2> QED
    BY <1>0, <2>2, <2>3, LedgerGrows
<1>13. ASSUME NextDay \/ UNCHANGED vars PROVE SpendInv'
  <2>1. today' \in Days /\ ledger' = ledger /\ UNCHANGED <<row, job, stale, updates>>
    BY <1>0, <1>13 DEF NextDay, vars
  <2>2. ledger' \in [Cells -> Nat] /\ \A x \in Cells : ledger[x] <= ledger'[x]
    BY <1>0, <2>1
  <2> QED
    BY <1>0, <2>1, <2>2, LedgerGrows
<1> QED
  BY <1>1, <1>4, <1>5, <1>6, <1>8, <1>9, <1>10, <1>11, <1>12, <1>13 DEF Next

(***************************************************************************)
(* What a reading measured lies between what was recorded when it began    *)
(* and what is recorded now, for every row it lists, in every reachable    *)
(* state; and every variable keeps its type.                               *)
(***************************************************************************)
THEOREM MeasuredInTime == Spec => []SpendInv
  BY InitSpendInv, NextSpendInv, PTL DEF Spec

(***************************************************************************)
(* Rows, ledger and requests keep their types: no patch, however it was    *)
(* overtaken, stores a row the table's constraints would refuse.           *)
(***************************************************************************)
THEOREM BudgetsTypeCorrectness == Spec => []TypeOK
<1>1. SpendInv => TypeOK
  BY DEF SpendInv
<1> QED
  BY <1>1, MeasuredInTime, PTL

-----------------------------------------------------------------------------
(* What is decided and reported of a reading that has measured every row.   *)

LEMMA RowIsWorth ==
  ASSUME NEW r \in Row
  PROVE  ToBase(r) \in Nat
<1>1. \A a, b \in Nat : a * b \in Nat
  OBVIOUS
<1> QED
  BY <1>1 DEF ToBase, CanConvert, Row

LEMMA CeilingIsWorth ==
  ASSUME NEW c \in Ceilings
  PROVE  ToBase(c) \in Nat
<1>1. \A a, b \in Nat : a * b \in Nat
  OBVIOUS
<1> QED
  BY <1>1 DEF ToBase, CanConvert

LEMMA MeasuredLimits ==
  ASSUME SpendInv, NEW q \in Requests, Measured(q), NEW i \in DOMAIN job[q].rows
  PROVE  LET r == job[q].rows[i]
             l == LimitOf(q, i)
         IN  /\ l \in Limit /\ l.amount = ToBase(r) /\ l.amount \in Nat
             /\ l.evaluable = CanConvert(r)
             /\ job[q].floor[i] \in Nat /\ Consumed(l) \in Nat /\ TotalIn(r, job[q].day) \in Nat
             /\ job[q].floor[i] <= Consumed(l)
             /\ Consumed(l) <= TotalIn(r, job[q].day)
<1> PICK j : j = job[q]
  OBVIOUS
<1>1. IsJob(j) /\ InTime(j) /\ j.kind \in ReadingKinds /\ i \in DOMAIN j.spent
  BY DEF SpendInv, TypeOK, IsJob, IsReading, Measured
<1>2. /\ j.rows[i] \in Row /\ j.floor[i] \in Nat /\ j.spent[i] \in Spend /\ j.day \in Days
  BY <1>1, ReadingIsTyped
<1>3. TotalIn(j.rows[i], j.day) \in Nat
  BY <1>2, SpentIsTotal DEF SpendInv, TypeOK
<1>4. /\ j.floor[i] <= j.spent[i].actual + j.spent[i].estimated
      /\ j.spent[i].actual + j.spent[i].estimated <= TotalIn(j.rows[i], j.day)
  BY <1>1 DEF InTime
<1> DEFINE r == j.rows[i]
           s == j.spent[i]
           l == ToLimit(r, s)
<1>5. /\ l.amount = ToBase(r) /\ l.evaluable = CanConvert(r) /\ l.amount \in Nat
      /\ Consumed(l) = s.actual + s.estimated /\ Consumed(l) \in Nat
  BY <1>2, RowIsWorth DEF ToLimit, Consumed, Spend
<1>6. l \in Limit
  <2>1. TypeOf[r.scope] \in ScopeTypes /\ ToBase(r) \in Nat /\ r.warning \in Nat
        /\ r.critical \in Nat /\ CanConvert(r) \in BOOLEAN /\ s.actual \in Nat /\ s.estimated \in Nat
    BY <1>2, RowIsWorth DEF Row, Spend, CanConvert
  <2> HIDE DEF r, s
  <2> QED
    BY <2>1 DEF ToLimit, Limit
<1> QED
  BY <1>2, <1>3, <1>4, <1>5, <1>6 DEF LimitOf

(***************************************************************************)
(* Under a policy that blocks what is spent, a request is blocked whenever *)
(* an active budget above it was spent when its evaluation began, whatever *)
(* its other limits and whatever happened while they were measured.        *)
(***************************************************************************)
THEOREM SpentBudgetBlocksHolds ==
  ASSUME OutcomeFor("EXCEEDED") = "BLOCK"
  PROVE  Spec => []SpentBudgetBlocks
<1>1. SpendInv => SpentBudgetBlocks
  <2> SUFFICES ASSUME SpendInv, NEW q \in Evaluated, NEW i \in DOMAIN job[q].rows,
                      CanConvert(job[q].rows[i]), job[q].floor[i] >= ToBase(job[q].rows[i])
               PROVE  Decision(q) = "BLOCK"
    BY DEF SpentBudgetBlocks
  <2> PICK l : l = LimitOf(q, i)
    OBVIOUS
  <2>1. q \in Requests /\ Measured(q)
    BY DEF Evaluated
  <2>2. l \in Limit /\ l.evaluable /\ Consumed(l) >= l.amount
    BY <2>1, MeasuredLimits
  <2>3. l \in Limits(q)
    BY DEF Limits
  <2> QED
    BY <2>2, <2>3, SpentLimitBlocks DEF Decision
<1> QED
  BY <1>1, MeasuredInTime, PTL

(***************************************************************************)
(* Under a policy that blocks nothing but what is spent, a request is      *)
(* blocked only when a budget listed for it is spent by now or its own     *)
(* ceiling is nothing.                                                     *)
(***************************************************************************)
THEOREM BlockHasCauseHolds ==
  ASSUME \A s \in States : OutcomeFor(s) = "BLOCK" => s = "EXCEEDED"
  PROVE  Spec => []BlockHasCause
<1>1. SpendInv => BlockHasCause
  <2> SUFFICES ASSUME SpendInv, NEW q \in Evaluated, Decision(q) = "BLOCK"
               PROVE  \/ \E i \in DOMAIN job[q].rows :
                           /\ CanConvert(job[q].rows[i])
                           /\ TotalIn(job[q].rows[i], job[q].day) >= ToBase(job[q].rows[i])
                      \/ \E c \in job[q].ceiling : ToBase(c) = 0
    BY DEF BlockHasCause
  <2>1. q \in Requests /\ Measured(q) /\ job[q].kind \in ReadingKinds
    BY DEF Evaluated, Measured
  <2>2. PICK l \in Limits(q) : EvaluateLimit(l, job[q].cost) = "BLOCK"
    BY DecisionIsSomeLimits DEF Decision
  <2>3. l.evaluable /\ State(l) = "EXCEEDED"
    BY <2>2, Evaluations DEF EvaluateLimit
  <2>4. AtLeast(Consumed(l), l.amount, 100)
    BY <2>3 DEF State, ClassifyState
  <2>5. ASSUME NEW i \in DOMAIN job[q].rows, l = LimitOf(q, i)
        PROVE  /\ CanConvert(job[q].rows[i])
               /\ TotalIn(job[q].rows[i], job[q].day) >= ToBase(job[q].rows[i])
    <3>1. /\ l.amount = ToBase(job[q].rows[i]) /\ l.evaluable = CanConvert(job[q].rows[i])
          /\ l.amount \in Nat /\ Consumed(l) \in Nat
          /\ TotalIn(job[q].rows[i], job[q].day) \in Nat
          /\ Consumed(l) <= TotalIn(job[q].rows[i], job[q].day)
      BY <2>1, <2>5, MeasuredLimits
    <3>2. l.amount <= 0 \/ 100 * Consumed(l) >= 100 * l.amount
      BY <2>4, <3>1 DEF AtLeast
    <3> QED
      BY <2>3, <3>1, <3>2
  <2>6. ASSUME NEW c \in job[q].ceiling, l = RequestLimit(c)
        PROVE  ToBase(c) = 0
    <3>1. c \in Ceilings
      BY <2>1, ReadingIsTyped DEF SpendInv, TypeOK, IsJob, IsReading
    <3>2. ToBase(c) \in Nat /\ l.amount = ToBase(c) /\ Consumed(l) = 0
      BY <2>6, <3>1, CeilingIsWorth DEF RequestLimit, Consumed
    <3> QED
      BY <2>4, <3>2 DEF AtLeast
  <2> QED
    BY <2>5, <2>6 DEF Limits
<1> QED
  BY <1>1, MeasuredInTime, PTL

(***************************************************************************)
(* The state reported for a row is of the time between the listing and     *)
(* now, under any policy and with any thresholds.                          *)
(***************************************************************************)
THEOREM StatusIsOfItsTimeHolds == Spec => []StatusIsOfItsTime
<1>1. SpendInv => StatusIsOfItsTime
  <2> SUFFICES ASSUME SpendInv, NEW q \in Requests, job[q].kind = "status", Measured(q),
                      NEW i \in DOMAIN job[q].rows
               PROVE  LET l == LimitOf(q, i)
                          At(total) == StateRank(ClassifyState(total, l))
                      IN  /\ At(job[q].floor[i]) <= StateRank(State(l))
                          /\ StateRank(State(l)) <= At(TotalIn(job[q].rows[i], job[q].day))
    BY DEF StatusIsOfItsTime
  <2> PICK l : l = LimitOf(q, i)
    OBVIOUS
  <2>1. /\ l \in Limit /\ job[q].floor[i] \in Nat /\ Consumed(l) \in Nat
        /\ TotalIn(job[q].rows[i], job[q].day) \in Nat
        /\ job[q].floor[i] <= Consumed(l)
        /\ Consumed(l) <= TotalIn(job[q].rows[i], job[q].day)
    BY MeasuredLimits
  <2> QED
    BY <2>1, StateGrowsWithSpend DEF State
<1> QED
  BY <1>1, MeasuredInTime, PTL
=============================================================================
