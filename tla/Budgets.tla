------------------------------ MODULE Budgets ------------------------------
(***************************************************************************)
(* Budget rows and what is decided from them (api/v1/routes/budgets.py,    *)
(* services/budget_service.py, repositories/budget_repository.py).         *)
(* Creates and updates are sessions that read, then commit; an evaluation  *)
(* lists the rows in one query and measures the spend of each in another,  *)
(* while other sessions change rows and record costs.                      *)
(***************************************************************************)
EXTENDS BudgetPolicy, Sums

CONSTANTS
  Ids,        \* budgets that may be created
  Scopes,     \* scopes a budget may be set at
  TypeOf,     \* scope_type of each scope
  Places,     \* places spend is recorded at
  Sources,    \* places and provenances spend may be recorded with
  Covers,     \* the places each scope's spend query matches
  Offers,     \* scopes and terms a budget may be created with
  Patches,    \* what a PATCH may set, as functions from some of the columns
  Days,       \* instants, as days
  Calendar,   \* for each period, the number of the one a day falls in
  Currencies, \* what amounts are given in
  Rates,      \* what a unit of each convertible currency is worth, in the unit of spend
  Costs,      \* what an evaluated request may cost
  Ceilings,   \* the limits an evaluated request may carry itself
  Requests,   \* requests served at the same time
  MaxReaders, \* bound on those that measure spend at the same time
  MaxSpend,   \* bound on the spend of one cell of the ledger
  MaxUpdates  \* bound on the updates committed or begun

Periods == DOMAIN Calendar
Kinds   == {"ACTUAL", "ESTIMATED"}
Cells   == Days \X Places \X Kinds
Status  == {"ACTIVE", "INACTIVE", "EXCEEDED"}
Term    == [amount: Nat \ {0}, warning: 1..100, critical: 1..100,
            period: Periods, currency: Currencies]
Columns == {"amount", "warning", "critical", "period", "status"}

ASSUME BudgetsAssumption ==
  /\ Offers \subseteq Scopes \X Term
  /\ \A p \in Patches :
       /\ DOMAIN p \subseteq Columns
       /\ "amount" \in DOMAIN p => p.amount \in Nat \ {0}
       /\ "warning" \in DOMAIN p => p.warning \in 1..100
       /\ "critical" \in DOMAIN p => p.critical \in 1..100
       /\ "period" \in DOMAIN p => p.period \in Periods
       /\ "status" \in DOMAIN p => p.status \in Status
  /\ \A s \in Scopes : TypeOf[s] \in ScopeTypes \ {"REQUEST"} /\ Covers[s] \subseteq Places
  /\ Sources \subseteq Places \X Kinds
  /\ \A p \in Periods : Calendar[p] \in [Days -> Nat]
  /\ Days \subseteq Nat /\ IsFiniteSet(Days) /\ IsFiniteSet(Places) /\ Costs \subseteq Nat
  /\ Ceilings \subseteq [amount: Nat, currency: Currencies]
  /\ Rates \in [DOMAIN Rates -> Nat]
  /\ MaxReaders \in Nat /\ MaxSpend \in Nat /\ MaxUpdates \in Nat

VARIABLES
  row,      \* the budgets table; Absent before the insert
  ledger,   \* cost events joined with usage events, by day, place and provenance
  today,    \* the clock
  job,      \* what each request is doing
  stale,    \* history: creates and updates whose check no longer holds
  updates   \* updates committed

vars == <<row, ledger, today, job, stale, updates>>

Absent == [status |-> "ABSENT"]
Row    == [status: Status, scope: Scopes, amount: Nat \ {0}, warning: 1..100,
           critical: 1..100, period: Periods, currency: Currencies]
Spend  == [actual: Nat, estimated: Nat]

ReadingKinds == {"evaluate", "status"}

Idle    == [kind |-> "idle"]
Create  == [kind: {"create"}, scope: Scopes, terms: Term]
Update  == [kind: {"update"}, id: Ids, was: Row, now: Row]
Reading(listed, measured) ==
  [kind: ReadingKinds, day: Days, cost: Nat,
   ceiling: SUBSET Ceilings,
   rows: [listed -> Row],       \* as the listing query returned them
   floor: [listed -> Nat],      \* history: their spend at that moment
   spent: [measured -> Spend]]  \* the spend of those measured so far

TypeOK ==
  /\ row \in [Ids -> {Absent} \cup Row]
  /\ ledger \in [Cells -> Nat]
  /\ today \in Days
  /\ stale \subseteq Requests
  /\ updates \in Nat
  /\ \A q \in Requests :
       \/ job[q] \in {Idle} \cup Create \cup Update
       \/ \E listed \in SUBSET Ids, measured \in SUBSET Ids :
            measured \subseteq listed /\ job[q] \in Reading(listed, measured)

Init ==
  /\ row = [i \in Ids |-> Absent]
  /\ ledger = [c \in Cells |-> 0]
  /\ today \in Days /\ \A d \in Days : today <= d
  /\ job = [q \in Requests |-> Idle]
  /\ stale = {}
  /\ updates = 0

Stored    == {i \in Ids : row[i] # Absent}
Active(s) == {i \in Stored : row[i].status = "ACTIVE" /\ row[i].scope = s}

-----------------------------------------------------------------------------
(* Creating a budget.                                                      *)

\* Mutant: a scope that has a budget may get another.
BeginCreateUnchecked(q, s, t) ==
  /\ job[q] = Idle
  /\ job' = [job EXCEPT ![q] = [kind |-> "create", scope |-> s, terms |-> t]]
  /\ UNCHANGED <<row, ledger, today, stale, updates>>

\* get_for_scope: one active row is refused, two make the query itself raise.
BeginCreate(q, s, t) ==
  /\ job[q] = Idle
  /\ Active(s) = {}
  /\ job' = [job EXCEPT ![q] = [kind |-> "create", scope |-> s, terms |-> t]]
  /\ UNCHANGED <<row, ledger, today, stale, updates>>

\* q has made row i into r: some of the requests still open looked before that.
Close(q, i, r) ==
  /\ job' = [job EXCEPT ![q] = Idle]
  /\ stale' = (stale \ {q}) \cup
       {p \in Requests \ {q} :
          \/ job[p].kind = "create" /\ job[p].scope = r.scope /\ r.status = "ACTIVE"
          \/ job[p].kind = "update" /\ job[p].id = i}

Created(scope, t) ==
  [status |-> "ACTIVE", scope |-> scope, amount |-> t.amount, warning |-> t.warning,
   critical |-> t.critical, period |-> t.period, currency |-> t.currency]

CommitCreate(q, i) ==
  /\ job[q].kind = "create"
  /\ row[i] = Absent
  /\ row' = [row EXCEPT ![i] = Created(job[q].scope, job[q].terms)]
  /\ Close(q, i, row'[i])
  /\ UNCHANGED <<ledger, today, updates>>

-----------------------------------------------------------------------------
(* Updating a budget.                                                      *)

Set(r, patch) == [c \in DOMAIN r |-> IF c \in DOMAIN patch THEN patch[c] ELSE r[c]]

\* Mutant: the thresholds are compared before the patch is set.
ThresholdsAcceptedBefore(was, now) == was.warning <= was.critical

ThresholdsAccepted(was, now) == now.warning <= now.critical

BeginUpdate(q, i, patch) ==
  /\ job[q] = Idle
  /\ i \in Stored
  /\ updates + Cardinality({p \in Requests : job[p].kind = "update"}) < MaxUpdates
  /\ ThresholdsAccepted(row[i], Set(row[i], patch))
  /\ job' = [job EXCEPT ![q] = [kind |-> "update", id |-> i, was |-> row[i],
                                now |-> Set(row[i], patch)]]
  /\ UNCHANGED <<row, ledger, today, stale, updates>>

\* The unit of work writes the columns that differ from the row as loaded.
Flushed(current, was, now) ==
  [c \in DOMAIN current |-> IF now[c] # was[c] THEN now[c] ELSE current[c]]

CommitUpdate(q) ==
  /\ job[q].kind = "update"
  /\ LET i == job[q].id IN
       /\ row' = [row EXCEPT ![i] = Flushed(row[i], job[q].was, job[q].now)]
       /\ Close(q, i, row'[i])
  /\ updates' = updates + 1
  /\ UNCHANGED <<ledger, today>>

-----------------------------------------------------------------------------
(* Measuring and deciding.                                                 *)

Window(period, day) == {d \in Days : Calendar[period][d] = Calendar[period][day]}

SpendForScope(s, days, kind) == SumOver(ledger, days \X Covers[s] \X {kind})

SpentIn(r, day) ==
  LET days == Window(r.period, day)
  IN  [actual    |-> SpendForScope(r.scope, days, "ACTUAL"),
       estimated |-> SpendForScope(r.scope, days, "ESTIMATED")]

\* History: all the spend recorded in the budget's period, by any means.
TotalIn(r, day) ==
  SumOver(ledger, {c \in Cells : /\ Calendar[r.period][c[1]] = Calendar[r.period][day]
                                 /\ c[2] \in Covers[r.scope]})

CanConvert(x) == x.currency \in DOMAIN Rates

\* The base currency has the rate of the unit itself; no rate, no conversion.
ToBase(x) == IF CanConvert(x) THEN x.amount * Rates[x.currency] ELSE x.amount

\* Spend is in base currency already: it is the budget that is converted.
ToLimit(r, spent) ==
  [type |-> TypeOf[r.scope], amount |-> ToBase(r), actual |-> spent.actual,
   estimated |-> spent.estimated, warning |-> r.warning, critical |-> r.critical,
   evaluable |-> CanConvert(r)]

\* The request's own ceiling is a limit without consumption.
RequestLimit(ceiling) ==
  [type |-> "REQUEST", amount |-> ToBase(ceiling), actual |-> 0, estimated |-> 0,
   warning |-> 80, critical |-> 95, evaluable |-> CanConvert(ceiling)]

BeginReading(q, kind, ids, cost, ceiling) ==
  /\ job[q] = Idle
  /\ Cardinality({p \in Requests : job[p].kind \in ReadingKinds}) < MaxReaders
  /\ job' = [job EXCEPT ![q] =
               [kind |-> kind, day |-> today, cost |-> cost, ceiling |-> ceiling,
                rows |-> [i \in ids |-> row[i]],
                floor |-> [i \in ids |-> TotalIn(row[i], today)],
                spent |-> <<>>]]
  /\ UNCHANGED <<row, ledger, today, stale, updates>>

\* list_for_scopes: the enterprise's, the tenant's and the place's own.
BeginEvaluate(q, place, cost, ceiling) ==
  LET scopes == {s \in Scopes : place \in Covers[s]}
  IN  BeginReading(q, "evaluate", UNION {Active(s) : s \in scopes}, cost, ceiling)

\* GET /budgets/status measures rows of every status, for no request.
BeginStatus(q) == BeginReading(q, "status", Stored, 0, {})

\* Mutant: the period is taken from the clock of the moment.
MeasureToday(q, i) ==
  /\ job[q].kind \in ReadingKinds
  /\ i \in DOMAIN job[q].rows \ DOMAIN job[q].spent
  /\ job' = [job EXCEPT ![q].spent =
               [j \in DOMAIN @ \cup {i} |->
                  IF j = i THEN SpentIn(job[q].rows[i], today) ELSE @[j]]]
  /\ UNCHANGED <<row, ledger, today, stale, updates>>

\* _to_limit, for the listed rows in any order.
Measure(q, i) ==
  /\ job[q].kind \in ReadingKinds
  /\ i \in DOMAIN job[q].rows \ DOMAIN job[q].spent
  /\ job' = [job EXCEPT ![q].spent =
               [j \in DOMAIN @ \cup {i} |->
                  IF j = i THEN SpentIn(job[q].rows[i], job[q].day) ELSE @[j]]]
  /\ UNCHANGED <<row, ledger, today, stale, updates>>

Measured(q) ==
  /\ job[q].kind \in ReadingKinds
  /\ DOMAIN job[q].spent = DOMAIN job[q].rows

LimitOf(q, i) == ToLimit(job[q].rows[i], job[q].spent[i])

Limits(q) ==
  {LimitOf(q, i) : i \in DOMAIN job[q].rows} \cup {RequestLimit(c) : c \in job[q].ceiling}

Decision(q) == Decide(Limits(q), job[q].cost)

-----------------------------------------------------------------------------
(* A request is answered, or lost: it commits nothing more either way.     *)
Leave(q) ==
  /\ job[q] # Idle
  /\ job' = [job EXCEPT ![q] = Idle]
  /\ stale' = stale \ {q}
  /\ UNCHANGED <<row, ledger, today, updates>>

RecordCost(source) ==
  /\ ledger[<<today, source[1], source[2]>>] < MaxSpend
  /\ ledger' = [ledger EXCEPT ![<<today, source[1], source[2]>>] = @ + 1]
  /\ UNCHANGED <<row, today, job, stale, updates>>

NextDay ==
  /\ today + 1 \in Days
  /\ today' = today + 1
  /\ UNCHANGED <<row, ledger, job, stale, updates>>

Next ==
  \/ \E q \in Requests, o \in Offers : BeginCreate(q, o[1], o[2])
  \/ \E q \in Requests, i \in Ids : CommitCreate(q, i)
  \/ \E q \in Requests, i \in Ids, p \in Patches : BeginUpdate(q, i, p)
  \/ \E q \in Requests : CommitUpdate(q)
  \/ \E q \in Requests, p \in Places, c \in Costs, l \in {{}} \cup {{c} : c \in Ceilings} :
       BeginEvaluate(q, p, c, l)
  \/ \E q \in Requests : BeginStatus(q)
  \/ \E q \in Requests, i \in Ids : Measure(q, i)
  \/ \E q \in Requests : Leave(q)
  \/ \E s \in Sources : RecordCost(s)
  \/ NextDay

Spec == Init /\ [][Next]_vars
-----------------------------------------------------------------------------
(* Properties.                                                             *)

Commits(q) == job[q].kind \in {"create", "update"} /\ job'[q] = Idle /\ row' # row

(***************************************************************************)
(* A scope gets a second active budget in two ways only: a create that     *)
(* began before the first one was committed (create_budget reads, then     *)
(* inserts), or a PATCH that switches an inactive row on (update_budget    *)
(* does not look at the scope).                                            *)
(***************************************************************************)
SecondActiveOnlyByRaceOrPatch ==
  [][\A s \in Scopes :
       Active(s) # {} /\ ~(Active(s)' \subseteq Active(s)) =>
         \E q \in Requests :
           /\ Commits(q)
           /\ \/ job[q].kind = "create" /\ job[q].scope = s /\ q \in stale
              \/ /\ job[q].kind = "update" /\ row[job[q].id].scope = s
                 /\ job[q].was.status # "ACTIVE" /\ job[q].now.status = "ACTIVE"]_vars

(***************************************************************************)
(* An update that no other update of its row overtook leaves the warning   *)
(* threshold at or below the critical one, even on a row created with the  *)
(* two crossed (create does not compare them).                             *)
(***************************************************************************)
LoneUpdateOrdersThresholds ==
  [][\A q \in Requests :
       job[q].kind = "update" /\ q \notin stale /\ Commits(q) =>
         row'[job[q].id].warning <= row'[job[q].id].critical]_vars

Evaluated == {q \in Requests : job[q].kind = "evaluate" /\ Measured(q)}

(***************************************************************************)
(* A request is blocked whenever one of the active budgets above it was    *)
(* already spent when the evaluation began, at its worth in the currency   *)
(* of the spend, whatever the others say and however long the measuring    *)
(* takes (BudgetService.evaluate).                                         *)
(***************************************************************************)
SpentBudgetBlocks ==
  \A q \in Evaluated :
    (\E i \in DOMAIN job[q].rows :
       CanConvert(job[q].rows[i]) /\ job[q].floor[i] >= ToBase(job[q].rows[i])) =>
      Decision(q) = "BLOCK"

(***************************************************************************)
(* A request is blocked only when some budget listed for it, in a currency *)
(* that can be compared, is spent by now, or its ceiling is nothing at     *)
(* all.                                                                    *)
(***************************************************************************)
BlockHasCause ==
  \A q \in Evaluated :
    Decision(q) = "BLOCK" =>
      \/ \E i \in DOMAIN job[q].rows :
           /\ CanConvert(job[q].rows[i])
           /\ TotalIn(job[q].rows[i], job[q].day) >= ToBase(job[q].rows[i])
      \/ \E c \in job[q].ceiling : ToBase(c) = 0

StateRank(s) ==
  CASE s = "NORMAL" -> 0 [] s = "WARNING" -> 1 [] s = "CRITICAL" -> 2 [] OTHER -> 3

(***************************************************************************)
(* The threshold state that GET /budgets/status reports for a row lies     *)
(* between what was true when the rows were listed and what is true now,   *)
(* with crossed thresholds as with ordered ones.                           *)
(***************************************************************************)
StatusIsOfItsTime ==
  \A q \in Requests : job[q].kind = "status" /\ Measured(q) =>
    \A i \in {j \in DOMAIN job[q].rows : CanConvert(job[q].rows[j])} :
      LET l == LimitOf(q, i)
          At(total) == StateRank(ClassifyState(total, l))
      IN  /\ At(job[q].floor[i]) <= StateRank(State(l))
          /\ StateRank(State(l)) <= At(TotalIn(job[q].rows[i], job[q].day))
=============================================================================
