------------------------------ MODULE MCCosts ------------------------------
EXTENDS Costs

MCTenants == {"t1", "t2"}
MCSubjects == {"s"}
MCPlants == {"p1", "p2"}
MCDepartments == {"d1"}

MCSpellings == {"per_1M_tokens", "per 1k tokens", "per call"}
MCUnitOf ==
  [s \in MCSpellings |-> CASE s = "per_1M_tokens" -> "per_1m_tokens"
                           [] s = "per 1k tokens" -> "per_1k_tokens" [] OTHER -> None]

Used(input, output, source) == [input |-> input, output |-> output, source |-> source]
Rates(input, output, unit) == [input |-> input, output |-> output, unit |-> unit]
NoTools == [calls |-> 0, rate |-> None]

Job(tenant, plant, department, model, outcome, used, pricing, tools, estimate) ==
  [tenant |-> tenant, plant |-> plant, department |-> department, model |-> model, agent |-> None,
   outcome |-> outcome, usage |-> used, pricing |-> pricing, tools |-> tools,
   infrastructure |-> None, estimate |-> estimate]

\* Measured, with an estimate of the plan beside it; measured but with a tool;
\* of unknown tokens; in an unknown unit; counted locally, in another tenant;
\* blocked before it had a model; today's executions, without any price.
MCWork ==
  LET reported == Used(2, 1, "PROVIDER_REPORTED")
      perK == Rates(1, 2, "per 1k tokens")
      perM == Rates(1, 2, "per_1M_tokens")
  IN  {Job("t1", "p1", "d1", "m1", "success", reported, perM, NoTools, 5),
       Job("t1", "p2", None, "m1", "success", reported, perK, [calls |-> 1, rate |-> 1], None),
       Job("t1", "p1", None, "m2", "success", Used(2, None, "PROVIDER_REPORTED"), perM, NoTools, 5),
       Job("t2", "p1", "d1", "m1", "success", Used(3, 1, "ESTIMATED"), perK, NoTools, None),
       Job("t1", None, "d1", None, "blocked", reported, perM, NoTools, 5),
       Job("t1", "p1", "d1", "m1", "success", reported, Rates(1, 2, "per call"), NoTools, None)}

Reader(tenant, assignments) == [subject |-> "s", tenant |-> tenant, assignments |-> assignments]
Holds(role, type, id) == [role |-> role, type |-> type, id |-> id]

Analyst == Reader("t1", {Holds("ANALYST", "TENANT", "t1")})
Manager == Reader("t1", {Holds("PLANT_MANAGER", "PLANT", "p1"), Holds("VIEWER", "DEPARTMENT", "d1")})
Visitor == Reader("t2", {Holds("VIEWER", "TENANT", "t2")})

Asks(caller, plant, from, to) ==
  [caller |-> caller, plant |-> plant, department |-> None, from |-> from, to |-> to]

MCQuestions ==
  {Asks(Analyst, None, None, None), Asks(Analyst, "p1", None, 1), Asks(Analyst, None, 1, 1),
   Asks(Manager, None, None, None), Asks(Visitor, None, 0, None)}

\* Hours are instants; a day holds two of them.
MCBucketOf == [g \in {"hour", "day"} |-> [t \in 0..MaxTime |-> IF g = "hour" THEN t ELSE t \div 2]]
=============================================================================
