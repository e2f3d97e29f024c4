---------------------------- MODULE SpendProofs ----------------------------
(***************************************************************************)
(* What is recorded as spent, and what is advised about it.                *)
(*                                                                         *)
(* Costs.  The two tables stay paired, and what they call an actual cost   *)
(* was measured, for any executions, rates and failures.  The argument: a  *)
(* row that waits for its commit, or is committed, is the one built from   *)
(* the work of its execution, and an execution runs once.  A page is then  *)
(* made of the events it knows: the rows its query found are, one for one, *)
(* those of the executions its caller may open, so the summary is their    *)
(* total, and the groups of a breakdown share the rows among them.  Costs  *)
(* takes the rules of scope by INSTANCE, so the facts about them that are  *)
(* used here are shown again, in the terms of Costs.                       *)
(*                                                                         *)
(* Advice.  A claim has its evidence, for any metrics, histories, mixes    *)
(* and prices.  The argument: what an investigation has established is     *)
(* told by the number of nodes that ran, and what a simulation found of a  *)
(* model is what the registry said at some moment since it began; the      *)
(* registry only gains states, so that stays true while prices change.     *)
(***************************************************************************)
EXTENDS Costs, Advice, SumsProofs

USE CostsAssumption, EngineAssumption

(***************************************************************************)
(* The weakest of the components prevails (weakest): a total that has an   *)
(* estimate in it is not called actual.                                    *)
(***************************************************************************)
LEMMA WeakestPrevails ==
  ASSUME NEW S \in SUBSET Provenances, "ESTIMATED" \in S \/ "UNAVAILABLE" \in S
  PROVE  Weakest(S) # "ACTUAL"
<1>1. S # {}
  OBVIOUS
<1>2. \E p \in S : \A q \in S : Rank(p) <= Rank(q)
  <2>1. CASE "UNAVAILABLE" \in S
    BY <2>1 DEF Rank, Provenances
  <2>2. CASE "UNAVAILABLE" \notin S
    BY <2>2 DEF Rank, Provenances
  <2> QED
    BY <2>1, <2>2
<1>3. /\ Weakest(S) \in S
      /\ \A q \in S : Rank(Weakest(S)) <= Rank(q)
  BY <1>1, <1>2 DEF Weakest
<1> QED
  BY <1>3 DEF Rank

LEMMA WeakestIsOne ==
  ASSUME NEW S \in SUBSET Provenances
  PROVE  Weakest(S) \in Provenances
<1>1. CASE S = {}
  BY <1>1 DEF Weakest, Provenances
<1>2. CASE S # {}
  <2>1. \E p \in S : \A q \in S : Rank(p) <= Rank(q)
    <3>1. CASE "UNAVAILABLE" \in S
      BY <3>1 DEF Rank, Provenances
    <3>2. CASE "UNAVAILABLE" \notin S /\ "ESTIMATED" \in S
      BY <3>2 DEF Rank, Provenances
    <3>3. CASE S = {"ACTUAL"}
      BY <3>3 DEF Rank
    <3> QED
      BY <1>2, <3>1, <3>2, <3>3 DEF Provenances
  <2> QED
    BY <1>2, <2>1 DEF Weakest
<1> QED
  BY <1>1, <1>2

(***************************************************************************)
(* compute_cost says ACTUAL of nothing but measured tokens at configured   *)
(* rates in a known unit, with no estimate in the total.                   *)
(***************************************************************************)
THEOREM NeverFabricated ==
  \A used, pricing, infrastructure : \A tools \in ToolUsage :
    ComputeCost(used, pricing, tools, infrastructure).provenance = "ACTUAL" =>
      /\ used.source = "PROVIDER_REPORTED"
      /\ None \notin {used.input, used.output, pricing.input, pricing.output, Unit(pricing)}
      /\ infrastructure = None
      /\ tools.calls = 0 \/ tools.rate = None
<1> SUFFICES ASSUME NEW used, NEW pricing, NEW infrastructure, NEW tools \in ToolUsage,
                    ComputeCost(used, pricing, tools, infrastructure).provenance = "ACTUAL"
             PROVE  /\ used.source = "PROVIDER_REPORTED"
                    /\ None \notin {used.input, used.output, pricing.input, pricing.output,
                                    Unit(pricing)}
                    /\ infrastructure = None
                    /\ tools.calls = 0 \/ tools.rate = None
  OBVIOUS
<1> DEFINE unit   == Unit(pricing)
           input  == TokenCost(used.input, pricing.input, unit)
           output == TokenCost(used.output, pricing.output, unit)
           tool   == ToolCost(tools)
<1>1. IsUsable(pricing) /\ None \notin {input, output}
  BY DEF ComputeCost, Uncosted
<1>2. ResolveProvenance(used.source, tool, infrastructure) = "ACTUAL"
  BY <1>1 DEF ComputeCost
<1>3. used.source = "PROVIDER_REPORTED" /\ tool = None /\ infrastructure = None
  <2> DEFINE S == {IF used.source = "PROVIDER_REPORTED" THEN "ACTUAL" ELSE "ESTIMATED"}
                    \union (IF tool # None \/ infrastructure # None THEN {"ESTIMATED"} ELSE {})
  <2>1. S \in SUBSET Provenances /\ Weakest(S) = "ACTUAL"
    BY <1>2 DEF ResolveProvenance, Provenances
  <2>2. "ESTIMATED" \notin S
    BY <2>1, WeakestPrevails
  <2> QED
    BY <2>2
<1>4. tools.calls = 0 \/ tools.rate = None
  <2>1. tools.calls \in Nat /\ tools.rate \in Nat \union {None}
    BY DEF ToolUsage, Optional
  <2>2. ~(tools.calls > 0 /\ tools.rate # None)
    <3> SUFFICES ASSUME tools.calls > 0, tools.rate # None
                 PROVE  FALSE
      OBVIOUS
    <3>1. tool \in Nat
      BY <2>1 DEF ToolCost
    <3> QED
      BY <3>1, <1>3
  <2> QED
    BY <2>1, <2>2
<1>5. None \notin {used.input, used.output, pricing.input, pricing.output, Unit(pricing)}
  BY <1>1 DEF IsUsable, TokenCost
<1> QED
  BY <1>3, <1>4, <1>5

-----------------------------------------------------------------------------
Ran(e) == doing[e] \in Work

WaitingIsBuilt ==
  \A e \in Executions :
    \A rows \in pending[e] :
      Ran(e) /\ rows.usage.id = e /\ rows.cost = BuildCostEvent(e, doing[e])

WaitingIsNotStored ==
  \A e \in Executions :
    pending[e] # {} => (\A u \in usage : u.id # e) /\ (\A c \in costs : c.of # e)

StoredIsBuilt ==
  /\ \A u \in usage : u.id \in Executions /\ Ran(u.id)
  /\ \A c \in costs : c.of \in Executions /\ Ran(c.of) /\ c = BuildCostEvent(c.of, doing[c.of])

Paired ==
  /\ \A u \in usage : \E c \in costs : c.of = u.id
  /\ \A c \in costs : \E u \in usage : u.id = c.of
  /\ \A u, v \in usage : u.id = v.id => u = v

CostsInv ==
  /\ doing \in [Executions -> Work \union {None}]
  /\ DOMAIN pending = Executions
  /\ \A e \in Executions : \A r, s \in pending[e] : r = s
  /\ WaitingIsBuilt
  /\ WaitingIsNotStored
  /\ StoredIsBuilt
  /\ Paired

LEMMA CostsInvInit == Init => CostsInv
BY DEF Init, CostsInv, WaitingIsBuilt, WaitingIsNotStored, StoredIsBuilt, Paired

LEMMA ExecuteKeeps ==
  ASSUME CostsInv, NEW e \in Executions, NEW w \in Work, Execute(e, w)
  PROVE  CostsInv'
<1> DEFINE rows == [usage |-> BuildUsageEvent(e, w), cost |-> BuildCostEvent(e, w)]
<1>1. /\ doing[e] = None /\ ~Ran(e)
      /\ doing' = [doing EXCEPT ![e] = w]
      /\ pending' = [pending EXCEPT ![e] = {rows}]
      /\ usage' = usage /\ costs' = costs
  BY DEF Execute, Ran
<1>2. /\ doing' \in [Executions -> Work \union {None}]
      /\ DOMAIN pending' = Executions
      /\ doing'[e] = w /\ pending'[e] = {rows}
      /\ \A d \in Executions \ {e} : doing'[d] = doing[d] /\ pending'[d] = pending[d]
  BY <1>1 DEF CostsInv
<1>3. rows.usage.id = e /\ rows.cost = BuildCostEvent(e, w)
  BY DEF BuildUsageEvent
<1>4. \A d \in Executions : BuildCostEvent(d, w)' = BuildCostEvent(d, w)
  BY DEF BuildCostEvent, Result
<1>5. \A u \in usage : u.id # e
  BY <1>1 DEF CostsInv, StoredIsBuilt
<1>6. \A c \in costs : c.of # e
  BY <1>1 DEF CostsInv, StoredIsBuilt
<1>7. \A d \in Executions : \A r, s \in pending'[d] : r = s
  BY <1>2 DEF CostsInv
<1>8. WaitingIsBuilt'
  BY <1>2, <1>3 DEF CostsInv, WaitingIsBuilt, Ran, BuildCostEvent, Result
<1>9. WaitingIsNotStored'
  BY <1>1, <1>2, <1>5, <1>6 DEF CostsInv, WaitingIsNotStored
<1>10. StoredIsBuilt'
  BY <1>1, <1>2, <1>5, <1>6 DEF CostsInv, StoredIsBuilt, Ran, BuildCostEvent, Result
<1>11. Paired'
  BY <1>1 DEF CostsInv, Paired
<1> QED
  BY <1>2, <1>7, <1>8, <1>9, <1>10, <1>11 DEF CostsInv

LEMMA CommitKeeps ==
  ASSUME CostsInv, NEW e \in Executions, Commit(e)
  PROVE  CostsInv'
<1>1. PICK rows \in pending[e] :
        /\ usage' = usage \union {rows.usage}
        /\ costs' = costs \union {rows.cost}
        /\ pending' = [pending EXCEPT ![e] = {}]
        /\ doing' = doing
  BY DEF Commit
<1>2. Ran(e) /\ rows.usage.id = e /\ rows.cost = BuildCostEvent(e, doing[e])
  BY <1>1 DEF CostsInv, WaitingIsBuilt
<1>3. rows.cost.of = e
  BY <1>2 DEF BuildCostEvent
<1>4. (\A u \in usage : u.id # e) /\ (\A c \in costs : c.of # e)
  BY <1>1 DEF CostsInv, WaitingIsNotStored
<1>5. /\ DOMAIN pending' = Executions /\ pending'[e] = {}
      /\ \A d \in Executions \ {e} : pending'[d] = pending[d]
  BY <1>1 DEF CostsInv
<1>6. WaitingIsBuilt'
  BY <1>1, <1>5 DEF CostsInv, WaitingIsBuilt, Ran, BuildCostEvent, Result
<1>7. WaitingIsNotStored'
  BY <1>1, <1>2, <1>3, <1>5 DEF CostsInv, WaitingIsNotStored
<1>8. StoredIsBuilt'
  <2>1. \A d, w : BuildCostEvent(d, w)' = BuildCostEvent(d, w)
    BY DEF BuildCostEvent, Result
  <2>2. rows.usage.id \in Executions /\ rows.cost.of \in Executions
    BY <1>2, <1>3
  <2> QED
    BY <1>1, <1>2, <1>3, <2>1, <2>2 DEF CostsInv, StoredIsBuilt, Ran
<1>9. Paired'
  BY <1>1, <1>2, <1>3, <1>4 DEF CostsInv, Paired
<1>10. \A d \in Executions : \A r, s \in pending'[d] : r = s
  BY <1>5 DEF CostsInv
<1> QED
  BY <1>1, <1>5, <1>6, <1>7, <1>8, <1>9, <1>10 DEF CostsInv

LEMMA LoseKeeps ==
  ASSUME CostsInv, NEW e \in Executions, Lose(e)
  PROVE  CostsInv'
<1>1. /\ pending' = [pending EXCEPT ![e] = {}]
      /\ doing' = doing /\ usage' = usage /\ costs' = costs
  BY DEF Lose
<1>2. /\ DOMAIN pending' = Executions /\ pending'[e] = {}
      /\ \A d \in Executions \ {e} : pending'[d] = pending[d]
  BY <1>1 DEF CostsInv
<1> QED
  BY <1>1, <1>2 DEF CostsInv, WaitingIsBuilt, WaitingIsNotStored, StoredIsBuilt, Paired,
                    Ran, BuildCostEvent, Result

LEMMA CostsInvStep == CostsInv /\ [Next]_vars => CostsInv'
<1> SUFFICES ASSUME CostsInv, [Next]_vars
             PROVE  CostsInv'
  OBVIOUS
<1>1. CASE \E e \in Executions, w \in Work : Execute(e, w)
  BY <1>1, ExecuteKeeps
<1>2. CASE \E e \in Executions : Commit(e)
  BY <1>2, CommitKeeps
<1>3. CASE \E e \in Executions : Lose(e)
  BY <1>3, LoseKeeps
<1>4. CASE UNCHANGED <<doing, pending, usage, costs>>
  BY <1>4 DEF CostsInv, WaitingIsBuilt, WaitingIsNotStored, StoredIsBuilt, Paired,
              Ran, BuildCostEvent, Result
<1> QED
  BY <1>1, <1>2, <1>3, <1>4
  DEF Next, vars, Tick, OpenPage, AddParts, AddBreakdown, AddTrend, ClosePage

(***************************************************************************)
(* The invariant of recording holds in every reachable state.              *)
(***************************************************************************)
THEOREM CostsInvariant == Spec => []CostsInv
BY CostsInvInit, CostsInvStep, PTL DEF Spec

LEMMA AtMostOne ==
  ASSUME NEW S, \A u, v \in S : u = v
  PROVE  Cardinality(S) <= 1
<1>1. CASE S = {}
  BY <1>1, FS_EmptySet
<1>2. ASSUME NEW u \in S PROVE Cardinality(S) <= 1
  <2>1. S = {u}
    OBVIOUS
  <2>2. Cardinality(S) = 1
    BY <2>1, FS_Singleton
  <2> QED
    BY <2>2
<1> QED
  BY <1>1, <1>2

LEMMA PairedCounts == CostsInv => RecordedTogether
<1> SUFFICES ASSUME CostsInv
             PROVE  RecordedTogether
  OBVIOUS
<1>1. {u.id : u \in usage} = {c.of : c \in costs}
  BY DEF CostsInv, Paired
<1>2. ASSUME NEW e \in Executions
      PROVE  Cardinality({u \in usage : u.id = e}) <= 1
  <2>1. \A u, v \in {x \in usage : x.id = e} : u = v
    BY DEF CostsInv, Paired
  <2> QED
    BY <2>1, AtMostOne
<1>3. ASSUME NEW e \in Executions
      PROVE  Cardinality({c \in costs : c.of = e}) <= 1
  <2>1. \A c, d \in {x \in costs : x.of = e} : c = d
    BY DEF CostsInv, StoredIsBuilt
  <2> QED
    BY <2>1, AtMostOne
<1>4. \A e \in Executions : pending[e] # {} => \A u \in usage : u.id # e
  BY DEF CostsInv, WaitingIsNotStored
<1> QED
  BY <1>1, <1>2, <1>3, <1>4 DEF RecordedTogether

(***************************************************************************)
(* Usage events and cost events stay paired, one pair for an execution.    *)
(***************************************************************************)
THEOREM RecordedTogetherHolds == Spec => []RecordedTogether
BY CostsInvariant, PairedCounts, PTL

LEMMA MeasuredIfActual == CostsInv => ActualIsMeasured
<1> SUFFICES ASSUME CostsInv, NEW c \in costs, c.actual # None \/ c.provenance = "ACTUAL"
             PROVE  LET w == doing[c.of]
                    IN  /\ w.outcome = "success"
                        /\ w.usage.source = "PROVIDER_REPORTED"
                        /\ None \notin {w.usage.input, w.usage.output, w.pricing.input,
                                        w.pricing.output, Unit(w.pricing)}
                        /\ w.infrastructure = None
                        /\ w.tools.calls = 0 \/ w.tools.rate = None
  BY DEF ActualIsMeasured
<1> DEFINE w == doing[c.of]
<1>1. w \in Work /\ c = BuildCostEvent(c.of, w)
  BY DEF CostsInv, StoredIsBuilt, Ran
<1>2. Result(w).provenance = "ACTUAL"
  BY <1>1 DEF BuildCostEvent
<1>3. /\ w.outcome = "success"
      /\ ComputeCost(w.usage, w.pricing, w.tools, w.infrastructure).provenance = "ACTUAL"
  BY <1>2 DEF Result
<1>4. w.tools \in ToolUsage
  BY <1>1
<1>5. ASSUME NEW x \in Work,
             ComputeCost(x.usage, x.pricing, x.tools, x.infrastructure).provenance = "ACTUAL"
      PROVE  /\ x.usage.source = "PROVIDER_REPORTED"
             /\ None \notin {x.usage.input, x.usage.output, x.pricing.input, x.pricing.output,
                             Unit(x.pricing)}
             /\ x.infrastructure = None
             /\ x.tools.calls = 0 \/ x.tools.rate = None
  <2>1. x.tools \in ToolUsage
    OBVIOUS
  <2> QED
    BY <1>5, <2>1, NeverFabricated
<1> QED
  BY <1>1, <1>3, <1>5

(***************************************************************************)
(* No cost event of any execution calls actual what was not measured.      *)
(***************************************************************************)
THEOREM ActualIsMeasuredHolds == Spec => []ActualIsMeasured
BY CostsInvariant, MeasuredIfActual, PTL

-----------------------------------------------------------------------------
(* The rows of a query are those whose execution its caller may open.       *)

LEMMA PlantNarrows ==
  ASSUME NEW B \in SUBSET Branch, NEW plant \in Plants, NEW row
  PROVE  (\E b \in NarrowedToPlant(B, plant) : BranchCovers(b, row))
            <=> row.plant = plant /\ \E b \in B : BranchCovers(b, row)
<1> DEFINE kept == {x \in B : x.plant \in {None, plant}}
           Pinned(b) == [b EXCEPT !.plant = plant]
<1>1. plant # None
  OBVIOUS
<1>2. \A b \in kept : BranchCovers(Pinned(b), row) <=> row.plant = plant /\ BranchCovers(b, row)
  BY <1>1 DEF Branch, BranchCovers
<1>3. \A b \in B : row.plant = plant /\ BranchCovers(b, row) => b \in kept
  BY DEF BranchCovers
<1>4. NarrowedToPlant(B, plant) = {Pinned(b) : b \in kept}
  BY DEF NarrowedToPlant
<1> HIDE DEF Pinned
<1> QED
  BY <1>2, <1>3, <1>4

LEMMA DepartmentNarrows ==
  ASSUME NEW B \in SUBSET Branch, NEW department \in Departments, NEW row
  PROVE  (\E b \in NarrowedToDepartment(B, department) : BranchCovers(b, row))
            <=> row.department = department /\ \E b \in B : BranchCovers(b, row)
<1> DEFINE kept == {x \in B : x.department \in {None, department}}
           Pinned(b) == [b EXCEPT !.department = department]
<1>1. department # None
  OBVIOUS
<1>2. \A b \in kept : BranchCovers(Pinned(b), row)
                        <=> row.department = department /\ BranchCovers(b, row)
  BY <1>1 DEF Branch, BranchCovers
<1>3. \A b \in B : row.department = department /\ BranchCovers(b, row) => b \in kept
  BY DEF BranchCovers
<1>4. NarrowedToDepartment(B, department) = {Pinned(b) : b \in kept}
  BY DEF NarrowedToDepartment
<1> HIDE DEF Pinned
<1> QED
  BY <1>2, <1>3, <1>4

LEMMA BranchesCover ==
  ASSUME NEW p, NEW permission, WellScoped(p), NEW row, row.tenant = p.tenant
  PROVE  /\ Branches(p, permission) \subseteq Branch
         /\ (\E b \in Branches(p, permission) : BranchCovers(b, row))
               <=> CanAccess(p, row, permission)
<1> DEFINE usable == {a \in Granting(p, permission) : a.type = "TENANT" => a.id = p.tenant}
<1>1. \A a \in usable : BranchCovers(BranchOf(a), row) <=> AssignmentCovers(a, row)
  BY DEF Granting, BranchCovers, BranchOf, AssignmentCovers, WellScoped, ScopeTypes
<1>2. \A a \in Granting(p, permission) : AssignmentCovers(a, row) => a \in usable
  BY DEF AssignmentCovers
<1>3. BranchCovers(TenantWide, row)
  BY DEF BranchCovers, TenantWide
<1>4. (\E b \in Branches(p, permission) : BranchCovers(b, row))
         <=> \E a \in usable : BranchCovers(BranchOf(a), row)
  BY <1>3 DEF Branches
<1>5. Branches(p, permission) \subseteq Branch
  <2>1. \A a \in usable : BranchOf(a) \in Branch
    BY DEF BranchOf, Branch, Granting, WellScoped
  <2>2. TenantWide \in Branch
    BY DEF TenantWide, Branch
  <2> QED
    BY <2>1, <2>2 DEF Branches
<1> QED
  BY <1>1, <1>2, <1>4, <1>5 DEF CanAccess, RecordStatus

(***************************************************************************)
(* The predicate of a query passes the rows its caller may open one by     *)
(* one, of the plant and department asked for.                             *)
(***************************************************************************)
LEMMA QueryAgreesWithRecordCheck ==
  ASSUME NEW p, NEW permission, WellScoped(p), NEW row,
         NEW plant \in Plants \union {None}, NEW department \in Departments \union {None}
  PROVE  Selects(p.tenant, Resolve(p, permission, plant, department), row)
            <=> /\ CanAccess(p, row, permission)
                /\ plant \in {None, row.plant}
                /\ department \in {None, row.department}
<1> DEFINE all == Branches(p, permission)
           ofPlant == IF plant = None THEN all ELSE NarrowedToPlant(all, plant)
           B == Resolve(p, permission, plant, department)
<1>1. CASE row.tenant # p.tenant
  BY <1>1 DEF Selects, CanAccess, RecordStatus
<1>2. CASE row.tenant = p.tenant
  <2>1. all \subseteq Branch /\ ((\E b \in all : BranchCovers(b, row)) <=> CanAccess(p, row, permission))
    BY <1>2, BranchesCover
  <2>2. ofPlant \subseteq Branch
    BY <2>1 DEF NarrowedToPlant, Branch
  <2>3. (\E b \in ofPlant : BranchCovers(b, row))
           <=> plant \in {None, row.plant} /\ \E b \in all : BranchCovers(b, row)
    <3>1. CASE plant = None
      BY <3>1
    <3>2. CASE plant # None
      <4> HIDE DEF all
      <4> QED BY <2>1, <3>2, PlantNarrows
    <3> QED
      BY <3>1, <3>2
  <2>4. (\E b \in B : BranchCovers(b, row))
           <=> department \in {None, row.department} /\ \E b \in ofPlant : BranchCovers(b, row)
    <3>1. CASE department = None
      BY <3>1 DEF Resolve
    <3>2. CASE department # None
      <4>1. B = NarrowedToDepartment(ofPlant, department)
        BY <3>2 DEF Resolve
      <4> HIDE DEF B, ofPlant
      <4> QED BY <2>2, <3>2, <4>1, DepartmentNarrows
    <3> QED
      BY <3>1, <3>2
  <2>5. BranchCovers(TenantWide, row)
    BY DEF BranchCovers, TenantWide
  <2>6. Selects(p.tenant, B, row) <=> \E b \in B : BranchCovers(b, row)
    BY <1>2, <2>5 DEF Selects
  <2> QED
    BY <2>1, <2>3, <2>4, <2>6
<1> QED
  BY <1>1, <1>2

-----------------------------------------------------------------------------
(* What a usage event says of its execution.                                *)

IsUsageOf(u, w) ==
  /\ u.at \in Nat
  /\ u.tenant = w.tenant /\ u.plant = w.plant /\ u.department = w.department
  /\ u.tokens = Result(w).tokens

UsageInv ==
  /\ now \in Nat
  /\ IsFiniteSet(usage)
  /\ \A e \in Executions : \A rows \in pending[e] : IsUsageOf(rows.usage, doing[e])
  /\ \A u \in usage : IsUsageOf(u, doing[u.id])

LEMMA UsageInvInit == Init => UsageInv
BY FS_EmptySet DEF Init, UsageInv

LEMMA UsageInvStep ==
  ASSUME CostsInv, UsageInv, [Next]_vars
  PROVE  UsageInv'
<1>1. ASSUME NEW e \in Executions, NEW w \in Work, Execute(e, w)
      PROVE  UsageInv'
  <2> DEFINE rows == [usage |-> BuildUsageEvent(e, w), cost |-> BuildCostEvent(e, w)]
  <2>1. /\ doing[e] = None /\ now' = now /\ usage' = usage
        /\ doing' = [doing EXCEPT ![e] = w]
        /\ pending' = [pending EXCEPT ![e] = {rows}]
    BY <1>1 DEF Execute
  <2>2. /\ doing'[e] = w /\ pending'[e] = {rows}
        /\ \A d \in Executions \ {e} : doing'[d] = doing[d] /\ pending'[d] = pending[d]
    BY <2>1 DEF CostsInv
  <2>3. IsUsageOf(rows.usage, w)
    BY DEF IsUsageOf, BuildUsageEvent, UsageInv
  <2>4. \A u \in usage : u.id \in Executions \ {e}
    BY <2>1 DEF CostsInv, StoredIsBuilt, Ran
  <2>5. \A u, v : IsUsageOf(u, v)' <=> IsUsageOf(u, v)
    BY DEF IsUsageOf, Result
  <2> HIDE DEF rows
  <2> QED
    BY <2>1, <2>2, <2>3, <2>4, <2>5 DEF UsageInv
<1>2. ASSUME NEW e \in Executions, Commit(e)
      PROVE  UsageInv'
  <2>1. PICK rows \in pending[e] :
          /\ usage' = usage \union {rows.usage}
          /\ pending' = [pending EXCEPT ![e] = {}]
          /\ now' = now /\ doing' = doing
    BY <1>2 DEF Commit
  <2>2. rows.usage.id = e /\ IsUsageOf(rows.usage, doing[e])
    BY <2>1 DEF CostsInv, WaitingIsBuilt, UsageInv
  <2>3. pending'[e] = {} /\ \A d \in Executions \ {e} : pending'[d] = pending[d]
    BY <2>1 DEF CostsInv
  <2>4. IsFiniteSet(usage')
    BY <2>1, FS_AddElement DEF UsageInv
  <2>5. \A u, v : IsUsageOf(u, v)' <=> IsUsageOf(u, v)
    BY DEF IsUsageOf, Result
  <2> QED
    BY <2>1, <2>2, <2>3, <2>4, <2>5 DEF UsageInv
<1>3. ASSUME NEW e \in Executions, Lose(e)
      PROVE  UsageInv'
  <2>1. /\ pending' = [pending EXCEPT ![e] = {}]
        /\ now' = now /\ doing' = doing /\ usage' = usage
    BY <1>3 DEF Lose
  <2>2. pending'[e] = {} /\ \A d \in Executions \ {e} : pending'[d] = pending[d]
    BY <2>1 DEF CostsInv
  <2> QED
    BY <2>1, <2>2 DEF UsageInv, IsUsageOf, Result
<1>4. CASE now' \in Nat /\ UNCHANGED <<doing, pending, usage>>
  BY <1>4 DEF UsageInv, IsUsageOf, Result
<1>5. CASE UNCHANGED vars
  BY <1>4, <1>5 DEF vars, UsageInv
<1>6. CASE Tick
  BY <1>4, <1>6 DEF Tick, UsageInv
<1>7. CASE \/ \E q \in Questions : OpenPage(q)
           \/ \E d \in Dimensions : AddBreakdown(d)
           \/ \E g \in Granularities : AddTrend(g)
           \/ ClosePage
  BY <1>4, <1>7 DEF OpenPage, AddBreakdown, AddTrend, AddParts, ClosePage, UsageInv
<1> QED
  BY <1>1, <1>2, <1>3, <1>5, <1>6, <1>7 DEF Next

-----------------------------------------------------------------------------
(* The figures of an execution.                                             *)

LEMMA CostIsTyped ==
  ASSUME NEW w \in Work
  PROVE  LET c == ComputeCost(w.usage, w.pricing, w.tools, w.infrastructure)
         IN  /\ c.total \in Optional(Nat) /\ c.provenance \in Provenances
             /\ c.provenance # "UNAVAILABLE" => c.total \in Nat
<1> DEFINE unit   == Unit(w.pricing)
           input  == TokenCost(w.usage.input, w.pricing.input, unit)
           output == TokenCost(w.usage.output, w.pricing.output, unit)
           tool   == ToolCost(w.tools)
           c      == ComputeCost(w.usage, w.pricing, w.tools, w.infrastructure)
<1>1. /\ w.usage.input \in Optional(Nat) /\ w.usage.output \in Optional(Nat)
      /\ w.pricing.input \in Optional(Nat) /\ w.pricing.output \in Optional(Nat)
      /\ w.tools.calls \in Nat /\ w.tools.rate \in Optional(Nat)
      /\ w.infrastructure \in Optional(Nat)
  BY DEF TokenUsage, ModelPricing, ToolUsage
<1>2. \A u : Scale(u) \in Nat
  BY SMT DEF Scale
<1>3. ASSUME NEW tokens \in Optional(Nat), NEW rate \in Optional(Nat), NEW u
      PROVE  TokenCost(tokens, rate, u) \in Optional(Nat)
  <2>1. CASE None \in {tokens, rate}
    BY <2>1 DEF TokenCost, Optional
  <2>2. CASE None \notin {tokens, rate}
    <3>1. tokens \in Nat /\ rate \in Nat
      BY <2>2 DEF Optional
    <3>2. \A m, n \in Nat : m * n \in Nat
      OBVIOUS
    <3>3. tokens * rate * Scale(u) \in Nat
      BY <3>1, <3>2, <1>2
    <3> QED
      BY <2>2, <3>3 DEF TokenCost, Optional
  <2> QED
    BY <2>1, <2>2
<1>4. input \in Optional(Nat) /\ output \in Optional(Nat)
  BY <1>1, <1>3
<1>5. tool \in Optional(Nat)
  BY <1>1, SMT DEF ToolCost, Optional
<1>6. Charged(tool) \in Nat /\ Charged(w.infrastructure) \in Nat
  BY <1>1, <1>5 DEF Charged, Optional
<1>7. ResolveProvenance(w.usage.source, tool, w.infrastructure) \in Provenances
  <2> DEFINE S == {IF w.usage.source = "PROVIDER_REPORTED" THEN "ACTUAL" ELSE "ESTIMATED"}
                    \union (IF tool # None \/ w.infrastructure # None THEN {"ESTIMATED"} ELSE {})
  <2>1. S \in SUBSET Provenances
    BY DEF Provenances
  <2> HIDE DEF S
  <2>2. Weakest(S) \in Provenances
    BY <2>1, WeakestIsOne
  <2> QED
    BY <2>2 DEF ResolveProvenance, S
<1>8. CASE IsUsable(w.pricing) /\ None \notin {input, output}
  <2>1. input \in Nat /\ output \in Nat
    BY <1>4, <1>8 DEF Optional
  <2>2. /\ c.total = input + output + Charged(tool) + Charged(w.infrastructure)
        /\ c.provenance = ResolveProvenance(w.usage.source, tool, w.infrastructure)
    BY <1>8 DEF ComputeCost
  <2> HIDE DEF c, input, output, tool
  <2>3. c.total \in Nat
    BY <1>6, <2>1, <2>2
  <2> QED
    BY <1>7, <2>2, <2>3 DEF c, tool, Optional
<1>9. CASE ~(IsUsable(w.pricing) /\ None \notin {input, output})
  <2>1. c.total = None /\ c.provenance = "UNAVAILABLE"
    BY <1>9 DEF ComputeCost, Uncosted
  <2> QED
    BY <2>1 DEF Optional, Provenances
<1> QED
  BY <1>8, <1>9

\* The columns of a cost event, as their execution has them.
LEMMA CostEventFigures ==
  ASSUME NEW e, NEW w \in Work
  PROVE  LET c == BuildCostEvent(e, w)
             t == ComputeCost(w.usage, w.pricing, w.tools, w.infrastructure)
         IN  /\ c.of = e /\ c.provenance \in Provenances
             /\ c.actual \in Optional(Nat) /\ c.estimated \in Optional(Nat)
             /\ Result(w).tokens \in Optional(Nat)
             /\ \A p \in {"ACTUAL", "ESTIMATED"} :
                  c.provenance = p <=> w.outcome = "success" /\ t.provenance = p
             /\ c.provenance = "ACTUAL" => c.actual \in Nat /\ c.actual = ActualCost(t)
             /\ c.provenance = "ESTIMATED" => c.estimated \in Nat /\ c.estimated = EstimatedCost(t)
<1> DEFINE c == BuildCostEvent(e, w)
           t == ComputeCost(w.usage, w.pricing, w.tools, w.infrastructure)
           r == Result(w)
<1>1. /\ t.total \in Optional(Nat) /\ t.provenance \in Provenances
      /\ t.provenance # "UNAVAILABLE" => t.total \in Nat
  BY CostIsTyped
<1>2. r.tokens \in Optional(Nat)
  <2>1. w.usage.input \in Optional(Nat) /\ w.usage.output \in Optional(Nat)
    BY DEF TokenUsage
  <2> QED
    BY <2>1 DEF Result, Optional
<1> HIDE DEF t
<1>3. /\ w.outcome = "success" => r.amount = t.total /\ r.provenance = t.provenance
      /\ w.outcome # "success" => r.amount = None /\ r.provenance = "UNAVAILABLE"
  BY DEF Result, t
<1> HIDE DEF r
<1>4. /\ c.of = e /\ c.provenance = r.provenance
      /\ c.estimated = IF r.provenance = "ESTIMATED" THEN r.amount ELSE w.estimate
      /\ c.actual = IF r.provenance = "ACTUAL" THEN r.amount ELSE None
  BY DEF BuildCostEvent, r
<1>5. w.estimate \in Optional(Nat)
  OBVIOUS
<1> HIDE DEF c
<1>6. c.of = e /\ c.provenance \in Provenances
  BY <1>1, <1>3, <1>4 DEF Provenances
<1>7. c.actual \in Optional(Nat) /\ c.estimated \in Optional(Nat)
  BY <1>1, <1>3, <1>4, <1>5 DEF Optional
<1>8. \A p \in {"ACTUAL", "ESTIMATED"} :
        c.provenance = p <=> w.outcome = "success" /\ t.provenance = p
  BY <1>3, <1>4
<1>9. c.provenance = "ACTUAL" => c.actual \in Nat /\ c.actual = ActualCost(t)
  BY <1>1, <1>3, <1>4 DEF ActualCost
<1>10. c.provenance = "ESTIMATED" => c.estimated \in Nat /\ c.estimated = EstimatedCost(t)
  BY <1>1, <1>3, <1>4 DEF EstimatedCost
<1> QED
  BY <1>2, <1>6, <1>7, <1>8, <1>9, <1>10 DEF c, t, r

-----------------------------------------------------------------------------
(* The rows a query finds.                                                  *)

\* Well-made rows: the two events of one execution, each execution once.
AreRows(rows) ==
  /\ IsFiniteSet(rows)
  /\ \A r \in rows :
       /\ r.usage \in usage /\ r.usage.id \in Executions /\ Ran(r.usage.id)
       /\ r.usage.tokens \in Optional(Nat)
       /\ r.usage.tokens = Result(doing[r.usage.id]).tokens
       /\ r.cost = BuildCostEvent(r.usage.id, doing[r.usage.id])
  /\ \A r, s \in rows : r.usage.id = s.usage.id => r = s

LEMMA SomeRows ==
  ASSUME NEW rows, AreRows(rows), NEW some \in SUBSET rows
  PROVE  AreRows(some)
BY FS_Subset DEF AreRows

LEMMA RowsOfQuery ==
  ASSUME CostsInv, UsageInv, NEW q, NEW plant, NEW department
  PROVE  AreRows(BaseSelect(q, plant, department))
<1> DEFINE rows == BaseSelect(q, plant, department)
<1>1. ASSUME NEW r \in rows
      PROVE  /\ r.usage \in usage /\ r.cost \in costs /\ r.cost.of = r.usage.id
             /\ r = [usage |-> r.usage, cost |-> r.cost]
  BY <1>1 DEF BaseSelect, Joined
<1> HIDE DEF rows
<1>2. ASSUME NEW r \in rows
      PROVE  /\ r.usage.id \in Executions /\ Ran(r.usage.id)
             /\ r.cost = BuildCostEvent(r.usage.id, doing[r.usage.id])
  BY <1>1 DEF CostsInv, StoredIsBuilt
<1>3. ASSUME NEW r \in rows
      PROVE  r.usage.tokens \in Optional(Nat) /\ r.usage.tokens = Result(doing[r.usage.id]).tokens
  <2>1. r.usage.tokens = Result(doing[r.usage.id]).tokens /\ doing[r.usage.id] \in Work
    BY <1>1, <1>2 DEF UsageInv, IsUsageOf, Ran
  <2> QED
    BY <2>1, CostEventFigures
<1>4. ASSUME NEW r \in rows, NEW s \in rows, r.usage.id = s.usage.id
      PROVE  r = s
  <2>1. r.usage = s.usage
    BY <1>1, <1>4 DEF CostsInv, Paired
  <2>2. r.cost = s.cost
    BY <1>2, <1>4
  <2> QED
    BY <1>1, <2>1, <2>2
<1>5. IsFiniteSet(rows)
  <2> DEFINE event == [r \in rows |-> r.usage]
  <2>1. event \in Injection(rows, usage)
    BY <1>1, <1>4 DEF Injection, IsInjective
  <2> QED
    BY <2>1, FS_Injection DEF UsageInv
<1> QED
  BY <1>1, <1>2, <1>3, <1>4, <1>5 DEF AreRows, rows

(***************************************************************************)
(* The rows of the query behind a summary are those of the executions its  *)
(* caller may open one by one.                                             *)
(***************************************************************************)
LEMMA RowsAreReachable ==
  ASSUME CostsInv, UsageInv, NEW q \in Questions
  PROVE  {r.usage.id : r \in BaseSelect(q, q.plant, q.department)} = Reachable(q, usage)
<1> DEFINE rows == BaseSelect(q, q.plant, q.department)
           branches == Resolve(q.caller, "cost:read", q.plant, q.department)
           Asked(u) == /\ CanAccess(q.caller, u, "cost:read")
                       /\ q.plant \in {None, u.plant} /\ q.department \in {None, u.department}
           Within(u) == (q.from = None \/ q.from <= u.at) /\ (q.to = None \/ u.at <= q.to)
<1>1. /\ WellScoped(q.caller)
      /\ q.plant \in Plants \union {None} /\ q.department \in Departments \union {None}
      /\ q.from \in Optional(Nat) /\ q.to \in Optional(Nat)
  BY DEF Optional
<1>2. \A u : Selects(q.caller.tenant, branches, u) <=> Asked(u)
  BY <1>1, QueryAgreesWithRecordCheck
<1>3. ASSUME NEW u \in usage
      PROVE  /\ u.id \in Executions
             /\ Asked(u) <=> Asked(doing[u.id])
             /\ Within(u) <=> (q.from = None \/ u.at >= q.from) /\ (q.to = None \/ u.at <= q.to)
  <2>1. /\ u.tenant = doing[u.id].tenant /\ u.plant = doing[u.id].plant
        /\ u.department = doing[u.id].department /\ u.at \in Nat /\ u.id \in Executions
    BY DEF UsageInv, IsUsageOf, CostsInv, StoredIsBuilt
  <2>2. Asked(u) <=> Asked(doing[u.id])
    BY <2>1 DEF CanAccess, RecordStatus, AssignmentCovers
  <2> QED
    BY <1>1, <2>1, <2>2 DEF Optional
<1>4. ASSUME NEW u \in usage
      PROVE  Asked(u) /\ Within(u) <=> \E r \in rows : r.usage = u
  <2>1. PICK c \in costs : c.of = u.id
    BY DEF CostsInv, Paired
  <2> DEFINE row == [usage |-> u, cost |-> c]
  <2>2. row \in Joined /\ row.usage = u /\ row.cost.of = row.usage.id
    BY <2>1 DEF Joined
  <2>3. \A r \in rows : Selects(q.caller.tenant, branches, r.usage) /\ Within(r.usage)
    BY DEF BaseSelect
  <2>4. Selects(q.caller.tenant, branches, u) /\ Within(u) => row \in rows
    BY <2>2 DEF BaseSelect
  <2> HIDE DEF Asked, Within, branches, rows, row
  <2> QED
    BY <1>2, <2>2, <2>3, <2>4
<1>5. \A r \in rows : r.usage \in usage
  BY DEF BaseSelect, Joined
<1>6. \A e \in Executions :
        e \in Reachable(q, usage) <=> \E u \in usage : u.id = e /\ Asked(doing[e]) /\ Within(u)
  BY <1>3 DEF Reachable
<1>7. Reachable(q, usage) \subseteq Executions
  BY DEF Reachable
<1> HIDE DEF Asked, Within, rows
<1>8. \A u \in usage : Asked(doing[u.id]) /\ Within(u) <=> \E r \in rows : r.usage = u
  BY <1>3, <1>4
<1>9. \A r \in rows : r.usage.id \in Reachable(q, usage)
  BY <1>3, <1>5, <1>6, <1>8
<1>10. \A e \in Reachable(q, usage) : \E r \in rows : r.usage.id = e
  BY <1>6, <1>7, <1>8
<1> QED
  BY <1>9, <1>10 DEF rows

(***************************************************************************)
(* The figures of some rows, told of their executions.                     *)
(***************************************************************************)
LEMMA TotalsAreTheTruth ==
  ASSUME NEW rows, AreRows(rows)
  PROVE  LET t       == TotalsColumns(rows)
             seen    == {r.usage.id : r \in rows}
             ran     == {e \in seen : doing[e].outcome = "success"}
             priced(p) == {e \in ran : Cost(e).provenance = p}
         IN  /\ t.actual = SumOver([e \in ran |-> ActualCost(Cost(e))], priced("ACTUAL"))
             /\ t.estimated = SumOver([e \in ran |-> EstimatedCost(Cost(e))], priced("ESTIMATED"))
             /\ t.unavailable = Cardinality(seen \ (priced("ACTUAL") \union priced("ESTIMATED")))
             /\ t.requests = Cardinality(seen)
             /\ t.tokens = SumOver([e \in seen |-> Tokens(e)], seen)
             /\ t.actual \in Nat /\ t.estimated \in Nat /\ IsFiniteSet(seen)
<1> DEFINE t       == TotalsColumns(rows)
           seen    == {r.usage.id : r \in rows}
           ran     == {e \in seen : doing[e].outcome = "success"}
           priced(p) == {e \in ran : Cost(e).provenance = p}
           name    == [r \in rows |-> r.usage.id]
           of(p)   == {r \in rows : r.cost.provenance = p}
<1>1. \A r \in rows : name[r] \in seen
  OBVIOUS
<1>2. \A r, s \in rows : name[r] = name[s] => r = s
  BY DEF AreRows
<1>3. \A e \in seen : \E r \in rows : name[r] = e
  OBVIOUS
<1>4. ASSUME NEW r \in rows
      PROVE  LET c == Cost(name[r])
             IN  /\ r.cost.provenance \in Provenances
                 /\ \A p \in {"ACTUAL", "ESTIMATED"} : r.cost.provenance = p <=> name[r] \in priced(p)
                 /\ r.cost.provenance = "ACTUAL" => r.cost.actual \in Nat /\ r.cost.actual = ActualCost(c)
                 /\ r.cost.provenance = "ESTIMATED"
                      => r.cost.estimated \in Nat /\ r.cost.estimated = EstimatedCost(c)
  <2> DEFINE e == r.usage.id
  <2>1. e \in seen /\ doing[e] \in Work /\ r.cost = BuildCostEvent(e, doing[e]) /\ name[r] = e
    BY DEF AreRows, Ran
  <2> HIDE DEF e, name, seen
  <2>2. /\ r.cost.provenance \in Provenances
        /\ \A p \in {"ACTUAL", "ESTIMATED"} :
             r.cost.provenance = p <=> doing[e].outcome = "success" /\ Cost(e).provenance = p
        /\ r.cost.provenance = "ACTUAL" => r.cost.actual \in Nat /\ r.cost.actual = ActualCost(Cost(e))
        /\ r.cost.provenance = "ESTIMATED"
             => r.cost.estimated \in Nat /\ r.cost.estimated = EstimatedCost(Cost(e))
    BY <2>1, CostEventFigures DEF Cost
  <2> QED
    BY <2>1, <2>2
<1>5. IsFiniteSet(rows) /\ \A p : IsFiniteSet(of(p))
  BY FS_Subset DEF AreRows
<1> DEFINE unpriced == {r \in rows : r.cost.provenance \notin {"ACTUAL", "ESTIMATED"}}
           f == [r \in rows |-> Charged(r.cost.actual)]
           g == [e \in ran |-> ActualCost(Cost(e))]
           h == [r \in rows |-> Charged(r.cost.estimated)]
           k == [e \in ran |-> EstimatedCost(Cost(e))]
<1>6. t.actual = SumOver(f, of("ACTUAL")) /\ t.estimated = SumOver(h, of("ESTIMATED"))
  BY DEF TotalsColumns, SumWhere
<1>7. t.unavailable = Cardinality(unpriced) /\ t.requests = Cardinality(seen)
  BY DEF TotalsColumns
<1>8. \A r \in of("ACTUAL") : f[r] \in Nat /\ name[r] \in priced("ACTUAL") /\ g[name[r]] = f[r]
  BY <1>4 DEF Charged
<1>9. \A r \in of("ESTIMATED") : h[r] \in Nat /\ name[r] \in priced("ESTIMATED") /\ k[name[r]] = h[r]
  BY <1>4 DEF Charged
<1>10. \A p \in {"ACTUAL", "ESTIMATED"} :
         /\ \A r, s \in of(p) : name[r] = name[s] => r = s
         /\ \A e \in priced(p) : \E r \in of(p) : name[r] = e
  BY <1>2, <1>3, <1>4
<1>11. /\ \A r \in unpriced : name[r] \in seen \ (priced("ACTUAL") \union priced("ESTIMATED"))
       /\ \A r, s \in unpriced : name[r] = name[s] => r = s
       /\ \A e \in seen \ (priced("ACTUAL") \union priced("ESTIMATED")) :
            \E r \in unpriced : name[r] = e
  BY <1>1, <1>2, <1>3, <1>4
<1>12. IsFiniteSet(unpriced)
  BY <1>5, FS_Subset
<1> DEFINE used == [r \in rows |-> Charged(r.usage.tokens)]
           spent == [e \in seen |-> Tokens(e)]
<1>17. t.tokens = SumOver(used, rows)
  BY DEF TotalsColumns
<1>18. \A r \in rows : used[r] \in Nat /\ spent[name[r]] = used[r]
  <2> SUFFICES ASSUME NEW r \in rows
               PROVE  used[r] \in Nat /\ spent[name[r]] = used[r]
    OBVIOUS
  <2> DEFINE w == doing[r.usage.id]
  <2>1. w \in Work /\ r.usage.tokens \in Optional(Nat) /\ r.usage.tokens = Result(w).tokens
    BY DEF AreRows, Ran
  <2>2. Charged(Result(w).tokens) = Tokens(r.usage.id)
    <3> PICK v : v = w
      OBVIOUS
    <3>1. v.usage.input \in Optional(Nat) /\ v.usage.output \in Optional(Nat)
      BY <2>1 DEF TokenUsage
    <3>2. CASE v.outcome # "success" \/ None \in {v.usage.input, v.usage.output}
      BY <3>2 DEF Tokens, Result, Charged
    <3>3. CASE v.outcome = "success" /\ None \notin {v.usage.input, v.usage.output}
      <4>1. v.usage.input + v.usage.output \in Nat
        BY <3>1, <3>3 DEF Optional
      <4>2. v.usage.input + v.usage.output # None
        BY <4>1
      <4> QED
        BY <3>3, <4>2 DEF Tokens, Result, Charged
    <3> QED
      BY <3>2, <3>3
  <2>3. Charged(r.usage.tokens) \in Nat
    BY <2>1 DEF Charged, Optional
  <2>4. used[r] = Charged(r.usage.tokens) /\ spent[name[r]] = Tokens(r.usage.id)
    OBVIOUS
  <2> QED
    BY <2>1, <2>2, <2>3, <2>4
<1> HIDE DEF f, g, h, k, name, t, used, spent
<1>13. SumOver(f, of("ACTUAL")) = SumOver(g, priced("ACTUAL")) /\ SumOver(f, of("ACTUAL")) \in Nat
  <2> DEFINE S == of("ACTUAL")  T == priced("ACTUAL")
  <2>1. IsFiniteSet(S)
    BY <1>5
  <2>2. (\A r, s \in S : name[r] = name[s] => r = s) /\ \A e \in T : \E r \in S : name[r] = e
    BY <1>10
  <2>3. \A r \in S : f[r] \in Nat /\ name[r] \in T /\ g[name[r]] = f[r]
    BY <1>8
  <2> HIDE DEF S, T
  <2>4. \A r \in S : f[r] \in Int
    BY <2>3
  <2>5. SumOver(g, T) = SumOver(f, S) /\ SumOver(f, S) \in Nat
    BY <2>1, <2>2, <2>3, <2>4, SumByName, SumIsNat
  <2> QED
    BY <2>5 DEF S, T
<1>14. SumOver(h, of("ESTIMATED")) = SumOver(k, priced("ESTIMATED"))
       /\ SumOver(h, of("ESTIMATED")) \in Nat
  <2> DEFINE S == of("ESTIMATED")  T == priced("ESTIMATED")
  <2>1. IsFiniteSet(S)
    BY <1>5
  <2>2. (\A r, s \in S : name[r] = name[s] => r = s) /\ \A e \in T : \E r \in S : name[r] = e
    BY <1>10
  <2>3. \A r \in S : h[r] \in Nat /\ name[r] \in T /\ k[name[r]] = h[r]
    BY <1>9
  <2> HIDE DEF S, T
  <2>4. \A r \in S : h[r] \in Int
    BY <2>3
  <2>5. SumOver(k, T) = SumOver(h, S) /\ SumOver(h, S) \in Nat
    BY <2>1, <2>2, <2>3, <2>4, SumByName, SumIsNat
  <2> QED
    BY <2>5 DEF S, T
<1>15. Cardinality(unpriced) = Cardinality(seen \ (priced("ACTUAL") \union priced("ESTIMATED")))
  <2> DEFINE T == seen \ (priced("ACTUAL") \union priced("ESTIMATED"))
  <2> HIDE DEF unpriced, T
  <2>1. /\ \A r \in unpriced : name[r] \in T
        /\ \A r, s \in unpriced : name[r] = name[s] => r = s
        /\ \A e \in T : \E r \in unpriced : name[r] = e
    BY <1>11 DEF T
  <2>2. Cardinality(T) = Cardinality(unpriced)
    BY <1>12, <2>1, CountByName
  <2> QED
    BY <2>2 DEF T
<1>16. IsFiniteSet(seen)
  <2> HIDE DEF seen
  <2> QED BY <1>1, <1>2, <1>3, <1>5, CountByName
<1>19. SumOver(used, rows) = SumOver(spent, seen)
  <2> HIDE DEF seen
  <2>1. \A r \in rows : used[r] \in Int /\ name[r] \in seen /\ spent[name[r]] = used[r]
    BY <1>1, <1>18
  <2> QED
    BY <1>2, <1>3, <1>5, <2>1, SumByName
<1>20. t.tokens = SumOver([e \in seen |-> Tokens(e)], seen)
  BY <1>17, <1>19 DEF spent
<1> HIDE DEF of, unpriced, priced, seen
<1> QED
  BY <1>6, <1>7, <1>13, <1>14, <1>15, <1>16, <1>20 DEF f, g, h, k, t, priced, ran, seen

-----------------------------------------------------------------------------
(* Fewer rows, and groups of rows.                                          *)

\* What each figure sums or counts.
LEMMA FiguresOfRows ==
  ASSUME NEW rows, AreRows(rows), NEW some \in SUBSET rows
  PROVE  LET actual    == [r \in rows |-> Charged(r.cost.actual)]
             estimated == [r \in rows |-> Charged(r.cost.estimated)]
             tokens    == [r \in rows |-> Charged(r.usage.tokens)]
             t         == TotalsColumns(some)
         IN  /\ t.actual = SumOver(actual, {r \in some : r.cost.provenance = "ACTUAL"})
             /\ t.estimated = SumOver(estimated, {r \in some : r.cost.provenance = "ESTIMATED"})
             /\ t.unavailable = Cardinality({r \in some : r.cost.provenance \notin {"ACTUAL", "ESTIMATED"}})
             /\ t.requests = Cardinality(some)
             /\ t.tokens = SumOver(tokens, some)
             /\ \A r \in rows : actual[r] \in Nat /\ estimated[r] \in Nat /\ tokens[r] \in Nat
<1> DEFINE actual    == [r \in rows |-> Charged(r.cost.actual)]
           estimated == [r \in rows |-> Charged(r.cost.estimated)]
           tokens    == [r \in rows |-> Charged(r.usage.tokens)]
           someActual    == [r \in some |-> Charged(r.cost.actual)]
           someEstimated == [r \in some |-> Charged(r.cost.estimated)]
           someTokens    == [r \in some |-> Charged(r.usage.tokens)]
           of(p)     == {r \in some : r.cost.provenance = p}
           ids       == {r.usage.id : r \in some}
           name      == [r \in some |-> r.usage.id]
           t         == TotalsColumns(some)
<1>1. IsFiniteSet(some) /\ \A p : IsFiniteSet(of(p))
  BY FS_Subset DEF AreRows
<1>2. \A r \in rows : actual[r] \in Nat /\ estimated[r] \in Nat /\ tokens[r] \in Nat
  <2> TAKE r \in rows
  <2> DEFINE e == r.usage.id
  <2>1. doing[e] \in Work /\ r.cost = BuildCostEvent(e, doing[e]) /\ r.usage.tokens \in Optional(Nat)
    BY DEF AreRows, Ran
  <2> HIDE DEF e
  <2>2. r.cost.actual \in Optional(Nat) /\ r.cost.estimated \in Optional(Nat)
    BY <2>1, CostEventFigures
  <2>3. \A x \in Optional(Nat) : Charged(x) \in Nat
    BY DEF Optional, Charged
  <2> QED
    BY <2>1, <2>2, <2>3
<1>3. \A r \in some : /\ someActual[r] = actual[r] /\ someEstimated[r] = estimated[r]
                      /\ someTokens[r] = tokens[r]
  OBVIOUS
<1>4. /\ t.actual = SumOver(someActual, of("ACTUAL"))
      /\ t.estimated = SumOver(someEstimated, of("ESTIMATED"))
      /\ t.unavailable = Cardinality({r \in some : r.cost.provenance \notin {"ACTUAL", "ESTIMATED"}})
      /\ t.requests = Cardinality(ids)
      /\ t.tokens = SumOver(someTokens, some)
  BY DEF TotalsColumns, SumWhere
<1>5. Cardinality(ids) = Cardinality(some)
  <2>1. /\ \A r \in some : name[r] \in ids
        /\ \A r, s \in some : name[r] = name[s] => r = s
        /\ \A e \in ids : \E r \in some : name[r] = e
    BY DEF AreRows
  <2> HIDE DEF name, ids
  <2> QED
    BY <1>1, <2>1, CountByName
<1> HIDE DEF actual, estimated, tokens, someActual, someEstimated, someTokens, t
<1>6. /\ SumOver(someActual, of("ACTUAL")) = SumOver(actual, of("ACTUAL"))
      /\ SumOver(someEstimated, of("ESTIMATED")) = SumOver(estimated, of("ESTIMATED"))
      /\ SumOver(someTokens, some) = SumOver(tokens, some)
  <2>1. \A p : \A r \in of(p) : r \in some
    OBVIOUS
  <2> HIDE DEF of
  <2> QED
    BY <1>1, <1>3, <2>1, SumIsSame
<1> QED
  BY <1>2, <1>4, <1>5, <1>6 DEF actual, estimated, tokens, t

LEMMA MoreRowsMore ==
  ASSUME NEW rows, AreRows(rows), NEW some \in SUBSET rows
  PROVE  \A f \in Figures : TotalsColumns(some)[f] <= TotalsColumns(rows)[f]
<1> DEFINE actual    == [r \in rows |-> Charged(r.cost.actual)]
           estimated == [r \in rows |-> Charged(r.cost.estimated)]
           tokens    == [r \in rows |-> Charged(r.usage.tokens)]
           of(S, p)  == {r \in S : r.cost.provenance = p}
           rest(S)   == {r \in S : r.cost.provenance \notin {"ACTUAL", "ESTIMATED"}}
           Told(S)   == /\ TotalsColumns(S).actual = SumOver(actual, of(S, "ACTUAL"))
                        /\ TotalsColumns(S).estimated = SumOver(estimated, of(S, "ESTIMATED"))
                        /\ TotalsColumns(S).unavailable = Cardinality(rest(S))
                        /\ TotalsColumns(S).requests = Cardinality(S)
                        /\ TotalsColumns(S).tokens = SumOver(tokens, S)
<1>1. Told(some) /\ Told(rows)
  BY FiguresOfRows
<1>2. \A r \in rows : actual[r] \in Nat /\ estimated[r] \in Nat /\ tokens[r] \in Nat
  BY FiguresOfRows
<1>3. /\ IsFiniteSet(rows) /\ \A p : IsFiniteSet(of(rows, p)) /\ of(some, p) \subseteq of(rows, p)
      /\ IsFiniteSet(rest(rows)) /\ rest(some) \subseteq rest(rows)
      /\ \A p : of(rows, p) \subseteq rows
  BY FS_Subset DEF AreRows
<1> HIDE DEF actual, estimated, tokens, of, rest
<1>4. /\ SumOver(actual, of(some, "ACTUAL")) <= SumOver(actual, of(rows, "ACTUAL"))
      /\ SumOver(estimated, of(some, "ESTIMATED")) <= SumOver(estimated, of(rows, "ESTIMATED"))
      /\ SumOver(tokens, some) <= SumOver(tokens, rows)
  BY <1>2, <1>3, SumOfMore
<1>5. Cardinality(rest(some)) <= Cardinality(rest(rows)) /\ Cardinality(some) <= Cardinality(rows)
  BY <1>3, FS_Subset
<1> QED
  BY <1>1, <1>4, <1>5 DEF Figures

(***************************************************************************)
(* No row falls out of every group or into two.                            *)
(***************************************************************************)
LEMMA GroupsAddUp ==
  ASSUME NEW rows, AreRows(rows), NEW key
  PROVE  LET K     == {key[r] : r \in rows}
             parts == [k \in K |-> TotalsColumns({r \in rows : key[r] = k})]
         IN  \A f \in Figures : SumOver([k \in K |-> parts[k][f]], K) = TotalsColumns(rows)[f]
<1> DEFINE K         == {key[r] : r \in rows}
           Group(k)  == {r \in rows : key[r] = k}
           parts     == [k \in K |-> TotalsColumns(Group(k))]
           actual    == [r \in rows |-> Charged(r.cost.actual)]
           estimated == [r \in rows |-> Charged(r.cost.estimated)]
           tokens    == [r \in rows |-> Charged(r.usage.tokens)]
           of(S, p)  == {r \in S : r.cost.provenance = p}
           rest(S)   == {r \in S : r.cost.provenance \notin {"ACTUAL", "ESTIMATED"}}
           Told(S)   == /\ TotalsColumns(S).actual = SumOver(actual, of(S, "ACTUAL"))
                        /\ TotalsColumns(S).estimated = SumOver(estimated, of(S, "ESTIMATED"))
                        /\ TotalsColumns(S).unavailable = Cardinality(rest(S))
                        /\ TotalsColumns(S).requests = Cardinality(S)
                        /\ TotalsColumns(S).tokens = SumOver(tokens, S)
<1>1. \A S \in SUBSET rows : Told(S)
  BY FiguresOfRows
<1>2. \A r \in rows : actual[r] \in Int /\ estimated[r] \in Int /\ tokens[r] \in Int
  <2>1. \A r \in rows : actual[r] \in Nat /\ estimated[r] \in Nat /\ tokens[r] \in Nat
    BY FiguresOfRows
  <2> QED
    BY <2>1
<1>3. IsFiniteSet(rows) /\ \A p : IsFiniteSet(of(rows, p)) /\ IsFiniteSet(rest(rows))
  BY FS_Subset DEF AreRows
<1>4. IsFiniteSet(K)
  <2> DEFINE keyed == [r \in rows |-> key[r]]
  <2>1. keyed \in Surjection(rows, K)
    BY DEF Surjection
  <2> QED
    BY <1>3, <2>1, FS_Surjection
<1>5. \A k \in K : Group(k) \in SUBSET rows /\ parts[k] = TotalsColumns(Group(k))
  OBVIOUS
<1>6. \A r \in rows : key[r] \in K
  OBVIOUS
<1>7. \A k, p : {r \in of(rows, p) : key[r] = k} = of(Group(k), p)
  OBVIOUS
<1>8. \A k : {r \in rest(rows) : key[r] = k} = rest(Group(k))
  OBVIOUS
<1> HIDE DEF parts, actual, estimated, tokens, of, rest, K, Group
<1>9. ASSUME NEW f \in Figures, NEW g, \A k \in K : parts[k][f] = g[k]
      PROVE  SumOver([k \in K |-> parts[k][f]], K) = SumOver(g, K)
  <2> DEFINE h == [k \in K |-> parts[k][f]]
  <2>1. \A k \in K : h[k] = g[k]
    BY <1>9
  <2> HIDE DEF h
  <2> QED
    BY <1>4, <2>1, SumIsSame DEF h
<1>10. SumOver([k \in K |-> parts[k]["actual"]], K) = TotalsColumns(rows).actual
  <2> DEFINE S == of(rows, "ACTUAL")
             g == [k \in K |-> SumOver(actual, {r \in S : key[r] = k})]
  <2>1. ASSUME NEW k \in K PROVE parts[k]["actual"] = g[k]
    <3>1. {r \in S : key[r] = k} = of(Group(k), "ACTUAL")
      BY <1>7
    <3>2. parts[k].actual = SumOver(actual, of(Group(k), "ACTUAL"))
      BY <1>1, <1>5
    <3> QED
      BY <3>1, <3>2
  <2>2. IsFiniteSet(S) /\ \A r \in S : actual[r] \in Int /\ key[r] \in K
    BY <1>2, <1>3, <1>6 DEF of
  <2> HIDE DEF S
  <2>3. SumOver(g, K) = SumOver(actual, S)
    BY <1>4, <2>2, SumOfGroups
  <2> HIDE DEF g
  <2>4. SumOver([k \in K |-> parts[k]["actual"]], K) = SumOver(g, K)
    BY <1>9, <2>1 DEF Figures
  <2> QED
    BY <1>1, <2>3, <2>4 DEF S
<1>11. SumOver([k \in K |-> parts[k]["estimated"]], K) = TotalsColumns(rows).estimated
  <2> DEFINE S == of(rows, "ESTIMATED")
             g == [k \in K |-> SumOver(estimated, {r \in S : key[r] = k})]
  <2>1. ASSUME NEW k \in K PROVE parts[k]["estimated"] = g[k]
    <3>1. {r \in S : key[r] = k} = of(Group(k), "ESTIMATED")
      BY <1>7
    <3>2. parts[k].estimated = SumOver(estimated, of(Group(k), "ESTIMATED"))
      BY <1>1, <1>5
    <3> QED
      BY <3>1, <3>2
  <2>2. IsFiniteSet(S) /\ \A r \in S : estimated[r] \in Int /\ key[r] \in K
    BY <1>2, <1>3, <1>6 DEF of
  <2> HIDE DEF S
  <2>3. SumOver(g, K) = SumOver(estimated, S)
    BY <1>4, <2>2, SumOfGroups
  <2> HIDE DEF g
  <2>4. SumOver([k \in K |-> parts[k]["estimated"]], K) = SumOver(g, K)
    BY <1>9, <2>1 DEF Figures
  <2> QED
    BY <1>1, <2>3, <2>4 DEF S
<1>12. SumOver([k \in K |-> parts[k]["tokens"]], K) = TotalsColumns(rows).tokens
  <2> DEFINE g == [k \in K |-> SumOver(tokens, {r \in rows : key[r] = k})]
  <2>1. \A k \in K : parts[k]["tokens"] = g[k]
    BY <1>1, <1>5 DEF Group
  <2>2. SumOver(g, K) = SumOver(tokens, rows)
    BY <1>2, <1>3, <1>4, <1>6, SumOfGroups
  <2> HIDE DEF g
  <2>3. SumOver([k \in K |-> parts[k]["tokens"]], K) = SumOver(g, K)
    BY <1>9, <2>1 DEF Figures
  <2> QED
    BY <1>1, <2>2, <2>3
<1>13. SumOver([k \in K |-> parts[k]["requests"]], K) = TotalsColumns(rows).requests
  <2> DEFINE g == [k \in K |-> Cardinality({r \in rows : key[r] = k})]
  <2>1. \A k \in K : parts[k]["requests"] = g[k]
    BY <1>1, <1>5 DEF Group
  <2>2. SumOver(g, K) = Cardinality(rows)
    BY <1>3, <1>4, <1>6, CountOfGroups
  <2> HIDE DEF g
  <2>3. SumOver([k \in K |-> parts[k]["requests"]], K) = SumOver(g, K)
    BY <1>9, <2>1 DEF Figures
  <2> QED
    BY <1>1, <2>2, <2>3
<1>14. SumOver([k \in K |-> parts[k]["unavailable"]], K) = TotalsColumns(rows).unavailable
  <2> DEFINE S == rest(rows)
             g == [k \in K |-> Cardinality({r \in S : key[r] = k})]
  <2>1. ASSUME NEW k \in K PROVE parts[k]["unavailable"] = g[k]
    <3>1. {r \in S : key[r] = k} = rest(Group(k))
      BY <1>8
    <3>2. parts[k].unavailable = Cardinality(rest(Group(k)))
      BY <1>1, <1>5
    <3> QED
      BY <3>1, <3>2
  <2>2. IsFiniteSet(S) /\ \A r \in S : key[r] \in K
    BY <1>3, <1>6 DEF rest
  <2> HIDE DEF S
  <2>3. SumOver(g, K) = Cardinality(S)
    BY <1>4, <2>2, CountOfGroups
  <2> HIDE DEF g
  <2>4. SumOver([k \in K |-> parts[k]["unavailable"]], K) = SumOver(g, K)
    BY <1>9, <2>1 DEF Figures
  <2> QED
    BY <1>1, <2>3, <2>4 DEF S
<1>15. \A f \in Figures : SumOver([k \in K |-> parts[k][f]], K) = TotalsColumns(rows)[f]
  BY <1>10, <1>11, <1>12, <1>13, <1>14 DEF Figures
<1> QED
  BY <1>15 DEF parts, K, Group
-----------------------------------------------------------------------------
(* A page.                                                                  *)

\* What an open summary was read from.
KnownRows ==
  {r \in BaseSelect(page.q, page.q.plant, page.q.department) : r.usage \in page.known}

PageInv ==
  page # NoPage =>
    /\ page.shown \in {"summary", "parts"}
    /\ page.q \in Questions
    /\ page.known \subseteq usage
    /\ page.shown = "summary" => page.summary = TotalsColumns(KnownRows)

CostPageInv == CostsInv /\ UsageInv /\ PageInv /\ SummaryIsTheTruth /\ PartsAddUp

\* What a summary of these executions has to say.
TruthOf(seen, summary) ==
  LET ran == {e \in seen : doing[e].outcome = "success"}
      priced(p) == {e \in ran : Cost(e).provenance = p}
  IN  /\ summary.actual = SumOver([e \in ran |-> ActualCost(Cost(e))], priced("ACTUAL"))
      /\ summary.estimated = SumOver([e \in ran |-> EstimatedCost(Cost(e))], priced("ESTIMATED"))
      /\ summary.unavailable
           = Cardinality(seen \ (priced("ACTUAL") \union priced("ESTIMATED")))
      /\ summary.requests = Cardinality(seen)
      /\ summary.tokens = SumOver([e \in seen |-> Tokens(e)], seen)
      /\ AveragePerRequest(summary) = None <=> seen = {}

(***************************************************************************)
(* The truth about the events a page knows stands while executions end and *)
(* are recorded.                                                           *)
(***************************************************************************)
LEMMA TruthStands ==
  ASSUME PageInv, SummaryIsTheTruth, \A u \in usage : doing'[u.id] = doing[u.id],
         page' # NoPage => /\ page # NoPage
                           /\ page'.q = page.q /\ page'.known = page.known
                           /\ page'.summary = page.summary
  PROVE  SummaryIsTheTruth'
<1> SUFFICES ASSUME page' # NoPage
             PROVE  SummaryIsTheTruth'
  BY DEF SummaryIsTheTruth, NoPage
<1> PICK seen : seen = Reachable(page.q, page.known)
  OBVIOUS
<1> PICK summary : summary = page.summary
  OBVIOUS
<1>1. \A e \in seen : doing'[e] = doing[e]
  BY DEF PageInv, Reachable
<1>2. Reachable(page.q, page.known)' = seen
  <2> PICK q : q = page.q
    OBVIOUS
  <2> PICK known : known = page.known
    OBVIOUS
  <2>1. known \subseteq usage
    BY DEF PageInv
  <2>2. \A u \in known : doing'[u.id] = doing[u.id]
    BY <2>1
  <2>3. Reachable(q, known)' = Reachable(q, known)
    BY <2>2 DEF Reachable
  <2> QED
    BY <2>3
<1>3. page.summary' = summary
  OBVIOUS
<1>4. TruthOf(seen, summary)
  BY DEF SummaryIsTheTruth, TruthOf
<1>5. TruthOf(seen, summary)' <=> TruthOf(seen, summary)
  <2> PICK ran : ran = {e \in seen : doing[e].outcome = "success"}
    OBVIOUS
  <2> PICK actuals : actuals = [e \in ran |-> ActualCost(Cost(e))]
    OBVIOUS
  <2> PICK estimates : estimates = [e \in ran |-> EstimatedCost(Cost(e))]
    OBVIOUS
  <2> PICK spent : spent = [e \in seen |-> Tokens(e)]
    OBVIOUS
  <2> PICK measured : measured = {e \in ran : Cost(e).provenance = "ACTUAL"}
    OBVIOUS
  <2> PICK estimated : estimated = {e \in ran : Cost(e).provenance = "ESTIMATED"}
    OBVIOUS
  <2>1. {e \in seen : doing[e].outcome = "success"}' = ran
    BY <1>1
  <2>2. \A e \in ran : Cost(e)' = Cost(e)
    BY <1>1 DEF Cost
  <2>6. [e \in seen |-> Tokens(e)]' = spent
    <3>1. \A e \in seen : Tokens(e)' = Tokens(e)
      BY <1>1 DEF Tokens
    <3> QED
      BY <3>1
  <2>3. /\ [e \in ran |-> ActualCost(Cost(e))]' = actuals
        /\ [e \in ran |-> EstimatedCost(Cost(e))]' = estimates
        /\ {e \in ran : Cost(e).provenance = "ACTUAL"}' = measured
        /\ {e \in ran : Cost(e).provenance = "ESTIMATED"}' = estimated
    BY <2>2
  <2> DEFINE Figured ==
        /\ summary.actual = SumOver(actuals, measured)
        /\ summary.estimated = SumOver(estimates, estimated)
        /\ summary.unavailable = Cardinality(seen \ (measured \union estimated))
        /\ summary.requests = Cardinality(seen)
        /\ summary.tokens = SumOver(spent, seen)
        /\ AveragePerRequest(summary) = None <=> seen = {}
  <2>4. TruthOf(seen, summary) <=> Figured
    BY DEF TruthOf
  <2>5. TruthOf(seen, summary)' <=> Figured
    BY <2>1, <2>3, <2>6 DEF TruthOf
  <2> QED
    BY <2>4, <2>5
<1> QED
  BY <1>2, <1>3, <1>4, <1>5 DEF SummaryIsTheTruth, TruthOf

(***************************************************************************)
(* What a page knows keeps its rows while others are recorded.             *)
(***************************************************************************)
LEMMA KnownRowsStand ==
  ASSUME CostsInv, CostsInv', PageInv, page # NoPage, page' = page,
         usage \subseteq usage', costs \subseteq costs'
  PROVE  KnownRows' = KnownRows
<1> PICK known : known = page.known
  OBVIOUS
<1>1. known \subseteq usage
  BY DEF PageInv
<1>2. Joined \subseteq Joined'
  BY DEF Joined
<1>3. ASSUME NEW r \in Joined', r.usage \in known, r.cost.of = r.usage.id
      PROVE  r \in Joined
  <2>1. PICK u \in usage', c \in costs' : r = [usage |-> u, cost |-> c]
    BY <1>3 DEF Joined
  <2>2. u \in usage /\ c.of = u.id
    BY <1>1, <1>3, <2>1
  <2>3. PICK d \in costs : d.of = u.id
    BY <2>2 DEF CostsInv, Paired
  <2>4. c = d
    BY <2>1, <2>2, <2>3 DEF CostsInv, StoredIsBuilt
  <2> QED
    BY <2>1, <2>2, <2>4 DEF Joined
<1> QED
  BY <1>2, <1>3 DEF KnownRows, BaseSelect

LEMMA CostPageInvInit == Init => CostPageInv
<1> SUFFICES ASSUME Init
             PROVE  CostPageInv
  OBVIOUS
<1>1. CostsInv /\ UsageInv
  BY CostsInvInit, UsageInvInit
<1>2. page = NoPage /\ page.shown # "parts"
  BY DEF Init, NoPage
<1> QED
  BY <1>1, <1>2 DEF CostPageInv, PageInv, SummaryIsTheTruth, PartsAddUp

LEMMA PageOpens ==
  ASSUME CostPageInv, NEW q \in Questions, OpenPage(q)
  PROVE  PageInv' /\ SummaryIsTheTruth' /\ PartsAddUp'
<1> DEFINE rows == BaseSelect(q, q.plant, q.department)
<1>1. /\ page' = [shown |-> "summary", q |-> q, summary |-> TotalsColumns(rows), known |-> usage]
      /\ UNCHANGED <<now, doing, pending, usage, costs>>
  BY DEF OpenPage, Summary
<1>2. /\ page'.shown = "summary" /\ page'.q = q /\ page'.summary = TotalsColumns(rows)
      /\ page'.known = usage
  BY <1>1
<1>3. AreRows(rows) /\ {r.usage.id : r \in rows} = Reachable(q, usage)
  BY RowsOfQuery, RowsAreReachable DEF CostPageInv
<1>4. TruthOf(Reachable(q, usage), TotalsColumns(rows))
  <2> DEFINE t == TotalsColumns(rows)
             seen == {r.usage.id : r \in rows}
  <2>1. t.actual \in Nat /\ t.estimated \in Nat /\ t.requests = Cardinality(seen) /\ IsFiniteSet(seen)
    BY <1>3, TotalsAreTheTruth
  <2>2. TruthOf(seen, t) <=> (AveragePerRequest(t) = None <=> seen = {})
    BY <1>3, TotalsAreTheTruth DEF TruthOf
  <2> HIDE DEF t, seen
  <2>3. t.requests \in Nat /\ (t.requests = 0 <=> seen = {})
    BY <2>1, FS_CardinalityType, FS_EmptySet
  <2>4. AveragePerRequest(t) = None <=> seen = {}
    <3>1. CASE t.requests = 0
      BY <2>3, <3>1 DEF AveragePerRequest
    <3>2. CASE t.requests # 0
      <4>1. (t.actual + t.estimated) \div t.requests \in Nat
        BY <2>1, <2>3, <3>2
      <4>2. AveragePerRequest(t) # None
        BY <2>3, <3>2, <4>1 DEF AveragePerRequest
      <4> QED
        BY <2>3, <3>2, <4>2
    <3> QED
      BY <3>1, <3>2
  <2> QED
    BY <1>3, <2>2, <2>4 DEF t, seen
<1> PICK t : t = TotalsColumns(rows)
  OBVIOUS
<1> PICK seen : seen = Reachable(q, usage)
  OBVIOUS
<1>5. TruthOf(seen, t)'
  <2>1. TruthOf(seen, t)
    BY <1>4
  <2>2. doing' = doing
    BY <1>1
  <2> QED
    BY <2>1, <2>2 DEF TruthOf, Cost, Tokens
<1>6. page'.shown = "summary" /\ page'.q = q /\ page'.summary = t /\ page'.known = usage
  BY <1>2
<1>7. Reachable(q, usage)' = seen /\ usage' = usage
  BY <1>1 DEF Reachable
<1>8. SummaryIsTheTruth'
  <2>1. Reachable(page.q, page.known)' = seen
    BY <1>6, <1>7 DEF Reachable
  <2> QED
    BY <1>5, <1>6, <2>1 DEF SummaryIsTheTruth, TruthOf
<1>9. PageInv'
  <2>1. KnownRows' = rows
    <3>1. BaseSelect(q, q.plant, q.department)' = rows
      BY <1>1 DEF BaseSelect, Joined
    <3>2. \A r \in rows : r.usage \in usage
      BY <1>3 DEF AreRows
    <3> HIDE DEF rows
    <3> QED
      BY <1>6, <3>1, <3>2 DEF KnownRows
  <2>2. page'.summary = TotalsColumns(rows)
    BY <1>2
  <2> HIDE DEF rows
  <2> QED
    BY <1>6, <1>7, <2>1, <2>2 DEF PageInv
<1>10. PartsAddUp'
  BY <1>6 DEF PartsAddUp
<1> QED
  BY <1>8, <1>9, <1>10

LEMMA PartsAreAdded ==
  ASSUME CostPageInv, page.shown = "summary", NEW key, NEW rows, NEW parts,
         rows = BaseSelect(page.q, page.q.plant, page.q.department),
         parts = [k \in {key[r] : r \in rows} |-> TotalsColumns({r \in rows : key[r] = k})],
         AddParts(parts)
  PROVE  PageInv' /\ SummaryIsTheTruth' /\ PartsAddUp'
<1>1. /\ page'.shown = "parts" /\ page'.q = page.q /\ page'.summary = page.summary
      /\ page'.known = page.known /\ page'.parts = parts /\ page'.later = usage
      /\ page # NoPage /\ page' # NoPage
      /\ UNCHANGED <<now, doing, pending, usage, costs>>
  BY DEF AddParts, NoPage
<1>2. AreRows(rows) /\ \A r \in rows : r.usage \in usage
  BY RowsOfQuery DEF CostPageInv, AreRows
<1>3. SummaryIsTheTruth'
  BY <1>1, TruthStands DEF CostPageInv
<1>4. PageInv'
  BY <1>1 DEF CostPageInv, PageInv
<1>5. /\ KnownRows = {r \in rows : r.usage \in page.known}
      /\ page.summary = TotalsColumns(KnownRows)
  BY <1>1 DEF KnownRows, CostPageInv, PageInv
<1>6. PartsAddUp'
  <2> SUFFICES ASSUME NEW f \in Figures
               PROVE  LET shown == page'.parts
                          whole == SumOver([k \in DOMAIN shown |-> shown[k][f]], DOMAIN shown)
                      IN  /\ page'.summary[f] <= whole
                          /\ page'.known = page'.later => page'.summary[f] = whole
    BY DEF PartsAddUp
  <2> DEFINE Whole(shown) == SumOver([k \in DOMAIN shown |-> shown[k][f]], DOMAIN shown)
  <2>1. Whole(parts) = TotalsColumns(rows)[f]
    <3> DEFINE K == {key[r] : r \in rows}
               groups == [k \in K |-> TotalsColumns({r \in rows : key[r] = k})]
    <3>1. AreRows(rows)
      BY ONLY <1>2
    <3>2. \A g \in Figures : SumOver([k \in K |-> groups[k][g]], K) = TotalsColumns(rows)[g]
      BY ONLY <3>1, GroupsAddUp
    <3>3. parts = groups /\ DOMAIN groups = K
      OBVIOUS
    <3> HIDE DEF groups, K
    <3> QED
      BY <3>2, <3>3
  <2>2. TotalsColumns(KnownRows)[f] <= TotalsColumns(rows)[f]
    <3>1. KnownRows \in SUBSET rows
      BY <1>5
    <3> QED
      BY <1>2, <3>1, MoreRowsMore
  <2>3. page.known = usage => KnownRows = rows
    BY <1>2, <1>5
  <2>4. Whole(page'.parts) = Whole(parts)
    BY <1>1
  <2>5. page'.summary = TotalsColumns(KnownRows) /\ page'.known = page.known /\ page'.later = usage
    BY <1>1, <1>5
  <2> HIDE DEF Whole
  <2>6. /\ page'.summary[f] <= Whole(page'.parts)
        /\ page'.known = page'.later => page'.summary[f] = Whole(page'.parts)
    BY <2>1, <2>2, <2>3, <2>4, <2>5
  <2> QED
    BY <2>6 DEF Whole
<1> QED
  BY <1>3, <1>4, <1>6

LEMMA PageStands ==
  ASSUME CostPageInv, CostsInv', page' = page, usage \subseteq usage', costs \subseteq costs',
         \A u \in usage : doing'[u.id] = doing[u.id]
  PROVE  PageInv' /\ SummaryIsTheTruth' /\ PartsAddUp'
<1>1. SummaryIsTheTruth'
  BY TruthStands DEF CostPageInv
<1>2. PageInv'
  <2>1. CASE page = NoPage
    BY <2>1 DEF PageInv, NoPage
  <2>2. CASE page # NoPage
    <3> PICK known : known = KnownRows
      OBVIOUS
    <3>1. KnownRows' = known
      BY <2>2, KnownRowsStand DEF CostPageInv
    <3> QED
      BY <2>2, <3>1 DEF CostPageInv, PageInv, NoPage
  <2> QED
    BY <2>1, <2>2
<1>3. PartsAddUp'
  BY DEF CostPageInv, PartsAddUp
<1> QED
  BY <1>1, <1>2, <1>3

LEMMA CostPageInvStep == CostPageInv /\ [Next]_vars => CostPageInv'
<1> SUFFICES ASSUME CostPageInv, [Next]_vars
             PROVE  CostPageInv'
  OBVIOUS
<1>1. CostsInv' /\ UsageInv'
  BY CostsInvStep, UsageInvStep DEF CostPageInv
<1> SUFFICES PageInv' /\ SummaryIsTheTruth' /\ PartsAddUp'
  BY <1>1 DEF CostPageInv
<1>2. ASSUME NEW e \in Executions, NEW w \in Work, Execute(e, w)
      PROVE  PageInv' /\ SummaryIsTheTruth' /\ PartsAddUp'
  <2>1. /\ doing[e] = None /\ doing' = [doing EXCEPT ![e] = w]
        /\ page' = page /\ usage' = usage /\ costs' = costs
    BY <1>2 DEF Execute
  <2>2. \A u \in usage : u.id \in Executions \ {e}
    BY <2>1 DEF CostPageInv, CostsInv, StoredIsBuilt, Ran
  <2>3. \A u \in usage : doing'[u.id] = doing[u.id]
    BY <2>1, <2>2 DEF CostPageInv, CostsInv
  <2> QED
    BY <1>1, <2>1, <2>3, PageStands
<1>3. ASSUME NEW e \in Executions, Commit(e)
      PROVE  PageInv' /\ SummaryIsTheTruth' /\ PartsAddUp'
  <2>1. /\ usage \subseteq usage' /\ costs \subseteq costs'
        /\ doing' = doing /\ page' = page
    BY <1>3 DEF Commit
  <2> QED
    BY <1>1, <2>1, PageStands
<1>4. CASE UNCHANGED <<doing, usage, costs, page>>
  BY <1>1, <1>4, PageStands
<1>5. ASSUME NEW e \in Executions, Lose(e)
      PROVE  PageInv' /\ SummaryIsTheTruth' /\ PartsAddUp'
  BY <1>4, <1>5 DEF Lose
<1>6. ASSUME NEW q \in Questions, OpenPage(q)
      PROVE  PageInv' /\ SummaryIsTheTruth' /\ PartsAddUp'
  BY <1>6, PageOpens
<1>7. ASSUME NEW d \in Dimensions, AddBreakdown(d)
      PROVE  PageInv' /\ SummaryIsTheTruth' /\ PartsAddUp'
  <2> PICK rows : rows = BaseSelect(page.q, page.q.plant, page.q.department)
    OBVIOUS
  <2> PICK parts : parts = Breakdown(page.q, d)
    OBVIOUS
  <2> PICK key : key = [r \in rows |-> r.usage[d]]
    OBVIOUS
  <2>1. page.shown = "summary" /\ AddParts(parts)
    BY <1>7 DEF AddBreakdown
  <2>2. parts = [k \in {r.usage[d] : r \in rows} |-> TotalsColumns({r \in rows : r.usage[d] = k})]
    BY <1>7 DEF AddBreakdown, Breakdown, GroupBy
  <2>3. parts = [k \in {key[r] : r \in rows} |-> TotalsColumns({r \in rows : key[r] = k})]
    <3>1. {key[r] : r \in rows} = {r.usage[d] : r \in rows}
      OBVIOUS
    <3>2. \A k : {r \in rows : key[r] = k} = {r \in rows : r.usage[d] = k}
      OBVIOUS
    <3> QED
      BY <2>2, <3>1, <3>2
  <2> QED
    BY <2>1, <2>3, PartsAreAdded
<1>8. ASSUME NEW g \in Granularities, AddTrend(g)
      PROVE  PageInv' /\ SummaryIsTheTruth' /\ PartsAddUp'
  <2> PICK rows : rows = BaseSelect(page.q, page.q.plant, page.q.department)
    OBVIOUS
  <2> PICK parts : parts = Trend(page.q, g)
    OBVIOUS
  <2> PICK key : key = [r \in rows |-> BucketOf[g][r.usage.at]]
    OBVIOUS
  <2>1. page.shown = "summary" /\ AddParts(parts)
    BY <1>8 DEF AddTrend
  <2>2. parts = [k \in {BucketOf[g][r.usage.at] : r \in rows}
                   |-> TotalsColumns({r \in rows : BucketOf[g][r.usage.at] = k})]
    BY DEF Trend, GroupBy
  <2>3. parts = [k \in {key[r] : r \in rows} |-> TotalsColumns({r \in rows : key[r] = k})]
    <3>1. {key[r] : r \in rows} = {BucketOf[g][r.usage.at] : r \in rows}
      OBVIOUS
    <3>2. \A k : {r \in rows : key[r] = k} = {r \in rows : BucketOf[g][r.usage.at] = k}
      OBVIOUS
    <3> QED
      BY <2>2, <3>1, <3>2
  <2>4. rows = BaseSelect(page.q, page.q.plant, page.q.department)
    OBVIOUS
  <2> QED
    BY ONLY CostPageInv, <2>1, <2>3, <2>4, PartsAreAdded
<1>9. CASE ClosePage
  BY <1>9 DEF ClosePage, PageInv, SummaryIsTheTruth, PartsAddUp, NoPage
<1>10. CASE Tick
  BY <1>4, <1>10 DEF Tick
<1>11. CASE UNCHANGED vars
  BY <1>4, <1>11 DEF vars
<1> QED
  BY <1>2, <1>3, <1>5, <1>6, <1>7, <1>8, <1>9, <1>10, <1>11 DEF Next

(***************************************************************************)
(* The recorded events are built of their executions, and the page is made *)
(* of the events it knows, in every reachable state.                       *)
(***************************************************************************)
THEOREM CostPageInvariant == Spec => []CostPageInv
BY CostPageInvInit, CostPageInvStep, PTL DEF Spec

(***************************************************************************)
(* A summary is the truth about the executions its caller may open one by  *)
(* one, for any executions, rates, callers, filters and failures.          *)
(***************************************************************************)
THEOREM SummaryIsTheTruthHolds == Spec => []SummaryIsTheTruth
<1>1. CostPageInv => SummaryIsTheTruth
  BY DEF CostPageInv
<1> QED
  BY <1>1, CostPageInvariant, PTL

(***************************************************************************)
(* The parts of a page add up to its summary, to no less when more was     *)
(* recorded since.                                                         *)
(***************************************************************************)
THEOREM PartsAddUpHolds == Spec => []PartsAddUp
<1>1. CostPageInv => PartsAddUp
  BY DEF CostPageInv
<1> QED
  BY <1>1, CostPageInvariant, PTL

-----------------------------------------------------------------------------
(* What an investigation has established.                                  *)

StateFields == {"current", "history", "baseline", "anomaly", "drivers", "cause",
                "saving", "risk", "proposal", "status", "iterations"}

\* Of the metrics and the history given, which no node changes.
Abnormal(state) == DetectAnomalies(state.current, Baseline(state.history)) # << >>

\* What a graph that runs has established by then.
InProgress(t) ==
    LET state == t.state
    IN  /\ state.iterations \in 0 .. 7
        /\ state.proposal = << >>
        /\ state.iterations >= 1 => state.baseline = Baseline(state.history)
        /\ state.iterations >= 2 => (state.anomaly # << >> <=> Abnormal(state))
        /\ state.iterations < 7 => state.saving = 0
        /\ state.saving # 0 => state.anomaly # << >>
        /\ t.answered => state.iterations >= 5
        /\ state.iterations >= 5 /\ state.anomaly # << >> => t.answered
        /\ t.phase = "asking" => state.iterations = 4 /\ state.anomaly # << >>

\* What one that ended may claim.
Concluded(t) ==
    LET state == t.state
        concluded == state.status = "completed" /\ Abnormal(state)
    IN  /\ (state.proposal # << >>) <=> concluded
        /\ state.saving # 0 => concluded
        /\ concluded => /\ t.answered
                        /\ state.iterations = 8
                        /\ Head(state.proposal).monthly = 30 * state.saving

\* Whatever its place, a model was asked and answered of abnormal metrics only.
Findings(t) ==
    t.kind = "investigate" =>
        /\ DOMAIN t = {"kind", "phase", "answered", "state"}
        /\ DOMAIN t.state = StateFields
        /\ t.answered \in BOOLEAN
        /\ t.answered \/ t.phase = "asking" => Abnormal(t.state)
        /\ t.phase \in {"running", "asking"} => InProgress(t)
        /\ t.phase = "ended" => Concluded(t)

-----------------------------------------------------------------------------
(* What a simulation has read.                                             *)

\* What the models of a mix were found to be, in states of the registry.
Known(regs, mix, found, unread, from, to) ==
    /\ \A m \in DOMAIN found :
           \E v \in from .. to : m \in DOMAIN regs[v] /\ found[m] = regs[v][m]
    /\ \A i \in DOMAIN mix :
           \/ mix[i].model \in DOMAIN found
           \/ \E v \in from .. to : mix[i].model \notin DOMAIN regs[v]
           \/ \E j \in unread : mix[j].model = mix[i].model

\* What was read, while it reads, and what the answer was made of, afterwards.
Gathered(t, regs) ==
    t.kind = "simulate" =>
        /\ t.input \in Inputs
        /\ t.baseline.requests \in Nat
        /\ t.since \in 1 .. Len(regs)
        /\ t.phase \in {"reading", "ended"}
        /\ t.phase = "reading" =>
               /\ DOMAIN t = {"kind", "phase", "input", "baseline", "unread", "found", "since"}
               /\ t.unread \subseteq DOMAIN t.input.mix
               /\ Known(regs, t.input.mix, t.found, t.unread, t.since, Len(regs))
        /\ t.phase = "ended" =>
               /\ t.until \in t.since .. Len(regs)
               /\ \E found :
                      /\ t.result = Simulation(t.input, t.baseline, found)
                      /\ Known(regs, t.input.mix, found, {}, t.since, t.until)

-----------------------------------------------------------------------------
\* The registry has a past that only grows; every session has what its place says.
AdviceInv ==
    /\ DOMAIN task = Sessions
    /\ registries \in Seq(Range(registries)) /\ registries # << >>
    /\ spend.requests \in Nat
    /\ \A s \in Sessions : Findings(task[s]) /\ Gathered(task[s], registries)

-----------------------------------------------------------------------------
(* One session moves, and the others stand.                                *)

LEMMA TaskMoves ==
  ASSUME AdviceInv, NEW s \in Sessions, NEW new, Become(s, new),
         UNCHANGED <<registries, spend>>, Findings(new), Gathered(new, registries)
  PROVE  AdviceInv'
<1>1. /\ DOMAIN task' = Sessions
      /\ task'[s] = new
      /\ \A r \in Sessions : r # s => task'[r] = task[r]
  BY DEF AdviceInv, Become
<1>2. \A r \in Sessions : Findings(task'[r]) /\ Gathered(task'[r], registries)
  <2> TAKE r \in Sessions
  <2>1. CASE r = s
    BY <1>1, <2>1
  <2>2. CASE r # s
    BY <1>1, <2>2 DEF AdviceInv
  <2> QED BY <2>1, <2>2
<1>3. registries' = registries /\ spend' = spend
  OBVIOUS
<1>4. \A r \in Sessions : (Findings(task[r]) /\ Gathered(task[r], registries))'
  BY <1>2, <1>3
<1> QED BY <1>1, <1>3, <1>4 DEF AdviceInv

\* What is known of an investigation between two nodes.
LEMMA AtANode ==
  ASSUME AdviceInv, NEW s \in Sessions, NEW n, AtNode(s, n)
  PROVE  /\ task[s].kind = "investigate" /\ task[s].phase = "running"
         /\ DOMAIN task[s] = {"kind", "phase", "answered", "state"}
         /\ DOMAIN task[s].state = StateFields
         /\ task[s].answered \in BOOLEAN
         /\ task[s].answered => Abnormal(task[s].state)
         /\ InProgress(task[s])
         /\ task[s].state.iterations = n - 1
  BY DEF AdviceInv, AtNode, In, Findings

\* A node leaves a state, and the graph goes on.
LEMMA MergeKeeps ==
  ASSUME AdviceInv, NEW s \in Sessions, NEW n, AtNode(s, n), NEW state, Merge(s, state),
         DOMAIN state = StateFields,
         state.current = task[s].state.current, state.history = task[s].state.history,
         \A new : /\ new.phase = "running" /\ new.answered = task[s].answered
                  /\ new.state = [state EXCEPT !.iterations = @ + 1]
                  => InProgress(new)
  PROVE  AdviceInv'
<1> DEFINE t == task[s]
           new == [t EXCEPT !.state = [state EXCEPT !.iterations = @ + 1]]
<1>1. /\ t.kind = "investigate" /\ t.phase = "running"
      /\ DOMAIN t = {"kind", "phase", "answered", "state"}
      /\ t.answered \in BOOLEAN
      /\ t.answered => Abnormal(t.state)
  BY AtANode
<1>2. /\ new.kind = "investigate" /\ new.phase = "running" /\ new.answered = t.answered
      /\ DOMAIN new = DOMAIN t
      /\ new.state = [state EXCEPT !.iterations = @ + 1]
  BY <1>1
<1>3. /\ DOMAIN new.state = StateFields
      /\ new.state.current = t.state.current /\ new.state.history = t.state.history
  BY <1>2 DEF StateFields
<1>4. InProgress(new)
  BY <1>2
<1>5. Abnormal(new.state) <=> Abnormal(t.state)
  BY <1>3 DEF Abnormal
<1>6. Become(s, new) /\ UNCHANGED <<registries, spend>>
  BY DEF Merge
<1> HIDE DEF new
<1>7. Findings(new) /\ Gathered(new, registries)
  BY <1>1, <1>2, <1>3, <1>4, <1>5 DEF Findings, Gathered
<1> QED BY <1>6, <1>7, TaskMoves

\* What raises claims nothing.
LEMMA RaiseKeeps ==
  ASSUME AdviceInv, NEW s \in Sessions, task[s].kind = "investigate",
         task[s].phase \in {"running", "asking"}, Raise(s)
  PROVE  AdviceInv'
<1> DEFINE t == task[s]
           new == [t EXCEPT !.phase = "raised"]
<1>1. /\ DOMAIN t = {"kind", "phase", "answered", "state"}
      /\ DOMAIN t.state = StateFields
      /\ t.answered \in BOOLEAN
      /\ t.answered => Abnormal(t.state)
  BY DEF AdviceInv, Findings
<1>2. /\ new.kind = "investigate" /\ new.phase = "raised" /\ new.answered = t.answered
      /\ DOMAIN new = DOMAIN t
      /\ new.state = t.state
  BY <1>1
<1>3. Become(s, new) /\ UNCHANGED <<registries, spend>>
  BY DEF Raise
<1> HIDE DEF new
<1>4. Findings(new) /\ Gathered(new, registries)
  BY <1>1, <1>2 DEF Findings, Gathered
<1> QED BY <1>3, <1>4, TaskMoves

-----------------------------------------------------------------------------
(* The nodes of the graph.                                                 *)

LEMMA InitialFields ==
  ASSUME NEW current, NEW history
  PROVE  /\ DOMAIN InitialState(current, history) = StateFields
         /\ InitialState(current, history).current = current
         /\ InitialState(current, history).history = history
         /\ InitialState(current, history).iterations = 0
         /\ InitialState(current, history).saving = 0
         /\ InitialState(current, history).anomaly = << >>
         /\ InitialState(current, history).proposal = << >>
  BY DEF InitialState, StateFields

LEMMA InvestigateKeeps ==
  ASSUME AdviceInv, NEW s \in Sessions, NEW current, NEW history,
         Investigate(s, current, history)
  PROVE  AdviceInv'
<1> DEFINE new == [kind |-> "investigate", phase |-> "running", answered |-> FALSE,
                   state |-> InitialState(current, history)]
<1>1. /\ new.kind = "investigate" /\ new.phase = "running" /\ new.answered = FALSE
      /\ DOMAIN new = {"kind", "phase", "answered", "state"}
      /\ new.state = InitialState(current, history)
  OBVIOUS
<1>2. Become(s, new) /\ UNCHANGED <<registries, spend>>
  BY DEF Investigate
<1> HIDE DEF new
<1>3. DOMAIN new.state = StateFields
  BY <1>1, InitialFields
<1>4. InProgress(new)
  BY <1>1, InitialFields DEF InProgress
<1>5. Findings(new) /\ Gathered(new, registries)
  BY <1>1, <1>3, <1>4 DEF Findings, Gathered
<1> QED BY <1>2, <1>5, TaskMoves

LEMMA LoadHistoricalCostKeeps ==
  ASSUME AdviceInv, NEW s \in Sessions, LoadHistoricalCost(s)
  PROVE  AdviceInv'
<1> DEFINE old == task[s].state
           state == [old EXCEPT !.baseline = Baseline(old.history)]
<1>1. AtNode(s, 1) /\ Merge(s, state)
  BY DEF LoadHistoricalCost
<1>2. DOMAIN old = StateFields /\ InProgress(task[s]) /\ old.iterations = 0
  BY <1>1, AtANode
<1>3. ASSUME NEW new, new.phase = "running", new.answered = task[s].answered,
             new.state = [state EXCEPT !.iterations = @ + 1]
      PROVE  InProgress(new)
  BY <1>2, <1>3 DEF InProgress, StateFields
<1>4. /\ DOMAIN state = StateFields
      /\ state.current = old.current /\ state.history = old.history
  BY <1>2 DEF StateFields
<1> HIDE DEF state
<1> QED BY <1>1, <1>3, <1>4, MergeKeeps

LEMMA DetectAnomalyKeeps ==
  ASSUME AdviceInv, NEW s \in Sessions, DetectAnomaly(s)
  PROVE  AdviceInv'
<1> DEFINE old == task[s].state
           found == DetectAnomalies(old.current, old.baseline)
           anomaly == IF found = << >> THEN << >> ELSE <<Head(found)>>
           state == [old EXCEPT !.anomaly = anomaly]
<1>1. AtNode(s, 2) /\ Merge(s, state)
  BY DEF DetectAnomaly
<1>2. DOMAIN old = StateFields /\ InProgress(task[s]) /\ old.iterations = 1
  BY <1>1, AtANode
<1>3. anomaly # << >> <=> Abnormal(old)
  BY <1>2 DEF Abnormal, InProgress
<1> HIDE DEF anomaly
<1>4. ASSUME NEW new, new.phase = "running", new.answered = task[s].answered,
             new.state = [state EXCEPT !.iterations = @ + 1]
      PROVE  InProgress(new)
  <2>1. /\ new.state.iterations = 2 /\ new.state.proposal = old.proposal
        /\ new.state.baseline = old.baseline /\ new.state.history = old.history
        /\ new.state.anomaly = anomaly /\ new.state.saving = old.saving
        /\ new.state.current = old.current
    BY <1>2, <1>4 DEF StateFields
  <2>2. Abnormal(new.state) <=> Abnormal(old)
    BY <2>1 DEF Abnormal
  <2> QED BY <1>2, <1>3, <1>4, <2>1, <2>2 DEF InProgress
<1>5. /\ DOMAIN state = StateFields
      /\ state.current = old.current /\ state.history = old.history
  BY <1>2 DEF StateFields
<1> HIDE DEF state
<1> QED BY <1>1, <1>4, <1>5, MergeKeeps

\* A node that leaves alone what the claims rest on.
LEMMA QuietNodeKeeps ==
  ASSUME AdviceInv, NEW s \in Sessions, NEW n \in {3, 4, 5, 6}, AtNode(s, n),
         n = 5 => task[s].state.anomaly = << >>,
         NEW state, Merge(s, state), DOMAIN state = StateFields,
         \A field \in StateFields \ {"drivers", "cause"} : state[field] = task[s].state[field]
  PROVE  AdviceInv'
<1> DEFINE old == task[s].state
<1>1. DOMAIN old = StateFields /\ InProgress(task[s]) /\ old.iterations = n - 1
  BY AtANode
<1>2. /\ state.iterations = old.iterations /\ state.proposal = old.proposal
      /\ state.baseline = old.baseline /\ state.history = old.history
      /\ state.anomaly = old.anomaly /\ state.saving = old.saving
      /\ state.current = old.current
  BY DEF StateFields
<1>3. ASSUME NEW new, new.phase = "running", new.answered = task[s].answered,
             new.state = [state EXCEPT !.iterations = @ + 1]
      PROVE  InProgress(new)
  <2>1. /\ new.state.iterations = n /\ new.state.proposal = old.proposal
        /\ new.state.baseline = old.baseline /\ new.state.history = old.history
        /\ new.state.anomaly = old.anomaly /\ new.state.saving = old.saving
        /\ new.state.current = old.current
    BY <1>1, <1>2, <1>3 DEF StateFields
  <2>2. Abnormal(new.state) <=> Abnormal(old)
    BY <2>1 DEF Abnormal
  <2> QED BY <1>1, <1>3, <2>1, <2>2 DEF InProgress
<1> QED BY <1>2, <1>3, MergeKeeps

LEMMA QuietNodes ==
  ASSUME AdviceInv, NEW s \in Sessions,
         \/ IdentifyDrivers(s) \/ CompareModelWorkload(s) \/ FindNothing(s) \/ Recommend(s)
  PROVE  AdviceInv'
<1> DEFINE old == task[s].state
<1>1. CASE IdentifyDrivers(s)
  <2>1. AtNode(s, 3)
    BY <1>1 DEF IdentifyDrivers
  <2>2. /\ task[s].kind = "investigate" /\ task[s].phase = "running"
        /\ DOMAIN old = StateFields
    BY <2>1, AtANode
  <2>3. CASE Raise(s)
    BY <2>2, <2>3, RaiseKeeps
  <2>4. CASE Merge(s, [old EXCEPT !.drivers = Drivers(old.current)])
    <3> DEFINE state == [old EXCEPT !.drivers = Drivers(old.current)]
    <3>1. /\ DOMAIN state = StateFields
          /\ \A field \in StateFields \ {"drivers", "cause"} : state[field] = old[field]
      BY <2>2 DEF StateFields
    <3> HIDE DEF state
    <3> QED BY <2>1, <2>4, <3>1, QuietNodeKeeps DEF state
  <2> QED BY <1>1, <2>3, <2>4 DEF IdentifyDrivers
<1>2. CASE CompareModelWorkload(s)
  <2>1. AtNode(s, 4) /\ Merge(s, old)
    BY <1>2 DEF CompareModelWorkload
  <2> QED BY <2>1, AtANode, QuietNodeKeeps
<1>3. CASE FindNothing(s)
  <2>1. /\ AtNode(s, 5) /\ old.anomaly = << >>
        /\ Merge(s, [old EXCEPT !.cause = "within normal bounds"])
    BY <1>3 DEF FindNothing
  <2>2. DOMAIN old = StateFields
    BY <2>1, AtANode
  <2> QED BY <2>1, <2>2, QuietNodeKeeps DEF StateFields
<1>4. CASE Recommend(s)
  <2>1. AtNode(s, 6) /\ Merge(s, old)
    BY <1>4 DEF Recommend
  <2> QED BY <2>1, AtANode, QuietNodeKeeps
<1> QED BY <1>1, <1>2, <1>3, <1>4

LEMMA AskModelKeeps ==
  ASSUME AdviceInv, NEW s \in Sessions, AskModel(s)
  PROVE  AdviceInv'
<1> DEFINE t == task[s]
           new == [t EXCEPT !.phase = "asking"]
<1>1. AtNode(s, 5) /\ t.state.anomaly # << >>
  BY DEF AskModel
<1>2. /\ t.kind = "investigate"
      /\ DOMAIN t = {"kind", "phase", "answered", "state"}
      /\ DOMAIN t.state = StateFields
      /\ t.answered \in BOOLEAN
      /\ InProgress(t)
      /\ t.state.iterations = 4
  BY <1>1, AtANode
<1>3. /\ new.kind = "investigate" /\ new.phase = "asking" /\ new.answered = t.answered
      /\ DOMAIN new = DOMAIN t
      /\ new.state = t.state
  BY <1>2
<1>4. Become(s, new) /\ UNCHANGED <<registries, spend>>
  BY DEF AskModel
<1> HIDE DEF new
<1>5. Abnormal(t.state)
  BY <1>1, <1>2 DEF InProgress
<1>6. InProgress(new)
  BY <1>1, <1>2, <1>3 DEF InProgress
<1>7. Findings(new) /\ Gathered(new, registries)
  BY <1>2, <1>3, <1>5, <1>6 DEF Findings, Gathered
<1> QED BY <1>4, <1>7, TaskMoves

LEMMA AnswerKeeps ==
  ASSUME AdviceInv, NEW s \in Sessions, Answer(s)
  PROVE  AdviceInv'
<1> DEFINE t == task[s]
           old == t.state
           state == [old EXCEPT !.cause = "the model's", !.iterations = @ + 1]
           new == [t EXCEPT !.phase = "running", !.answered = TRUE, !.state = state]
<1>1. /\ t.kind = "investigate" /\ t.phase = "asking"
      /\ DOMAIN t = {"kind", "phase", "answered", "state"}
      /\ DOMAIN old = StateFields
      /\ Abnormal(old)
      /\ InProgress(t)
  BY DEF AdviceInv, Answer, In, Findings
<1>2. Become(s, new) /\ UNCHANGED <<registries, spend>>
  BY <1>1 DEF Answer
<1>3. /\ new.kind = "investigate" /\ new.phase = "running" /\ new.answered = TRUE
      /\ DOMAIN new = DOMAIN t
      /\ new.state = state
  BY <1>1
<1>4. old.iterations = 4 /\ old.anomaly # << >>
  BY <1>1 DEF InProgress
<1>5. /\ DOMAIN state = StateFields
      /\ state.iterations = 5
      /\ state.current = old.current /\ state.history = old.history
      /\ state.baseline = old.baseline /\ state.anomaly = old.anomaly
      /\ state.saving = old.saving /\ state.proposal = old.proposal
  BY <1>1, <1>4 DEF StateFields
<1> HIDE DEF new, state
<1>6. Abnormal(state)
  BY <1>1, <1>5 DEF Abnormal
<1>7. InProgress(new)
  BY <1>1, <1>3, <1>4, <1>5, <1>6 DEF InProgress
<1>8. Findings(new) /\ Gathered(new, registries)
  BY <1>1, <1>3, <1>5, <1>6, <1>7 DEF Findings, Gathered
<1> QED BY <1>2, <1>8, TaskMoves

LEMMA EstimateSavingsKeeps ==
  ASSUME AdviceInv, NEW s \in Sessions, EstimateSavings(s)
  PROVE  AdviceInv'
<1> DEFINE old == task[s].state
           state == [old EXCEPT !.saving = EstimatedOf(old)]
<1>1. AtNode(s, 7)
  BY DEF EstimateSavings
<1>2. /\ task[s].kind = "investigate" /\ task[s].phase = "running"
      /\ DOMAIN old = StateFields /\ InProgress(task[s]) /\ old.iterations = 6
  BY <1>1, AtANode
<1>3. CASE Raise(s)
  BY <1>2, <1>3, RaiseKeeps
<1>4. CASE Merge(s, state)
  <2>1. EstimatedOf(old) # 0 => old.anomaly # << >>
    BY DEF EstimatedOf
  <2>2. ASSUME NEW new, new.phase = "running", new.answered = task[s].answered,
               new.state = [state EXCEPT !.iterations = @ + 1]
        PROVE  InProgress(new)
    <3>1. /\ new.state.iterations = 7 /\ new.state.proposal = old.proposal
          /\ new.state.baseline = old.baseline /\ new.state.history = old.history
          /\ new.state.anomaly = old.anomaly /\ new.state.saving = EstimatedOf(old)
          /\ new.state.current = old.current
      BY <1>2, <2>2 DEF StateFields
    <3>2. Abnormal(new.state) <=> Abnormal(old)
      BY <3>1 DEF Abnormal
    <3> QED BY <1>2, <2>1, <2>2, <3>1, <3>2 DEF InProgress
  <2>3. /\ DOMAIN state = StateFields
        /\ state.current = old.current /\ state.history = old.history
    BY <1>2 DEF StateFields
  <2> HIDE DEF state
  <2> QED BY <1>1, <1>4, <2>2, <2>3, MergeKeeps
<1> QED BY <1>3, <1>4 DEF EstimateSavings

LEMMA EvaluateRiskKeeps ==
  ASSUME AdviceInv, NEW s \in Sessions, EvaluateRisk(s)
  PROVE  AdviceInv'
<1> DEFINE t == task[s]
           old == t.state
           proposal == IF old.anomaly = << >> THEN << >> ELSE <<ProposePolicyChange(old)>>
           state == [old EXCEPT !.status = "completed", !.iterations = @ + 1,
                                !.risk = RiskOf(old), !.proposal = proposal]
           new == [t EXCEPT !.phase = "ended", !.state = state]
<1>1. AtNode(s, 8) /\ Become(s, new) /\ UNCHANGED <<registries, spend>>
  BY DEF EvaluateRisk
<1>2. /\ t.kind = "investigate"
      /\ DOMAIN t = {"kind", "phase", "answered", "state"}
      /\ DOMAIN old = StateFields
      /\ t.answered \in BOOLEAN
      /\ t.answered => Abnormal(old)
      /\ InProgress(t)
      /\ old.iterations = 7
  BY <1>1, AtANode
<1>3. /\ new.kind = "investigate" /\ new.phase = "ended" /\ new.answered = t.answered
      /\ DOMAIN new = DOMAIN t
      /\ new.state = state
  BY <1>2
<1>4. /\ proposal # << >> <=> old.anomaly # << >>
      /\ old.anomaly # << >> => Head(proposal).monthly = 30 * old.saving
  BY DEF ProposePolicyChange
<1> HIDE DEF new, proposal
<1>5. /\ DOMAIN state = StateFields
      /\ state.iterations = 8 /\ state.status = "completed"
      /\ state.current = old.current /\ state.history = old.history
      /\ state.saving = old.saving /\ state.proposal = proposal
  BY <1>2 DEF StateFields
<1> HIDE DEF state
<1>6. Abnormal(state) <=> Abnormal(old)
  BY <1>5 DEF Abnormal
<1>7. /\ old.anomaly # << >> <=> Abnormal(old)
      /\ old.anomaly # << >> => t.answered
      /\ old.saving # 0 => old.anomaly # << >>
  BY <1>2 DEF InProgress
<1>8. Concluded(new)
  BY <1>3, <1>4, <1>5, <1>6, <1>7 DEF Concluded
<1>9. Findings(new) /\ Gathered(new, registries)
  BY <1>2, <1>3, <1>5, <1>6, <1>8 DEF Findings, Gathered
<1> QED BY <1>1, <1>9, TaskMoves

LEMMA TimeOutKeeps ==
  ASSUME AdviceInv, NEW s \in Sessions, TimeOut(s)
  PROVE  AdviceInv'
<1> DEFINE t == task[s]
           old == t.state
           first == InitialState(old.current, old.history)
           state == [first EXCEPT !.risk = "HIGH", !.cause = "timed out", !.status = "timeout"]
           new == [t EXCEPT !.phase = "ended", !.state = state]
<1>1. Become(s, new) /\ UNCHANGED <<registries, spend>>
  BY DEF TimeOut
<1>2. /\ t.kind = "investigate"
      /\ DOMAIN t = {"kind", "phase", "answered", "state"}
      /\ DOMAIN old = StateFields
      /\ t.answered \in BOOLEAN
      /\ t.answered => Abnormal(old)
  BY DEF AdviceInv, TimeOut, Investigating, Findings
<1>3. /\ new.kind = "investigate" /\ new.phase = "ended" /\ new.answered = t.answered
      /\ DOMAIN new = DOMAIN t
      /\ new.state = state
  BY <1>2
<1> HIDE DEF new
<1>4. /\ DOMAIN state = StateFields
      /\ state.status = "timeout"
      /\ state.current = old.current /\ state.history = old.history
      /\ state.saving = 0 /\ state.proposal = << >>
  <2> HIDE DEF first
  <2>1. /\ DOMAIN first = StateFields
        /\ first.current = old.current /\ first.history = old.history
        /\ first.saving = 0 /\ first.proposal = << >>
    BY InitialFields DEF first
  <2> QED BY <2>1 DEF StateFields
<1> HIDE DEF state
<1>5. Abnormal(state) <=> Abnormal(old)
  BY <1>4 DEF Abnormal
<1>6. Concluded(new)
  BY <1>3, <1>4 DEF Concluded
<1>7. Findings(new) /\ Gathered(new, registries)
  BY <1>2, <1>3, <1>4, <1>5, <1>6 DEF Findings, Gathered
<1> QED BY <1>1, <1>7, TaskMoves

-----------------------------------------------------------------------------
(* The registry only grows, and what was known stays known.                *)

\* A sequence is one over what is in it.
LEMMA RangeHolds == ASSUME NEW S, NEW q \in Seq(S) PROVE q \in Seq(Range(q))
<1>1. Len(q) \in Nat /\ q \in [1 .. Len(q) -> S]
  OBVIOUS
<1>2. q \in [1 .. Len(q) -> Range(q)]
  BY <1>1 DEF Range
<1> QED BY <1>1, <1>2

LEMMA KnownGrows ==
  ASSUME NEW R, NEW regs \in Seq(R), NEW entries, NEW mix, NEW found, NEW unread,
         NEW from \in Nat, from >= 1, NEW to \in Nat, to <= Len(regs), NEW later \in Nat, to <= later,
         Known(regs, mix, found, unread, from, to)
  PROVE  Known(Append(regs, entries), mix, found, unread, from, later)
<1>1. \A v \in from .. to : v \in from .. later /\ Append(regs, entries)[v] = regs[v]
  OBVIOUS
<1> QED BY <1>1 DEF Known

LEMMA GatheredGrows ==
  ASSUME NEW R, NEW regs \in Seq(R), NEW entries, NEW t, Gathered(t, regs)
  PROVE  Gathered(t, Append(regs, entries))
<1> SUFFICES ASSUME t.kind = "simulate" PROVE Gathered(t, Append(regs, entries))
  BY DEF Gathered
<1> DEFINE more == Append(regs, entries)
<1>1. Len(regs) \in Nat /\ Len(more) = Len(regs) + 1
  OBVIOUS
<1>2. t.since \in 1 .. Len(regs)
  BY DEF Gathered
<1>3. CASE t.phase = "reading"
  <2>1. Known(regs, t.input.mix, t.found, t.unread, t.since, Len(regs))
    BY <1>3 DEF Gathered
  <2>2. Known(more, t.input.mix, t.found, t.unread, t.since, Len(more))
    BY <1>1, <1>2, <2>1, KnownGrows
  <2> HIDE DEF more
  <2> QED BY <1>1, <1>2, <1>3, <2>2 DEF Gathered, more
<1>4. CASE t.phase = "ended"
  <2>1. t.until \in t.since .. Len(regs)
    BY <1>4 DEF Gathered
  <2>2. PICK found : /\ t.result = Simulation(t.input, t.baseline, found)
                     /\ Known(regs, t.input.mix, found, {}, t.since, t.until)
    BY <1>4 DEF Gathered
  <2>3. Known(more, t.input.mix, found, {}, t.since, t.until)
    BY <1>1, <1>2, <2>1, <2>2, KnownGrows
  <2> HIDE DEF more
  <2>4. t.since \in 1 .. Len(more) /\ t.until \in t.since .. Len(more)
    BY <1>1, <1>2, <2>1
  <2> QED BY <1>4, <2>2, <2>3, <2>4 DEF Gathered, more
<1> QED BY <1>3, <1>4 DEF Gathered

\* The registry gains a state, and the sessions stand.
LEMMA GrowthKeeps ==
  ASSUME AdviceInv, NEW entries, registries' = Append(registries, entries),
         UNCHANGED <<spend, task>>
  PROVE  AdviceInv'
<1>1. registries \in Seq(Range(registries)) /\ registries # << >>
  BY DEF AdviceInv
<1> DEFINE S == Range(registries) \cup {entries}
<1>2. registries' \in Seq(S) /\ registries' # << >>
  <2>1. registries \in Seq(S)
    <3>1. Len(registries) \in Nat /\ registries \in [1 .. Len(registries) -> S]
      BY <1>1
    <3> QED BY <3>1
  <2> HIDE DEF S
  <2>2. entries \in S
    BY DEF S
  <2> QED BY <2>1, <2>2
<1>3. registries' \in Seq(Range(registries'))
  BY <1>2, RangeHolds
<1>4. \A s \in Sessions : Findings(task[s]) /\ Gathered(task[s], Append(registries, entries))
  BY <1>1, GatheredGrows DEF AdviceInv
<1>5. \A s \in Sessions : (Findings(task[s]) /\ Gathered(task[s], registries))'
  BY <1>4
<1> QED BY <1>2, <1>3, <1>5 DEF AdviceInv

LEMMA RecordKeeps ==
  ASSUME AdviceInv, NEW provenance, Record(provenance)
  PROVE  AdviceInv'
<1>1. spend'.requests = spend.requests + 1 /\ registries' = registries /\ task' = task
  BY DEF Record
<1>2. \A s \in Sessions : (Findings(task[s]) /\ Gathered(task[s], registries))'
  BY <1>1 DEF AdviceInv
<1> QED BY <1>1, <1>2 DEF AdviceInv

-----------------------------------------------------------------------------
(* The reads of a simulation.                                              *)

\* Each place of a mix has its model's first mention.
LEMMA FirstMention ==
  ASSUME NEW R, NEW mix \in Seq(R), NEW i \in DOMAIN mix
  PROVE  \E j \in ModelIds(mix) : mix[j].model = mix[i].model
<1> DEFINE S == {j \in DOMAIN mix : mix[j].model = mix[i].model}
           before == [j \in S |-> -j]
<1>1. Len(mix) \in Nat /\ DOMAIN mix = 1 .. Len(mix)
  OBVIOUS
<1>2. IsFiniteSet(S) /\ S # {} /\ S \subseteq Int
  <2>1. IsFiniteSet(DOMAIN mix)
    BY <1>1, FS_Interval
  <2>2. S \subseteq DOMAIN mix /\ S # {}
    OBVIOUS
  <2> HIDE DEF S
  <2> QED BY <1>1, <2>1, <2>2, FS_Subset
<1>3. \A j \in S : before[j] \in Int
  BY <1>2
<1>4. PICK j \in S : \A k \in S : before[k] <= before[j]
  <2> HIDE DEF S, before
  <2> QED BY <1>2, <1>3, LargestBy
<1>5. \A k \in S : j <= k
  BY <1>2, <1>4
<1>6. j \in ModelIds(mix)
  BY <1>1, <1>5 DEF ModelIds
<1> QED BY <1>6

LEMMA LoadBaselineKeeps ==
  ASSUME AdviceInv, NEW s \in Sessions, NEW input \in Inputs, LoadBaseline(s, input)
  PROVE  AdviceInv'
<1> DEFINE new == [kind |-> "simulate", phase |-> "reading", input |-> input, baseline |-> spend,
                   unread |-> ModelIds(input.mix), found |-> << >>,
                   since |-> Len(registries)]
<1>1. Become(s, new) /\ UNCHANGED <<registries, spend>>
  BY DEF LoadBaseline
<1>2. /\ new.kind = "simulate" /\ new.phase = "reading" /\ new.input = input
      /\ new.baseline = spend /\ new.unread = ModelIds(input.mix)
      /\ new.found = << >> /\ new.since = Len(registries)
      /\ DOMAIN new = {"kind", "phase", "input", "baseline", "unread", "found", "since"}
  OBVIOUS
<1> HIDE DEF new
<1>3. Len(registries) \in Nat \ {0} /\ spend.requests \in Nat
  BY DEF AdviceInv
<1>4. ModelIds(input.mix) \subseteq DOMAIN input.mix
  BY DEF ModelIds
<1>5. input.mix \in Seq(Range(input.mix))
  BY AdviceAssumption
<1>6. \A i \in DOMAIN input.mix :
          \E j \in ModelIds(input.mix) : input.mix[j].model = input.mix[i].model
  BY <1>5, FirstMention
<1>7. Known(registries, input.mix, new.found, ModelIds(input.mix), new.since, Len(registries))
  BY <1>2, <1>6 DEF Known
<1>8. Gathered(new, registries) /\ Findings(new)
  BY <1>2, <1>3, <1>4, <1>7 DEF Gathered, Findings
<1> QED BY <1>1, <1>8, TaskMoves

LEMMA ReadModelKeeps ==
  ASSUME AdviceInv, NEW s \in Sessions, ReadModel(s)
  PROVE  AdviceInv'
<1> DEFINE t == task[s]
           mix == t.input.mix
           i == Min(t.unread)
           m == mix[i].model
           next == IF m \in DOMAIN Registry
                   THEN [n \in {m} \cup DOMAIN t.found |-> IF n = m THEN Registry[m] ELSE t.found[n]]
                   ELSE t.found
           new == [t EXCEPT !.unread = @ \ {i}, !.found = next]
<1>1. Become(s, new) /\ UNCHANGED <<registries, spend>>
  BY DEF ReadModel
<1>2. /\ t.kind = "simulate" /\ t.phase = "reading" /\ t.unread # {}
      /\ t.input \in Inputs /\ t.baseline.requests \in Nat
      /\ t.since \in 1 .. Len(registries)
      /\ DOMAIN t = {"kind", "phase", "input", "baseline", "unread", "found", "since"}
      /\ t.unread \subseteq DOMAIN mix
      /\ Known(registries, mix, t.found, t.unread, t.since, Len(registries))
  BY DEF AdviceInv, ReadModel, In, Gathered
<1>3. /\ new.kind = "simulate" /\ new.phase = "reading" /\ new.input = t.input
      /\ new.baseline = t.baseline /\ new.unread = t.unread \ {i}
      /\ new.found = next /\ new.since = t.since
      /\ DOMAIN new = DOMAIN t
  BY <1>2
<1>4. Len(registries) \in t.since .. Len(registries) /\ Registry = registries[Len(registries)]
  BY <1>2 DEF Registry, Last, AdviceInv
<1> HIDE DEF new
<1>5. Known(registries, mix, next, t.unread \ {i}, t.since, Len(registries))
  <2>1. \A n \in DOMAIN t.found : n \in DOMAIN next
    OBVIOUS
  <2>2. m \in DOMAIN next \/ m \notin DOMAIN Registry
    OBVIOUS
  <2>3. \A n \in DOMAIN next :
            \/ n = m /\ m \in DOMAIN Registry /\ next[n] = Registry[m]
            \/ n \in DOMAIN t.found /\ next[n] = t.found[n]
    OBVIOUS
  <2> HIDE DEF next
  <2>4. \A n \in DOMAIN next : \E v \in t.since .. Len(registries) :
            n \in DOMAIN registries[v] /\ next[n] = registries[v][n]
    BY <1>2, <1>4, <2>3 DEF Known
  <2>5. ASSUME NEW k \in DOMAIN mix
        PROVE  \/ mix[k].model \in DOMAIN next
               \/ \E v \in t.since .. Len(registries) : mix[k].model \notin DOMAIN registries[v]
               \/ \E j \in t.unread \ {i} : mix[j].model = mix[k].model
    <3>1. CASE mix[k].model = m
      BY <1>4, <2>2, <3>1
    <3>2. CASE mix[k].model # m
      BY <1>2, <2>1, <3>2 DEF Known
    <3> QED BY <3>1, <3>2
  <2> QED BY <2>4, <2>5 DEF Known
<1> HIDE DEF next
<1>6. Gathered(new, registries) /\ Findings(new)
  BY <1>2, <1>3, <1>5 DEF Gathered, Findings
<1> QED BY <1>1, <1>6, TaskMoves

LEMMA SimulateKeeps ==
  ASSUME AdviceInv, NEW s \in Sessions, Simulate(s)
  PROVE  AdviceInv'
<1> DEFINE t == task[s]
           result == Simulation(t.input, t.baseline, t.found)
           new == [kind |-> "simulate", phase |-> "ended", input |-> t.input,
                   baseline |-> t.baseline, since |-> t.since, until |-> Len(registries),
                   result |-> result]
<1> HIDE DEF result
<1>1. Become(s, new) /\ UNCHANGED <<registries, spend>>
  BY DEF Simulate, result
<1>2. /\ new.kind = "simulate" /\ new.phase = "ended" /\ new.input = t.input
      /\ new.baseline = t.baseline /\ new.since = t.since
      /\ new.until = Len(registries) /\ new.result = result
  OBVIOUS
<1> HIDE DEF new
<1>3. /\ t.kind = "simulate" /\ t.phase = "reading" /\ t.unread = {}
      /\ t.input \in Inputs /\ t.baseline.requests \in Nat
      /\ t.since \in 1 .. Len(registries)
      /\ Known(registries, t.input.mix, t.found, {}, t.since, Len(registries))
  BY DEF AdviceInv, Simulate, In, Gathered
<1>4. Len(registries) \in t.since .. Len(registries)
  BY <1>3 DEF AdviceInv
<1>5. Gathered(new, registries) /\ Findings(new)
  BY <1>2, <1>3, <1>4 DEF Gathered, Findings, result
<1> QED BY <1>1, <1>5, TaskMoves

-----------------------------------------------------------------------------
(* Analysis keeps no record of spend or of the registry.                   *)

LEMMA AnalysisKeeps ==
  ASSUME AdviceInv, NEW s \in Sessions,
         \/ \E workload \in Workloads \cup {NoWorkload, "unknown"} : CheckWorkload(s, workload)
         \/ InsertRecommendation(s)
  PROVE  AdviceInv'
<1>1. ASSUME NEW new, new.kind = "analyze" PROVE Findings(new) /\ Gathered(new, registries)
  BY <1>1 DEF Findings, Gathered
<1>2. ASSUME NEW workload, CheckWorkload(s, workload) PROVE AdviceInv'
  <2> DEFINE new == [kind |-> "analyze", workload |-> workload,
                     phase |-> IF workload \in Workloads \cup {NoWorkload} THEN "checked"
                               ELSE "refused"]
  <2>1. Become(s, new) /\ UNCHANGED <<registries, spend>> /\ new.kind = "analyze"
    BY <1>2 DEF CheckWorkload
  <2> HIDE DEF new
  <2> QED BY <1>1, <2>1, TaskMoves
<1>3. CASE InsertRecommendation(s)
  <2>1. ASSUME NEW phase, Become(s, [task[s] EXCEPT !.phase = phase]),
               UNCHANGED <<registries, spend>>
        PROVE  AdviceInv'
    <3> DEFINE new == [task[s] EXCEPT !.phase = phase]
    <3>1. task[s].kind = "analyze"
      BY <1>3 DEF InsertRecommendation, In
    <3>2. new.kind = "analyze"
      BY <3>1
    <3> HIDE DEF new
    <3>3. Findings(new) /\ Gathered(new, registries)
      BY <1>1, <3>2
    <3> QED BY <2>1, <3>3, TaskMoves DEF new
  <2>2. /\ \/ Become(s, [task[s] EXCEPT !.phase = "accepted"])
           \/ Become(s, [task[s] EXCEPT !.phase = "raised"])
        /\ UNCHANGED <<registries, spend>>
    BY <1>3 DEF InsertRecommendation
  <2> QED BY <2>1, <2>2
<1> QED BY <1>2, <1>3

-----------------------------------------------------------------------------
(* The invariant of advice.                                                *)

LEMMA AdviceInvInit == AdviceInit => AdviceInv
<1> SUFFICES ASSUME AdviceInit PROVE AdviceInv
  OBVIOUS
<1>1. DOMAIN task = Sessions /\ spend.requests \in Nat
  BY DEF AdviceInit
<1>2. registries \in Seq(Range(registries)) /\ registries # << >>
  <2>1. registries \in Seq({<< >>}) /\ registries # << >>
    BY DEF AdviceInit
  <2> QED BY <2>1, RangeHolds
<1>3. \A s \in Sessions : task[s].kind = "none"
  BY DEF AdviceInit
<1>4. \A s \in Sessions : Findings(task[s]) /\ Gathered(task[s], registries)
  BY <1>3 DEF Findings, Gathered
<1> QED BY <1>1, <1>2, <1>4 DEF AdviceInv

LEMMA AdviceInvStep == AdviceInv /\ [AdviceNext]_adviceVars => AdviceInv'
<1> SUFFICES ASSUME AdviceInv, [AdviceNext]_adviceVars PROVE AdviceInv'
  OBVIOUS
<1>1. CASE RegisterSeedModels
  BY <1>1, GrowthKeeps DEF RegisterSeedModels
<1>2. ASSUME NEW m \in Models, NEW entry \in Prices, FillIn(m, entry) PROVE AdviceInv'
  BY <1>2, GrowthKeeps DEF FillIn
<1>3. ASSUME NEW provenance, Record(provenance) PROVE AdviceInv'
  BY <1>3, RecordKeeps
<1>4. ASSUME NEW s \in Sessions, RunNode(s) PROVE AdviceInv'
  <2>1. CASE GatewayRaises(s)
    BY <2>1, RaiseKeeps DEF GatewayRaises, In
  <2> QED BY <1>4, <2>1, LoadHistoricalCostKeeps, DetectAnomalyKeeps, QuietNodes,
             AskModelKeeps, AnswerKeeps, EstimateSavingsKeeps, EvaluateRiskKeeps DEF RunNode
<1>5. ASSUME NEW s \in Sessions, TimeOut(s) PROVE AdviceInv'
  BY <1>5, TimeOutKeeps
<1>6. ASSUME NEW s \in Sessions, NEW current \in Observations, NEW history \in Histories,
             Investigate(s, current, history)
      PROVE  AdviceInv'
  BY <1>6, InvestigateKeeps
<1>7. ASSUME NEW s \in Sessions, NEW input \in Inputs, LoadBaseline(s, input) PROVE AdviceInv'
  BY <1>7, LoadBaselineKeeps
<1>8. ASSUME NEW s \in Sessions, ReadModel(s) \/ Simulate(s) PROVE AdviceInv'
  BY <1>8, ReadModelKeeps, SimulateKeeps
<1>9. ASSUME NEW s \in Sessions,
             \/ \E workload \in Workloads \cup {NoWorkload, "unknown"} : CheckWorkload(s, workload)
             \/ InsertRecommendation(s)
      PROVE  AdviceInv'
  BY <1>9, AnalysisKeeps
<1>10. CASE UNCHANGED adviceVars
  BY <1>10 DEF adviceVars, AdviceInv
<1> QED BY <1>1, <1>2, <1>3, <1>4, <1>5, <1>6, <1>7, <1>8, <1>9, <1>10 DEF AdviceNext

(***************************************************************************)
(* What an investigation has established and what a simulation has read,   *)
(* at each of their steps, stands in every reachable state, whatever       *)
(* prices do meanwhile.                                                    *)
(***************************************************************************)
THEOREM AdviceInvariant == AdviceSpec => []AdviceInv
  BY AdviceInvInit, AdviceInvStep, PTL DEF AdviceSpec

\* The property is what the invariant says of a graph that asks or has ended.
LEMMA ConclusionsAreClaims == AdviceInv => ClaimsHaveEvidence
<1> SUFFICES ASSUME AdviceInv, NEW s \in Sessions, task[s].kind = "investigate"
             PROVE  /\ task[s].answered \/ task[s].phase = "asking" => Abnormal(task[s].state)
                    /\ task[s].phase = "ended" => Concluded(task[s])
  BY DEF ClaimsHaveEvidence, Ended, In, Abnormal, Concluded
<1> QED BY DEF AdviceInv, Findings

(***************************************************************************)
(* An investigation claims a saving and proposes a policy exactly when it  *)
(* came to its end, found the metrics abnormal and a model gave the cause, *)
(* wherever the deadline strikes (execute, _node_risk_evaluation).         *)
(***************************************************************************)
THEOREM ClaimsHaveEvidenceHolds == AdviceSpec => []ClaimsHaveEvidence
  BY AdviceInvariant, ConclusionsAreClaims, PTL

-----------------------------------------------------------------------------
(* What a simulation claims.                                               *)

\* The blend of a mix depends on the prices of its models only.
LEMMA SamePricesSameBlend ==
  ASSUME NEW R, NEW mix \in Seq(R), NEW found, NEW price,
         \A i \in DOMAIN mix : price[mix[i].model] = found[mix[i].model]
  PROVE  Weighted(mix, DOMAIN mix, price) = Weighted(mix, DOMAIN mix, found)
<1> DEFINE f == [i \in DOMAIN mix |-> Rate(price[mix[i].model]) * mix[i].share]
           g == [i \in DOMAIN mix |-> Rate(found[mix[i].model]) * mix[i].share]
<1>1. IsFiniteSet(DOMAIN mix)
  <2>1. Len(mix) \in Nat /\ DOMAIN mix = 1 .. Len(mix)
    OBVIOUS
  <2> QED BY <2>1, FS_Interval
<1>2. \A i \in DOMAIN mix : f[i] = g[i]
  OBVIOUS
<1>3. SumOver(f, DOMAIN mix) = SumOver(g, DOMAIN mix)
  <2> HIDE DEF f, g
  <2> QED BY <1>1, <1>2, SumIsSame
<1> QED BY <1>3 DEF Weighted

\* A saving is claimed only of known figures.
LEMMA SavingIsOfKnown ==
  ASSUME NEW input, NEW baseline, baseline.requests \in Nat, NEW found, NEW result,
         result = Simulation(input, baseline, found), result.saving.amount # Unknown
  PROVE  /\ baseline.requests > 0
         /\ Unpriced(input.mix, found) = {}
         /\ result.optimized.amount.num
                = Weighted(input.mix, DOMAIN input.mix, found) * input.volume
<1> DEFINE forecast == Forecast(input, baseline)
           optimized == Optimized(input, found)
           rate == BlendedRate(input.mix, found)
<1>1. result.saving = Saving(forecast, optimized) /\ result.optimized = optimized
  BY DEF Simulation
<1> HIDE DEF forecast, optimized
<1>2. forecast.amount # Unknown /\ optimized.amount # Unknown
  BY <1>1 DEF Saving, Unavailable
<1>3. baseline.requests > 0
  BY <1>2 DEF forecast, Forecast, Unavailable
<1>4. rate # Unknown
  BY <1>2 DEF optimized, Optimized, Unavailable
<1>5. optimized.amount.num = rate * input.volume
  BY <1>4 DEF optimized, Optimized, Figure
<1>6. Unpriced(input.mix, found) = {} /\ rate = Weighted(input.mix, DOMAIN input.mix, found)
  BY <1>4 DEF BlendedRate
<1> QED BY <1>1, <1>3, <1>5, <1>6

\* An unpriced model leaves nothing to compare.
LEMMA UnpricedIsUnknown ==
  ASSUME NEW input, NEW baseline, NEW found, NEW result,
         result = Simulation(input, baseline, found), result.unpriced # {}
  PROVE  result.saving = Unavailable /\ result.within_budget = Unknown
<1>1. /\ result.saving = Saving(Forecast(input, baseline), Optimized(input, found))
      /\ result.within_budget = WithinBudget(input, Optimized(input, found))
      /\ result.unpriced = Unpriced(input.mix, found)
  BY DEF Simulation
<1>2. Optimized(input, found) = Unavailable
  BY <1>1 DEF Optimized, BlendedRate
<1>3. Unavailable.amount = Unknown
  BY DEF Unavailable
<1> QED BY <1>1, <1>2, <1>3 DEF Saving, WithinBudget

\* The prices of the witness are those the simulation found.
LEMMA SavingsAreOfRealPrices == AdviceInv => SavingIsOfRealPrices
<1> SUFFICES ASSUME AdviceInv, NEW s \in Sessions, Ended(s, "simulate")
             PROVE  LET mix == task[s].input.mix
                        models == {part.model : part \in Range(mix)}
                        result == task[s].result
                    IN  /\ result.saving.amount # Unknown =>
                               /\ task[s].baseline.requests > 0
                               /\ \E price \in [models -> UNION {InForce(s, m) : m \in models}] :
                                      /\ \A m \in models :
                                             price[m] \in InForce(s, m) /\ HasKnownPricing(price[m])
                                      /\ result.optimized.amount.num
                                             = Weighted(mix, DOMAIN mix, price) * task[s].input.volume
                        /\ \A m \in result.unpriced :
                               \/ \E v \in task[s].since .. task[s].until : m \notin DOMAIN registries[v]
                               \/ \E entry \in InForce(s, m) : ~HasKnownPricing(entry)
                        /\ result.unpriced # {} => /\ result.saving = Unavailable
                                                   /\ result.within_budget = Unknown
  BY DEF SavingIsOfRealPrices
<1> DEFINE t == task[s]
           mix == t.input.mix
           models == {part.model : part \in Range(mix)}
           result == t.result
<1>1. /\ t.kind = "simulate" /\ t.phase = "ended"
      /\ t.input \in Inputs /\ t.baseline.requests \in Nat
      /\ \E found : /\ result = Simulation(t.input, t.baseline, found)
                    /\ Known(registries, mix, found, {}, t.since, t.until)
  BY DEF AdviceInv, Ended, In, Gathered
<1>2. PICK found : /\ result = Simulation(t.input, t.baseline, found)
                   /\ Known(registries, mix, found, {}, t.since, t.until)
  BY <1>1
<1>3. mix \in Seq(Range(mix))
  BY <1>1, AdviceAssumption
<1>4. \A m \in models : \E i \in DOMAIN mix : mix[i].model = m
  BY DEF Range
<1>5. \A m \in DOMAIN found : found[m] \in InForce(s, m)
  BY <1>2 DEF Known, InForce
<1>6. \A m \in models : \/ m \in DOMAIN found
                        \/ \E v \in t.since .. t.until : m \notin DOMAIN registries[v]
  BY <1>2, <1>4 DEF Known
<1>7. ASSUME result.saving.amount # Unknown
      PROVE  /\ t.baseline.requests > 0
             /\ \E price \in [models -> UNION {InForce(s, m) : m \in models}] :
                    /\ \A m \in models : price[m] \in InForce(s, m) /\ HasKnownPricing(price[m])
                    /\ result.optimized.amount.num = Weighted(mix, DOMAIN mix, price) * t.input.volume
  <2>1. /\ t.baseline.requests > 0
        /\ Unpriced(mix, found) = {}
        /\ result.optimized.amount.num = Weighted(mix, DOMAIN mix, found) * t.input.volume
    <3>1. t.baseline.requests \in Nat /\ result = Simulation(t.input, t.baseline, found)
      BY <1>1, <1>2
    <3> HIDE DEF t, result, models
    <3> QED BY ONLY <1>7, <3>1, SavingIsOfKnown DEF mix
  <2>2. \A m \in models : m \in DOMAIN found /\ HasKnownPricing(found[m])
    BY <2>1 DEF Unpriced, IsPriced
  <2> DEFINE price == [m \in models |-> found[m]]
  <2>3. price \in [models -> UNION {InForce(s, m) : m \in models}]
    BY <1>5, <2>2
  <2>4. \A m \in models : price[m] \in InForce(s, m) /\ HasKnownPricing(price[m])
    BY <1>5, <2>2
  <2>5. \A i \in DOMAIN mix : price[mix[i].model] = found[mix[i].model]
    BY DEF Range
  <2> HIDE DEF price, models
  <2>6. Weighted(mix, DOMAIN mix, price) = Weighted(mix, DOMAIN mix, found)
    BY <1>3, <2>5, SamePricesSameBlend
  <2> QED BY <2>1, <2>3, <2>4, <2>6
<1>8. \A m \in result.unpriced :
          \/ \E v \in t.since .. t.until : m \notin DOMAIN registries[v]
          \/ \E entry \in InForce(s, m) : ~HasKnownPricing(entry)
  <2>1. result.unpriced = Unpriced(mix, found)
    BY <1>2 DEF Simulation
  <2>2. ASSUME NEW m \in Unpriced(mix, found)
        PROVE  m \in models /\ (m \notin DOMAIN found \/ ~HasKnownPricing(found[m]))
    BY DEF Unpriced, IsPriced
  <2> HIDE DEF models
  <2> QED BY <1>5, <1>6, <2>1, <2>2
<1>9. result.unpriced # {} => result.saving = Unavailable /\ result.within_budget = Unknown
  BY <1>2, UnpricedIsUnknown
<1> QED BY <1>7, <1>8, <1>9

(***************************************************************************)
(* A saving is claimed only where there was traffic and each model of the  *)
(* mix had a price while the simulation ran, and of such prices; an        *)
(* unpriced model leaves saving and verdict unknown (simulate,             *)
(* _load_registry).                                                        *)
(***************************************************************************)
THEOREM SavingIsOfRealPricesHolds == AdviceSpec => []SavingIsOfRealPrices
  BY AdviceInvariant, SavingsAreOfRealPrices, PTL
=============================================================================
