------------------------------ MODULE SupplyPlan ------------------------------
(****************************************************************************)
(* What the supply chain workflow makes of inventory, demand, suppliers and  *)
(* routes: the plan of intelligence/supply_chain_optimizer.py and the        *)
(* deterministic rules of workloads/supply_chain.py.                         *)
(*                                                                           *)
(* An input p has                                                            *)
(*   inventory   what is in stock of each item and its safety stock;         *)
(*   demand      the units forecast for an item, absent when none is;        *)
(*   suppliers   a sequence of [supplies, price, lead, risk, merit]: an      *)
(*               empty set of items supplies all, risk is in percent, merit  *)
(*               is, for each item, the composite score by which candidates  *)
(*               are sorted: a price weighs against the item's own cost;     *)
(*   routes      a sequence of [cost, transit, merit];                       *)
(*   limit       the budget, or None.                                        *)
(* Safety stock is ordered by halves, so quantities and costs are counted in *)
(* half units here.                                                          *)
(****************************************************************************)
EXTENDS Integers, Sequences, FiniteSets, Sums

CONSTANTS
    None,
    SupplierBound,          \* suppliers[:10]
    RouteBound,             \* logistics[:5]
    ShortageBound           \* units short that make a plan critical

ASSUME SupplyPlanAssumption ==
    /\ SupplierBound \in Nat \ {0}
    /\ RouteBound \in Nat \ {0}
    /\ ShortageBound \in Nat
    /\ None \notin Int

(* What the filters hand on of an input: a field that is not given is None,  *)
(* unless the filters have a default, and a risk may be None all the same.   *)
IntOrNone == Int \cup {None}
IsSequence(s) == s \in Seq({s[k] : k \in DOMAIN s})
IsInput(p) ==
    /\ IsFiniteSet(DOMAIN p.inventory)
    /\ \A i \in DOMAIN p.inventory : p.inventory[i] \in [current : Int, safety : Int]
    /\ \A i \in DOMAIN p.demand : p.demand[i] \in Int
    /\ IsSequence(p.suppliers) /\ IsSequence(p.routes)
    /\ \A k \in DOMAIN p.suppliers :
            /\ {p.suppliers[k].price, p.suppliers[k].lead, p.suppliers[k].risk} \subseteq IntOrNone
            /\ \A i \in DOMAIN p.inventory : p.suppliers[k].merit[i] \in Int
    /\ \A k \in DOMAIN p.routes :
            /\ {p.routes[k].cost, p.routes[k].transit} \subseteq IntOrNone
            /\ p.routes[k].merit \in Int
    /\ p.limit \in IntOrNone

(* The context filters keep the first few candidates, in the order given.    *)
First(n, s) == SubSeq(s, 1, Min({n, Len(s)}))
Suppliers(p) == First(SupplierBound, p.suppliers)
Routes(p) == First(RouteBound, p.routes)

(****************************************************************************)
(* Inventory.                                                                *)
(****************************************************************************)
Items(p) == DOMAIN p.inventory
Demand(p, i) == IF i \in DOMAIN p.demand THEN p.demand[i] ELSE 0
Net(p, i) == p.inventory[i].current - Demand(p, i)
Shortage(p, i) == Max({0, p.inventory[i].safety - Net(p, i)})

StockoutItems(p) ==
    {i \in Items(p) : Shortage(p, i) > 0 \/ Net(p, i) <= 0 \/ p.inventory[i].current <= 0}

TotalShortage(p) == SumOver([i \in StockoutItems(p) |-> Shortage(p, i)], StockoutItems(p))

(* Up to the safety stock and half of it again, in half units.               *)
OrderQuantity(p, i) ==
    IF i \in StockoutItems(p) THEN 2 * Shortage(p, i) + p.inventory[i].safety ELSE 0

(****************************************************************************)
(* Candidates: a stable sort by merit, so that the first of equals wins.     *)
(****************************************************************************)
Best(merit) ==
    CHOOSE k \in DOMAIN merit :
        \A l \in DOMAIN merit : \/ merit[k] > merit[l]
                                \/ merit[k] = merit[l] /\ k <= l

Candidates(p, i) ==
    {k \in DOMAIN Suppliers(p) : Suppliers(p)[k].supplies = {} \/ i \in Suppliers(p)[k].supplies}

(* Items nobody supplies are ordered, but from nobody and at no cost.        *)
Supplied(p) == {i \in Items(p) : Candidates(p, i) # {}}
SelectedSupplier(p, i) ==
    Suppliers(p)[Best([k \in Candidates(p, i) |-> Suppliers(p)[k].merit[i]])]
SelectedRoute(p) == Routes(p)[Best([k \in DOMAIN Routes(p) |-> Routes(p)[k].merit])]

(* The filters put None where a price, a lead time or a transit time is      *)
(* missing, and float(None) and int(None) raise.                             *)
AnalysisRaises(p) ==
    \/ \E i \in Items(p) : \E k \in Candidates(p, i) :
            None \in {Suppliers(p)[k].price, Suppliers(p)[k].lead, Suppliers(p)[k].risk}
    \/ \E k \in DOMAIN Routes(p) : None \in {Routes(p)[k].cost, Routes(p)[k].transit}

(* An order of nothing, or of less than nothing, costs nothing.              *)
PurchaseCost(p, i) == SelectedSupplier(p, i).price * Max({0, OrderQuantity(p, i)})
ProcurementCost(p) == SumOver([i \in Supplied(p) |-> PurchaseCost(p, i)], Supplied(p))

TotalOrdered(p) == SumOver([i \in StockoutItems(p) |-> OrderQuantity(p, i)], StockoutItems(p))
LogisticsCost(p) == SelectedRoute(p).cost * Max({0, TotalOrdered(p)})

LandedCost(p) == ProcurementCost(p) + LogisticsCost(p)

LeadTime(p) ==
    Max({0} \cup {SelectedSupplier(p, i).lead : i \in Supplied(p)}) + SelectedRoute(p).transit

(* The risk of every selected supplier counts, also where nothing is ordered.*)
MaxSupplierRisk(p) == Max({0} \cup {SelectedSupplier(p, i).risk : i \in Supplied(p)})

BudgetPressure(p) == p.limit # None /\ p.limit > 0 /\ LandedCost(p) > 2 * p.limit

(****************************************************************************)
(* The workflow's rules over the analysis.                                   *)
(****************************************************************************)
HighSupplierRisk == 40

EvaluateBudgetPolicy(p) == IF p.limit # None /\ p.limit <= 0 THEN "BLOCK" ELSE "ALLOW"

NeedsReasoning(p) ==
    StockoutItems(p) # {} \/ BudgetPressure(p) \/ MaxSupplierRisk(p) >= HighSupplierRisk

(* _evaluate_risk after its first test, on the pre-check's verdict.          *)
EvaluateRiskOfAnalysis(p) ==
    IF Cardinality(StockoutItems(p)) >= 3 \/ TotalShortage(p) > ShortageBound THEN "critical"
    ELSE IF MaxSupplierRisk(p) >= HighSupplierRisk \/ BudgetPressure(p) THEN "high"
    ELSE IF StockoutItems(p) # {} THEN "medium"
    ELSE "low"

EvaluateRisk(p) ==
    IF EvaluateBudgetPolicy(p) = "BLOCK" THEN "critical" ELSE EvaluateRiskOfAnalysis(p)

RequiresApproval(p) == EvaluateRisk(p) \in {"critical", "high"} \/ BudgetPressure(p)

DetermineRecommendationType(p) ==
    IF MaxSupplierRisk(p) >= HighSupplierRisk THEN "supplier_switch"
    ELSE IF BudgetPressure(p) THEN "inventory_rebalance"
    ELSE "replenishment"

(* The plan; `answered' says that a model explained its trade-offs.          *)
Plan(p, answered) ==
    [type |-> DetermineRecommendationType(p),
     risk |-> EvaluateRisk(p),
     requires_approval |-> RequiresApproval(p),
     recommendation_only |-> RequiresApproval(p),
     quality |-> IF answered THEN "ESTIMATED" ELSE "ACTUAL"]
===============================================================================
