----------------------------- MODULE MCWorkflows -----------------------------
(***************************************************************************)
(* Two executions of any of nineteen jobs: machines that are normal,        *)
(* exactly at a threshold, anomalous in one metric or in two, or partly    *)
(* unreadable; plans that order nothing, one item or three, that are over  *)
(* or out of budget, choose a supplier risky for the one item for which it *)
(* scores best, lack a price, a lead time or a transit time, or refill an  *)
(* item wholly out of stock; and jobs that are incomplete or of no known   *)
(* type.                                                                   *)
(***************************************************************************)
EXTENDS Workflows

MCNormalRange ==
    [vibration |-> [mean |-> 20, std |-> 8, threshold |-> 20],
     pressure |-> [mean |-> 30, std |-> 5, threshold |-> 25],
     spare |-> [mean |-> 0, std |-> 0, threshold |-> 25]]

NoPlan == [inventory |-> << >>]

Machine(readings) ==
    [kind |-> "predictive_maintenance", complete |-> TRUE, readings |-> readings, plan |-> NoPlan]

Machines == {Machine(r) : r \in {
    [vibration |-> 25, pressure |-> 30],
    [vibration |-> 36, pressure |-> 17],
    [vibration |-> 37, pressure |-> 30],
    [vibration |-> Unreadable, pressure |-> 60, spare |-> 9],
    [vibration |-> 60, pressure |-> 10, spare |-> 9]}}

Stock(current, safety) == [current |-> current, safety |-> safety]
Supplier(items, price, risk, merit) ==
    [supplies |-> items, price |-> price, lead |-> 7, risk |-> risk,
     merit |-> [bolt |-> merit, belt |-> merit, seal |-> merit]]
Route(cost, merit) == [cost |-> cost, transit |-> 3, merit |-> merit]

Full == [bolt |-> Stock(9, 2), belt |-> Stock(9, 2), seal |-> Stock(9, 2)]
Low == [Full EXCEPT !.belt = Stock(3, 2)]
Empty == [bolt |-> Stock(0, 2), belt |-> Stock(1, 2), seal |-> Stock(1, 2)]

Cheap == Supplier({}, 1, 10, 5)
Risky == [Supplier({}, 1, 40, 0) EXCEPT !.merit.belt = 9]
Unpriced == Supplier({"seal"}, None, 10, 0)

Supplies(inventory, suppliers, routes, limit) ==
    [kind |-> "supply_chain", complete |-> TRUE, readings |-> << >>,
     plan |-> [inventory |-> inventory, demand |-> [belt |-> 2, seal |-> 1],
               suppliers |-> suppliers, routes |-> routes, limit |-> limit]]

Plans == {
    Supplies(Full, <<Cheap>>, <<Route(1, 5)>>, None),
    Supplies(Full, <<Cheap>>, <<Route(1, 5)>>, 0),
    Supplies(Full, <<Cheap, Risky>>, <<Route(1, 5)>>, 9),
    Supplies(Low, <<Cheap, Cheap, Risky>>, <<Route(2, 5), Route(1, 5)>>, 6),
    Supplies(Low, <<Cheap>>, <<Route(1, 4), Route(2, 5)>>, 5),
    Supplies(Empty, <<Supplier({"bolt"}, 1, 10, 5)>>, <<Route(1, 5)>>, 99),
    Supplies([Full EXCEPT !.belt = Stock(9, 14)], <<Cheap>>, <<Route(1, 5)>>, 99),
    Supplies([Full EXCEPT !.belt = Stock(0, 2)], <<Cheap>>, <<Route(1, 5)>>, 99),
    Supplies(Low, <<Cheap, Unpriced>>, <<Route(1, 5)>>, 9),
    Supplies(Full, <<[Cheap EXCEPT !.lead = None]>>, <<Route(1, 5)>>, 9),
    Supplies(Full, <<Cheap>>, <<[Route(1, 5) EXCEPT !.transit = None]>>, 9)}

MCJobs == Machines \cup Plans \cup {
    [Machine([vibration |-> 25]) EXCEPT !.complete = FALSE],
    [Machine([vibration |-> 25]) EXCEPT !.kind = "quality_check"],
    Supplies(Full, << >>, <<Route(1, 5)>>, None)}
=============================================================================
