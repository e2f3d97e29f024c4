----------------------------- MODULE MCBudgets -----------------------------
(* A small tenant for TLC: two plants, one with a budget of its own, in the  *)
(* base currency or in one without a rate; the tenant's is in a currency     *)
(* worth two units of spend.                                                 *)
EXTENDS Budgets, TLC

CONSTANTS p1, p2, T, P, q1, q2, i1, i2

MCTypeOf == (T :> "TENANT") @@ (P :> "PLANT")
MCCovers == (T :> {p1, p2}) @@ (P :> {p1})
MCSources == {<<p1, "ESTIMATED">>, <<p2, "ACTUAL">>}
MCOutcomeByState ==
  [NORMAL |-> "ALLOW", WARNING |-> "ALLOW", CRITICAL |-> "DOWNGRADE", EXCEEDED |-> "BLOCK"]
Wide   == [amount |-> 1, warning |-> 30, critical |-> 50, period |-> "MONTHLY", currency |-> "EUR"]
Narrow == [amount |-> 1, warning |-> 60, critical |-> 40, period |-> "DAILY", currency |-> "USD"]
MCRates == [USD |-> 1, EUR |-> 2]
MCOffers == {<<T, Wide>>, <<P, Narrow>>, <<P, [Narrow EXCEPT !.currency = "XTS"]>>}
MCCeilings == {[amount |-> 1, currency |-> "USD"]}
MCPatches == {[status |-> "INACTIVE", critical |-> 30], [status |-> "ACTIVE", warning |-> 40]}
MCCalendar == [DAILY |-> <<1, 2>>, MONTHLY |-> <<1, 1>>]
MCSymmetry == Permutations({q1, q2}) \cup Permutations({i1, i2})
=============================================================================
