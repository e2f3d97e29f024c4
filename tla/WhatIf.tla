------------------------------- MODULE WhatIf -------------------------------
(****************************************************************************)
(* optimization/simulation.py: what a change of volume, budget and model mix *)
(* would cost, by arithmetic on recorded spend and registry prices.          *)
(*                                                                           *)
(* An input has volume, budget and mix, a sequence of [model, share] with    *)
(* shares in percent; a baseline has actual, estimated and requests; the     *)
(* registry maps the models found to [input, output, unit, risk].  Rates are *)
(* per cent of a share, so that a blend of whole prices is whole, and rates  *)
(* and figures are fractions [num, den].                                     *)
(****************************************************************************)
EXTENDS Integers, Sequences, FiniteSets, Functions, Sums

CONSTANT Unknown        \* None

\* A figure that could not be computed is no zero.
Unavailable == [amount |-> Unknown, provenance |-> "UNAVAILABLE"]
Figure(num, den, provenance) ==
    [amount |-> [num |-> num, den |-> den], provenance |-> provenance]

KnownSpend(baseline) == baseline.actual + baseline.estimated

HasKnownPricing(entry) == Unknown \notin {entry.input, entry.output, entry.unit}

(****************************************************************************)
(* The mix.                                                                  *)
(****************************************************************************)
IsPriced(part, registry) ==
    part.model \in DOMAIN registry /\ HasKnownPricing(registry[part.model])

\* The answer lists them in the order of the mix; which they are is what counts.
Unpriced(mix, registry) ==
    {part.model : part \in {p \in Range(mix) : ~IsPriced(p, registry)}}

TotalShare(mix, places) == SumOver([i \in places |-> mix[i].share], places)

Rate(entry) == entry.input + entry.output

Weighted(mix, places, registry) ==
    SumOver([i \in places |-> Rate(registry[mix[i].model]) * mix[i].share], places)

\* Mutant: a model without a price is passed over.
BlendedRateOfPriced(mix, registry) ==
    LET priced == {i \in DOMAIN mix : IsPriced(mix[i], registry)}
    IN  IF TotalShare(mix, priced) <= 0 THEN Unknown ELSE Weighted(mix, priced, registry)

\* A hundred times the cost of a request, or None.  Shares need not add up to 100.
BlendedRate(mix, registry) ==
    IF Unpriced(mix, registry) # {} \/ TotalShare(mix, DOMAIN mix) <= 0 THEN Unknown
    ELSE Weighted(mix, DOMAIN mix, registry)

RiskOrder == <<"LOW", "MEDIUM", "HIGH", "CRITICAL">>

\* A model that is not in the registry is passed over here.
MixRisk(mix, registry) ==
    LET Level(m) == IF registry[m].risk \in Range(RiskOrder)
                    THEN CHOOSE i \in DOMAIN RiskOrder : RiskOrder[i] = registry[m].risk
                    ELSE 2
    IN  RiskOrder[Max({1} \cup {Level(part.model) : part \in
                           {p \in Range(mix) : p.model \in DOMAIN registry}})]

(****************************************************************************)
(* The comparison.                                                           *)
(****************************************************************************)
Current(baseline) ==
    Figure(KnownSpend(baseline), 1, IF baseline.estimated = 0 THEN "ACTUAL" ELSE "ESTIMATED")

\* A window without requests has no rate.
Forecast(input, baseline) ==
    IF baseline.requests <= 0 THEN Unavailable
    ELSE Figure(KnownSpend(baseline) * input.volume, baseline.requests, "FORECAST")

Optimized(input, registry) ==
    LET rate == BlendedRate(input.mix, registry)
    IN  IF rate = Unknown THEN Unavailable ELSE Figure(rate * input.volume, 100, "SIMULATED")

\* Only when both sides are known.
Saving(forecast, optimized) ==
    IF Unknown \in {forecast.amount, optimized.amount} THEN Unavailable
    ELSE Figure(forecast.amount.num * 100 - optimized.amount.num * forecast.amount.den,
                forecast.amount.den * 100, "SIMULATED")

\* The verdict is None unless there are a budget and a cost to compare.
WithinBudget(input, optimized) ==
    IF Unknown \in {input.budget, optimized.amount} THEN Unknown
    ELSE optimized.amount.num <= input.budget * 100

\* The quality of today's routing is unknown to the route, and so is the impact.
Simulation(input, baseline, registry) ==
    [current |-> Current(baseline),
     forecast |-> Forecast(input, baseline),
     optimized |-> Optimized(input, registry),
     saving |-> Saving(Forecast(input, baseline), Optimized(input, registry)),
     quality_impact |-> Unknown,
     risk |-> MixRisk(input.mix, registry),
     within_budget |-> WithinBudget(input, Optimized(input, registry)),
     unpriced |-> Unpriced(input.mix, registry)]
=============================================================================
