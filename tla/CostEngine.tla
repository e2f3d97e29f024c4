----------------------------- MODULE CostEngine -----------------------------
(***************************************************************************)
(* What one execution cost and how far that can be trusted                 *)
(* (services/cost_engine.py): a pure computation over token counts, the    *)
(* rates an operator configured for the model, tool calls and an           *)
(* allocation of infrastructure.                                           *)
(*                                                                         *)
(* Money is counted in millionths of a currency unit, in which every       *)
(* recognised rate is exact (the code's decimals keep ten places); None is *)
(* what is not known, which is not zero.                                   *)
(***************************************************************************)
EXTENDS Integers

CONSTANTS None,       \* an absent value
          Spellings,  \* what operators type into models.cost_unit
          UnitOf      \* what each says once trimmed, lowered and joined by _

Units == {"per_token", "per_1k_tokens", "per_1m_tokens"}

ASSUME EngineAssumption ==
  /\ None \notin Nat \union Spellings
  /\ UnitOf \in [Spellings -> Units \union {None}]

Optional(S) == S \union {None}

Provenances == {"ACTUAL", "ESTIMATED", "UNAVAILABLE"}

Rank(p) == CASE p = "ACTUAL" -> 2 [] p = "ESTIMATED" -> 1 [] OTHER -> 0

\* The label of a total: of no component, nothing is known.
Weakest(S) ==
  IF S = {} THEN "UNAVAILABLE"
  ELSE CHOOSE p \in S : \A q \in S : Rank(p) <= Rank(q)

TokenUsage == [input: Optional(Nat), output: Optional(Nat),
               source: {"PROVIDER_REPORTED", "ESTIMATED"}]
ModelPricing == [input: Optional(Nat), output: Optional(Nat), unit: Optional(Spellings)]
ToolUsage == [calls: Nat, rate: Optional(Nat)]

\* Millionths that one token costs at a rate of one.
Scale(unit) ==
  CASE unit = "per_token" -> 1000000 [] unit = "per_1k_tokens" -> 1000 [] OTHER -> 1

\* An unknown spelling is no unit.
Unit(pricing) == IF pricing.unit = None THEN None ELSE UnitOf[pricing.unit]

\* A rate without its unit is a number with no meaning.
IsUsable(pricing) == None \notin {pricing.input, pricing.output, Unit(pricing)}

TokenCost(tokens, rate, unit) ==
  IF None \in {tokens, rate} THEN None ELSE tokens * rate * Scale(unit)

ToolCost(tools) ==
  IF tools.calls > 0 /\ tools.rate # None THEN tools.calls * tools.rate * 1000000 ELSE None

\* What was not charged adds nothing.
Charged(cost) == IF cost = None THEN 0 ELSE cost

\* Mutant: only the allocation counts as an estimate.
ResolveProvenanceOfTokens(source, tool, infrastructure) ==
  Weakest({IF source = "PROVIDER_REPORTED" THEN "ACTUAL" ELSE "ESTIMATED"}
            \union (IF infrastructure # None THEN {"ESTIMATED"} ELSE {}))

\* A tool's rate and an allocation are estimates, however the tokens were counted.
ResolveProvenance(source, tool, infrastructure) ==
  Weakest({IF source = "PROVIDER_REPORTED" THEN "ACTUAL" ELSE "ESTIMATED"}
            \union (IF tool # None \/ infrastructure # None THEN {"ESTIMATED"} ELSE {}))

PricingGap(pricing) ==
  IF None \in {pricing.input, pricing.output}
  THEN "pricing_not_configured" ELSE "cost_unit_unrecognised"

Uncosted(reason) == [total |-> None, provenance |-> "UNAVAILABLE", reason |-> reason]

\* compute_cost: a total covers every component or there is none.
ComputeCost(usage, pricing, tools, infrastructure) ==
  LET unit   == Unit(pricing)
      input  == TokenCost(usage.input, pricing.input, unit)
      output == TokenCost(usage.output, pricing.output, unit)
      tool   == ToolCost(tools)
  IN  IF ~IsUsable(pricing) THEN Uncosted(PricingGap(pricing))
      ELSE IF None \in {input, output} THEN Uncosted("incomplete_token_usage")
      ELSE [total      |-> input + output + Charged(tool) + Charged(infrastructure),
            provenance |-> ResolveProvenance(usage.source, tool, infrastructure),
            reason     |-> None]

\* The columns of cost_events a computation is entitled to.
ActualCost(c)    == IF c.provenance = "ACTUAL" THEN c.total ELSE None
EstimatedCost(c) == IF c.provenance = "ESTIMATED" THEN c.total ELSE None
=============================================================================
