--------------------------- MODULE MCOrchestrator ---------------------------
(* Small instances of Orchestrator for TLC: three models, of which one is  *)
(* unrated, one unpriced and one untimed, and policies that pin or filter. *)
EXTENDS Orchestrator, TLC

CONSTANTS m1, m2, m3, noPolicy, r1, r2

MCRated   == {m1, m2}
MCPriced  == {m2, m3}
MCTimed   == {m1, m3}
MCQuality == (m1 :> 3) @@ (m2 :> 1) @@ (m3 :> 0)
\* A measured model may be worth nothing.
MCWorthless == (m1 :> 0) @@ (m2 :> 1) @@ (m3 :> 0)
MCCost    == (m1 :> 0) @@ (m2 :> 2) @@ (m3 :> 1)
MCLatency == (m1 :> 1) @@ (m2 :> 0) @@ (m3 :> 1)
MCName    == (m1 :> 1) @@ (m2 :> 2) @@ (m3 :> 3)

MCPolicies ==
  {[pinned |-> None, floor |-> 2], [pinned |-> m2, floor |-> 0], [pinned |-> m3, floor |-> 1]}
=============================================================================
