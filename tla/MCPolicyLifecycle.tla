-------------------------- MODULE MCPolicyLifecycle --------------------------
(* Small instances of PolicyLifecycle for TLC. *)
EXTENDS PolicyLifecycle, TLC

CONSTANTS r1, r2, r3, r4, s1, s2, p1, p2, p3, k1, finops, viewer

\* Every recommendation on one route.
OneKey     == [r \in Recs |-> k1]
\* The seed inserts a policy per complexity, all at version 1.
SeedRoutes == [s \in SeedIds |-> IF s = s1 THEN <<k1, "medium">> ELSE <<k1, "simple">>]

FreshIds   == Permutations(NewIds)
==============================================================================
