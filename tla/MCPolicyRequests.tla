-------------------------- MODULE MCPolicyRequests --------------------------
(* Small instances of PolicyRequests for TLC. *)
EXTENDS PolicyRequests, TLC

CONSTANTS r1, r2, s1, p1, p2, p3, k1, q1, q2, finops, viewer

OneKey     == [r \in Recs |-> k1]
SeedRoutes == [s \in SeedIds |-> <<k1, "medium">>]

Interchangeable == Permutations(NewIds) \cup Permutations(Requests)
==============================================================================
