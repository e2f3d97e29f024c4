------------------------- MODULE MCResilientGateway -------------------------
(* Small instances of ResilientGateway for TLC. *)
EXTENDS ResilientGateway, TLC

CONSTANTS c1, c2, c3

Callers == Permutations(Calls)
=============================================================================
