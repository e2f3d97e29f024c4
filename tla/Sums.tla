-------------------------------- MODULE Sums --------------------------------
(***************************************************************************)
(* The sum a SUM query takes of a column.                                  *)
(***************************************************************************)
EXTENDS FiniteSetsExt

\* The sum of f[x] over the rows x of the finite set S, 0 when there are none.
SumOver(f, S) == MapThenSumSet(LAMBDA x : f[x], S)
=============================================================================
