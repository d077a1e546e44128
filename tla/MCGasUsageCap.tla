--------------------------- MODULE MCGasUsageCap ---------------------------
(* Requests up to three; the configurations choose how many of them there are. *)
EXTENDS GasUsageCap, TLC

CONSTANTS r1, r2, r3

Symmetry == Permutations(Request)

\* A transaction that frees storage gets a rebate.
WithRebate == {-1, 2}
=============================================================================
