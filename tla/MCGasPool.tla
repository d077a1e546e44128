----------------------------- MODULE MCGasPool -----------------------------
(* Instances of GasPool: two servers, two or three coins of balance 2, so     *)
(* that a budget of 1 reserves one coin and a budget of 3 reserves two.       *)
EXTENDS GasPool, TLC

CONSTANTS c1, c2, c3, s1, s2

MCUsage == {-1, 1}

Symmetry == Permutations(ObjectID) \cup Permutations(Server)
=============================================================================
