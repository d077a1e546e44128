---------------------------- MODULE MCGasStorage ----------------------------
(* A small instance of GasStorage: coins of balance 0, 1 and 2, so that a     *)
(* reservation takes one coin, several, or meets the per-query limit.         *)
EXTENDS GasStorage, TLC

CONSTANTS c1, c2, c3, s1, s2

MCNewCoin == [id : ObjectID, version : {0}, balance : 0..2]

Symmetry == Permutations(ObjectID) \cup Permutations(Server)
=============================================================================
