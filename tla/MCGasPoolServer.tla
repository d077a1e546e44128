-------------------------- MODULE MCGasPoolServer --------------------------
(* Instances of GasPoolServer: two clients, so that one asks for what the     *)
(* other waits for.                                                           *)
EXTENDS GasPoolServer, TLC

CONSTANTS c1, c2, c3, s1, s2, k1, k2

MCUsage == {-1, 1}

Symmetry == Permutations(ObjectID) \cup Permutations(Server) \cup Permutations(Client)
=============================================================================
