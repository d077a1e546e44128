------------------------ MODULE MCGasPoolInitializer ------------------------
(* Two servers and five object ids.  With a cost per object of 2 and a target *)
(* of 1 coins above 6 are split, in two at most: 14 gives 5 and 7, of which 7 *)
(* gives 1 and 4, and 8 gives 2 and 4.                                        *)
EXTENDS GasPoolInitializer, TLC

CONSTANTS c1, c2, c3, c4, c5, s1, s2, s3

MCUsage == {1}

OneLarge   == [c \in {c1} |-> 14]
OneSmall   == [c \in {c1} |-> 2]
LargeSmall == [c \in {c1, c2} |-> IF c = c1 THEN 8 ELSE 2]
NoDeposit  == [c \in {} |-> 0]
DepositOf8 == [c \in {c3} |-> 8]

Symmetry == Permutations(Server)
=============================================================================
