--------------------------- MODULE MCPackageGrant ---------------------------
(* Instances of PackageGrant for TLC.                                         *)
EXTENDS PackageGrant, TLC

CONSTANTS j1, j2, e1, e2, g1, g2, g3, pro, topup

\* A subscription package and a top-up, each with a standard group.
Pro == [value |-> "days", tier |-> pro, std |-> <<g1>>, sub |-> <<g2>>]
TopUp == [value |-> "balance", tier |-> topup, std |-> <<g3>>, sub |-> <<g2>>]

ProAndTopUp == j1 :> Pro @@ j2 :> TopUp
JustPro == j1 :> Pro

Symmetry == Permutations(Executors)
=============================================================================
