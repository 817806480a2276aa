---------------------------- MODULE MCScanLogin ----------------------------
(* Instances of ScanLogin for TLC.                                            *)
EXTENDS ScanLogin, TLC

CONSTANTS alice, bob, r1, r2, r3

TwoUsers == {alice, bob}
ThreeRequests == {r1, r2, r3}

\* Users are interchangeable, and so are requests.
Symmetry == {f @@ g : f \in Permutations(Users), g \in Permutations(Requests)}
=============================================================================
