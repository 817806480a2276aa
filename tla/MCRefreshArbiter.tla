-------------------------- MODULE MCRefreshArbiter --------------------------
(* Instances of RefreshArbiter for TLC.                                       *)
EXTENDS RefreshArbiter, TLC

CONSTANTS r1, r2, r3

ThreeRequests == {r1, r2, r3}

AnyKind == Kinds
KnownUser == {"legacy", "imported"}
LegacyUser == {"legacy"}

\* Requests are interchangeable until they arrive, and so are their sessions.
Symmetry == Permutations(Requests)
=============================================================================
