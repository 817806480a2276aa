------------------------------ MODULE MCPortal ------------------------------
(* Instances of Portal for TLC.                                               *)
EXTENDS Portal

CONSTANTS old, new, row1, k1, week, month, ann, bea, cid

OneRow == {row1}
TwoUsers == {ann, bea}
ThreeUsers == {ann, bea, cid}

AllPages == {"proxy", "editors", "register", "checkout", "keys", "home", "desk"}
=============================================================================
