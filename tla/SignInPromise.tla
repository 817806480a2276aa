--------------------------- MODULE SignInPromise ---------------------------
(* What signing in by QR code promises, whatever scans, confirms, denials and *)
(* polls meet: a code is taken by one user, a session exists only for a user  *)
(* who has taken a code, a code hands over one session of the user who took   *)
(* it and never another, a closed code none, and a browser receives a session *)
(* only while its page waits for it.                                          *)
(* ScanLogin implements this specification (SignInKept there).                *)
CONSTANTS Users, Sessions, Codes, none

VARIABLES
    phase,      \* each code: "none", "offered", "taken", "signed" or "closed"
    by,         \* who took it
    session,    \* the session it hands over
    owner,      \* whose each session is; none: it does not exist
    browser,    \* the session the browser has received
    left        \* the page is gone

vars == <<phase, by, session, owner, browser, left>>

Init ==
    /\ phase = [c \in Codes |-> "none"]
    /\ by = [c \in Codes |-> none]
    /\ session = [c \in Codes |-> none]
    /\ owner = [t \in Sessions |-> none]
    /\ browser = none
    /\ left = FALSE

Offer(c) ==
    /\ phase[c] = "none"
    /\ phase' = [phase EXCEPT ![c] = "offered"]
    /\ UNCHANGED <<by, session, owner, browser, left>>

Take(c, u) ==
    /\ phase[c] = "offered"
    /\ phase' = [phase EXCEPT ![c] = "taken"]
    /\ by' = [by EXCEPT ![c] = u]
    /\ UNCHANGED <<session, owner, browser, left>>

(* A session comes to be for whoever took a code; it may never be handed over. *)
Mint(t, c) ==
    /\ owner[t] = none
    /\ by[c] # none
    /\ owner' = [owner EXCEPT ![t] = by[c]]
    /\ UNCHANGED <<phase, by, session, browser, left>>

(* The code hands over one session, its taker's, and no other code does.      *)
Sign(c, t) ==
    /\ phase[c] = "taken"
    /\ owner[t] = by[c]
    /\ \A d \in Codes : session[d] # t
    /\ phase' = [phase EXCEPT ![c] = "signed"]
    /\ session' = [session EXCEPT ![c] = t]
    /\ UNCHANGED <<by, owner, browser, left>>

(* Codes are denied, or swept together after their time.                      *)
Close(S) ==
    /\ \A c \in S : phase[c] \in {"offered", "taken"}
    /\ phase' = [c \in Codes |-> IF c \in S THEN "closed" ELSE phase[c]]
    /\ UNCHANGED <<by, session, owner, browser, left>>

Receive(c) ==
    /\ ~left
    /\ phase[c] = "signed"
    /\ browser' = session[c]
    /\ UNCHANGED <<phase, by, session, owner, left>>

Leave ==
    /\ left' = TRUE
    /\ UNCHANGED <<phase, by, session, owner, browser>>

Next ==
    \/ \E c \in Codes :
         \/ Offer(c)
         \/ Receive(c)
         \/ \E u \in Users : Take(c, u)
         \/ \E t \in Sessions : Mint(t, c) \/ Sign(c, t)
    \/ \E S \in SUBSET Codes : Close(S)
    \/ Leave

Spec == Init /\ [][Next]_vars
=============================================================================
