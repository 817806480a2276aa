----------------------------- MODULE ScanLogin -----------------------------
(* Signing a browser in by scanning a QR code (scanlogin/service.go and       *)
(* ScanLoginPanel.tsx).  The panel obtains a code, shows it and polls; apps   *)
(* of signed-in users scan, confirm or deny it; a confirm mints a session and *)
(* leaves its token in the row for the panel to fetch.  Each transition is    *)
(* one conditional UPDATE, but the mint and the look at the row before it are *)
(* statements of their own.                                                   *)
(*                                                                            *)
(* One panel is modelled with the codes it obtains one after the other.  A    *)
(* request of an app is used once, and names the session it mints.            *)
EXTENDS Integers

CONSTANTS
    Users,      \* signed-in users of the app
    Requests,   \* requests of their apps
    none,       \* no user, no token
    MaxCodes,   \* bound: codes obtained
    MaxFaults   \* bound: requests, polls and statements that fail

ASSUME ScanAssumption ==
    /\ none \notin Users /\ none \notin Requests
    /\ MaxCodes \in Nat /\ MaxFaults \in Nat

Codes == 1..MaxCodes
Verbs == {"scan", "confirm", "deny"}

VARIABLES
    \* als_scan_codes: status, user_id and session_token of each code; a swept
    \* row is "gone", and its other fields stay as history
    row,
    life,       \* each code: "fresh", then "expired", then "old" (past the grace)
    issued,     \* codes 1..issued exist
    \* per request: place, verb, app user, code, the life of the code when the
    \* clock was read at the earliest, and the answer
    pc, verb, user, code, since, verdict,
    minted,     \* sessions in als_sessions, named by the request that minted them
    \* the panel: code shown, armed timer, call under way, life of the code
    \* when it was sent, the server's answer, unmounted, token in localStorage
    shown, timer, flight, sent, reply, stopped, saved,
    faults

rows == <<row, life, issued>>
apps == <<pc, verb, user, code, since, verdict, minted>>
panel == <<shown, timer, flight, sent, reply, stopped, saved>>
vars == <<rows, apps, panel, faults>>

Statuses == {"none", "pending", "scanned", "authorized", "denied", "gone"}
Lives == {"fresh", "expired", "old"}
Replies == [status: Statuses \union {"expired"}, token: Requests \union {none}]
NoReply == [status |-> "none", token |-> none]
NoRow == [status |-> "none", user |-> none, token |-> none]

TypeOK ==
    /\ row \in [Codes -> [status: Statuses, user: Users \union {none},
                          token: Requests \union {none}]]
    /\ life \in [Codes -> Lives]
    /\ issued \in 0..MaxCodes
    /\ pc \in [Requests -> {"idle", "looking", "minting", "updating", "repeating", "done"}]
    /\ verb \in [Requests -> Verbs]
    /\ user \in [Requests -> Users \union {none}]
    /\ code \in [Requests -> Codes \union {0}]
    /\ since \in [Requests -> Lives]
    /\ verdict \in [Requests -> {"none", "ok", "refused"}]
    /\ minted \subseteq Requests
    /\ shown \in Codes \union {0}
    /\ timer \in {"none", "start", "poll"}
    /\ flight \in {"none", "init", "status"}
    /\ sent \in Lives
    /\ reply \in Replies
    /\ stopped \in BOOLEAN
    /\ saved \in Requests \union {none}
    /\ faults \in Nat

(* The panel is mounted and startSession has sent its first request.          *)
Init ==
    /\ row = [c \in Codes |-> NoRow]
    /\ life = [c \in Codes |-> "fresh"]
    /\ issued = 0
    /\ pc = [r \in Requests |-> "idle"]
    /\ verb = [r \in Requests |-> "scan"]
    /\ user = [r \in Requests |-> none]
    /\ code = [r \in Requests |-> 0]
    /\ since = [r \in Requests |-> "fresh"]
    /\ verdict = [r \in Requests |-> "none"]
    /\ minted = {}
    /\ shown = 0 /\ timer = "none" /\ flight = "init" /\ sent = "fresh"
    /\ reply = NoReply /\ stopped = FALSE /\ saved = none
    /\ faults = 0

-----------------------------------------------------------------------------
(* Requests of the apps *)

Row(r) == row[code[r]]

(* Variant for checking: the row's user is not compared.                      *)
Mine_Any(r) == TRUE

Mine(r) == Row(r).user = user[r]

(* A statement compares expires_at with a clock read before it runs.          *)
SeesFresh(r) == since[r] = "fresh"
SeesLate(r) == life[code[r]] # "fresh"

Goto(r, p) == pc' = [pc EXCEPT ![r] = p]

(* The app is answered; the clock it was compared with no longer matters.     *)
Answer(r, v) ==
    /\ Goto(r, "done")
    /\ verdict' = [verdict EXCEPT ![r] = v]
    /\ since' = [since EXCEPT ![r] = "fresh"]

(* The app of u calls with a code some panel showed, maybe long ago.          *)
Call(r, v, u, c) ==
    /\ pc[r] = "idle"
    /\ c <= issued
    /\ verb' = [verb EXCEPT ![r] = v]
    /\ user' = [user EXCEPT ![r] = u]
    /\ code' = [code EXCEPT ![r] = c]
    /\ since' = [since EXCEPT ![r] = life[c]]
    /\ Goto(r, IF v = "confirm" THEN "looking" ELSE "updating")
    /\ UNCHANGED <<rows, verdict, minted, panel, faults>>

(* The UPDATE of Scan: pending to scanned, and the scanner is bound.          *)
Scan(r) ==
    /\ pc[r] = "updating" /\ verb[r] = "scan"
    /\ \/ /\ Row(r).status = "pending" /\ SeesFresh(r)
          /\ row' = [row EXCEPT ![code[r]].status = "scanned", ![code[r]].user = user[r]]
          /\ Answer(r, "ok")
       \/ /\ Row(r).status # "pending" \/ SeesLate(r)
          /\ Goto(r, "repeating") /\ UNCHANGED <<row, verdict, since>>
    /\ UNCHANGED <<life, issued, verb, user, code, minted, panel, faults>>

(* Variant for checking: the app is told it is done as soon as the row is     *)
(* decided, either way.                                                       *)
Repeatable_Decided(v) ==
    IF v = "confirm" THEN {"authorized", "denied"} ELSE {"scanned"}

(* repeatOutcomeForUser: a scan may be repeated while the row is scanned, a   *)
(* confirm once it is authorized.                                             *)
Repeatable(v) == IF v = "confirm" THEN {"authorized"} ELSE {"scanned"}

Repeat(r) ==
    /\ pc[r] = "repeating"
    /\ IF Mine(r) /\ life[code[r]] = "fresh" /\ Row(r).status \in Repeatable(verb[r])
       THEN Answer(r, "ok") ELSE Answer(r, "refused")
    /\ UNCHANGED <<rows, verb, user, code, minted, panel, faults>>

(* Confirm first looks at the row, and goes on to mint only for its scanner.  *)
Look(r) ==
    /\ pc[r] = "looking"
    /\ LET own == Mine(r) /\ life[code[r]] = "fresh"
       IN  \/ own /\ Row(r).status = "authorized" /\ Answer(r, "ok")
           \/ own /\ Row(r).status = "scanned" /\ Goto(r, "minting") /\ UNCHANGED <<verdict, since>>
           \/ ~(own /\ Row(r).status \in {"authorized", "scanned"}) /\ Answer(r, "refused")
    /\ UNCHANGED <<rows, verb, user, code, minted, panel, faults>>

(* MintSessionForUser inserts the session; then the clock is read again.      *)
Mint(r) ==
    /\ pc[r] = "minting"
    /\ minted' = minted \union {r}
    /\ since' = [since EXCEPT ![r] = life[code[r]]]
    /\ Goto(r, "updating")
    /\ UNCHANGED <<rows, verb, user, code, verdict, panel, faults>>

(* Variant for checking: the UPDATE does not ask for the status it leaves.    *)
Confirmable_Any == {"scanned", "authorized", "denied"}

Confirmable == {"scanned"}

(* The UPDATE of Confirm: scanned to authorized, with the token.              *)
Confirm(r) ==
    /\ pc[r] = "updating" /\ verb[r] = "confirm"
    /\ \/ /\ Row(r).status \in Confirmable /\ Mine(r) /\ SeesFresh(r)
          /\ row' = [row EXCEPT ![code[r]].status = "authorized", ![code[r]].token = r]
          /\ Answer(r, "ok")
       \/ /\ Row(r).status \notin Confirmable \/ ~Mine(r) \/ SeesLate(r)
          /\ Goto(r, "repeating") /\ UNCHANGED <<row, verdict, since>>
    /\ UNCHANGED <<life, issued, verb, user, code, minted, panel, faults>>

(* The UPDATE of Deny: any signed-in user, pending or scanned to denied.      *)
Deny(r) ==
    /\ pc[r] = "updating" /\ verb[r] = "deny"
    /\ \/ /\ Row(r).status \in {"pending", "scanned"} /\ SeesFresh(r)
          /\ row' = [row EXCEPT ![code[r]].status = "denied"]
          /\ Answer(r, "ok")
       \/ /\ Row(r).status \notin {"pending", "scanned"} \/ SeesLate(r)
          /\ Answer(r, "refused") /\ UNCHANGED row
    /\ UNCHANGED <<life, issued, verb, user, code, minted, panel, faults>>

(* The process dies, the app hangs up, or a statement reports an error.       *)
Abort(r) ==
    /\ pc[r] \notin {"idle", "done"}
    /\ faults < MaxFaults
    /\ faults' = faults + 1
    /\ Answer(r, "none")
    /\ UNCHANGED <<rows, verb, user, code, minted, panel>>

-----------------------------------------------------------------------------
(* The panel *)

(* Variant for checking: timers are armed whether or not it is unmounted.     *)
Unless_Never(t) == t

(* if (!stoppedRef.current) schedule(...)                                     *)
Unless(t) == IF stopped THEN "none" ELSE t

(* A timer fires: startSession or poll sends its request.                     *)
Fire ==
    /\ timer # "none" /\ flight = "none"
    /\ flight' = IF timer = "start" THEN "init" ELSE "status"
    /\ sent' = IF timer = "poll" THEN life[shown] ELSE "fresh"
    /\ timer' = "none"
    /\ UNCHANGED <<rows, apps, shown, reply, stopped, saved, faults>>

(* Init: a new row, and its code on the way to the panel.                     *)
ServeInit ==
    /\ flight = "init" /\ reply = NoReply
    /\ issued < MaxCodes
    /\ issued' = issued + 1
    /\ row' = [row EXCEPT ![issued + 1].status = "pending"]
    /\ reply' = [NoReply EXCEPT !.status = "pending"]
    /\ UNCHANGED <<life, apps, shown, timer, flight, sent, stopped, saved, faults>>

(* Status reads the clock, then the row; a swept row is answered 404.         *)
ServeStatus ==
    /\ flight = "status" /\ reply = NoReply
    /\ LET answer(s) == [status |-> s,
                         token |-> IF s = "authorized" THEN row[shown].token ELSE none]
       IN  \/ row[shown].status = "gone" /\ reply' = answer("gone")
           \/ /\ row[shown].status # "gone" /\ sent = "fresh"
              /\ reply' = answer(row[shown].status)
           \/ /\ row[shown].status # "gone" /\ life[shown] # "fresh"
              /\ reply' = answer("expired")
    /\ UNCHANGED <<rows, apps, shown, timer, flight, sent, stopped, saved, faults>>

(* The call is over; when it was sent no longer matters.                      *)
Received == flight' = "none" /\ reply' = NoReply /\ sent' = "fresh"

(* startSession has its answer: the code is shown and polling starts.         *)
HandleInit ==
    /\ flight = "init" /\ reply # NoReply
    /\ shown' = issued
    /\ timer' = Unless("poll")
    /\ Received
    /\ UNCHANGED <<rows, apps, stopped, saved, faults>>

(* Variant for checking: 404 is retried like any other error.                 *)
NeedsNewSession_Never(status) == FALSE

NeedsNewSession(status) == status = "gone"

(* Variants for checking: the token is stored although the panel is gone, and *)
(* something else is stored instead.                                          *)
Stored_Always == reply.token
Stored_Undefined == IF stopped THEN "undefined" ELSE reply.token

Stored == IF stopped THEN saved ELSE reply.token

(* poll has its answer.  After "denied" and "expired" the next startSession   *)
(* is scheduled without a look at stoppedRef.                                 *)
HandleStatus ==
    /\ flight = "status" /\ reply # NoReply
    /\ saved' = IF reply.status = "authorized" THEN Stored ELSE saved
    /\ timer' = CASE reply.status = "authorized" -> "none"
                  [] reply.status \in {"denied", "expired"} -> "start"
                  [] NeedsNewSession(reply.status) -> Unless("start")
                  [] OTHER -> Unless("poll")
    /\ Received
    /\ UNCHANGED <<rows, apps, shown, stopped, faults>>

(* The call fails, carried out or not.                                        *)
CallFails ==
    /\ flight # "none"
    /\ faults < MaxFaults
    /\ faults' = faults + 1
    /\ timer' = Unless(IF flight = "init" THEN "start" ELSE "poll")
    /\ Received
    /\ UNCHANGED <<rows, apps, shown, stopped, saved>>

Unmount ==
    /\ ~stopped
    /\ stopped' = TRUE /\ timer' = "none"
    /\ UNCHANGED <<rows, apps, shown, flight, sent, reply, saved, faults>>

-----------------------------------------------------------------------------
(* Time: codes age in the order they were issued *)

Ages(c, from, to) ==
    /\ c <= issued /\ life[c] = from
    /\ \A d \in Codes : d < c => life[d] # from
    /\ life' = [life EXCEPT ![c] = to]
    /\ UNCHANGED <<row, issued, apps, panel, faults>>

Expire(c) == Ages(c, "fresh", "expired")
PassGrace(c) == Ages(c, "expired", "old")

(* CleanupExpired, of any instance.                                           *)
Sweep ==
    /\ \E c \in Codes : c <= issued /\ life[c] = "old" /\ row[c].status # "gone"
    /\ row' = [c \in Codes |-> IF c <= issued /\ life[c] = "old"
                               THEN [row[c] EXCEPT !.status = "gone"] ELSE row[c]]
    /\ UNCHANGED <<life, issued, apps, panel, faults>>

Serve(r) == Scan(r) \/ Repeat(r) \/ Look(r) \/ Mint(r) \/ Confirm(r) \/ Deny(r)
Panel == Fire \/ ServeInit \/ ServeStatus \/ HandleInit \/ HandleStatus

Next ==
    \/ \E r \in Requests :
         \/ \E v \in Verbs, u \in Users, c \in Codes : Call(r, v, u, c)
         \/ Serve(r)
         \/ Abort(r)
    \/ Panel \/ CallFails \/ Unmount
    \/ \E c \in Codes : Expire(c) \/ PassGrace(c)
    \/ Sweep

Spec == Init /\ [][Next]_vars

(* Timers fire and the backend answers; users and the clock owe nothing.      *)
FairSpec == Spec /\ WF_vars(Panel)

-----------------------------------------------------------------------------
(* Properties *)

Told(r, v) == verb[r] = v /\ verdict[r] = "ok"

(* A token that waits in a row or has reached the browser is a session of the *)
(* one user whose app was told it had scanned that code, whatever confirms    *)
(* and repeated scans of other users run at the same time.                    *)
Handed == ({row[c].token : c \in Codes} \union {saved}) \ {none}

RightSession ==
    \A t \in Handed :
        /\ t \in minted
        /\ \A r \in Requests : Told(r, "scan") /\ code[r] = code[t] => user[r] = user[t]

(* No app is told "authorized" for a code for which another is told "denied". *)
AnswersAgree ==
    \A r, q \in Requests :
        ~(Told(r, "confirm") /\ Told(q, "deny") /\ code[r] = code[q])

(* A decided code stays decided, with the token the first confirm left: every *)
(* poll of the panel gets the same one.                                       *)
DecidedIsFinal ==
    [][\A c \in Codes : row[c].status \in {"authorized", "denied"} =>
         /\ row'[c].status \in {row[c].status, "gone"}
         /\ row'[c].token = row[c].token]_vars

(* A panel the user has left never signs the browser in: the part of          *)
(* SignInPromise that its Receive states, which the runs check as SignInKept. *)
NoLoginAfterUnmount == [][stopped => saved' = saved]_vars

(* The panel does not poll a code for ever that can no longer succeed.        *)
Dead(c) == row[c].status \in {"denied", "gone"} \/ life[c] # "fresh"
Polls(c) == shown = c /\ (timer = "poll" \/ flight = "status")

DeadCodeDropped == \A c \in Codes : (Dead(c) /\ Polls(c)) ~> ~Polls(c)

(* Once the user has left, the panel comes to rest: polls and timers that     *)
(* were under way do not keep each other going.  (The model answers no init   *)
(* beyond its bound.)                                                         *)
AtBound == flight = "init" /\ issued = MaxCodes

UnmountComesToRest == stopped ~> [](timer = "none" /\ (flight = "none" \/ AtBound))

(* What the status of a code means to who relies on it; a swept row keeps     *)
(* what became of it.                                                         *)
PhaseOf(c) ==
    CASE row[c].status = "none" -> "none"
      [] row[c].status = "pending" -> "offered"
      [] row[c].status = "scanned" -> "taken"
      [] row[c].status \in {"authorized", "gone"} /\ row[c].token # none -> "signed"
      [] OTHER -> "closed"

(* Whose session a request has minted.                                        *)
OwnerOf(r) == IF r \in minted THEN user[r] ELSE none

Promise == INSTANCE SignInPromise
    WITH Sessions <- Requests,
         phase <- [c \in Codes |-> PhaseOf(c)],
         by <- [c \in Codes |-> row[c].user],
         session <- [c \in Codes |-> row[c].token],
         owner <- [r \in Requests |-> OwnerOf(r)],
         browser <- saved,
         left <- stopped

(* However requests of several users, retries, expiry and lost answers        *)
(* interleave, a session is only minted for a user who has taken a code, and  *)
(* only that user's session goes with the code, once: SignInPromise.          *)
SignInKept == Promise!Spec

-----------------------------------------------------------------------------
(* The inductive invariant behind the safety properties *)

(* Who has called knows an issued code; who may update after a confirm has    *)
(* minted.                                                                    *)
CallShape ==
    \A r \in Requests :
        /\ pc[r] # "done" => verdict[r] = "none"
        /\ pc[r] # "idle" => code[r] \in 1..issued /\ user[r] \in Users
        /\ pc[r] \in {"looking", "minting"} => verb[r] = "confirm"
        /\ pc[r] = "repeating" => verb[r] # "deny"
        /\ pc[r] = "updating" /\ verb[r] = "confirm" => r \in minted

(* The panel only polls a code it was given.                                  *)
PanelShape ==
    /\ timer = "poll" \/ flight = "status" => shown \in 1..issued
    /\ flight = "init" /\ reply # NoReply => issued \in Codes
    /\ flight = "none" => reply = NoReply

(* A row gains its user with the scan and its token with the confirm.         *)
RowShape ==
    \A c \in Codes :
        /\ c \notin 1..issued => row[c].status = "none"
        /\ row[c].status \in {"none", "pending"} => row[c].user = none
        /\ row[c].status \in {"none", "pending", "scanned", "denied"} => row[c].token = none
        /\ row[c].status = "authorized" => row[c].token # none
        /\ row[c].token # none =>
             LET t == row[c].token
             IN  t \in minted /\ pc[t] # "idle" /\ code[t] = c /\ user[t] = row[c].user

(* What an app was told is still true of the row, swept or not.               *)
AnswersHold ==
    \A r \in Requests :
        /\ Told(r, "scan") => Row(r).status \notin {"none", "pending"} /\ Mine(r)
        /\ Told(r, "confirm") => Row(r).token # none
        /\ Told(r, "deny") => Row(r).status \in {"denied", "gone"} /\ Row(r).token = none

TokenPath ==
    /\ saved # none => \E c \in Codes : row[c].token = saved
    /\ reply.token # none => \E c \in Codes : row[c].token = reply.token

IInv == TypeOK /\ CallShape /\ PanelShape /\ RowShape /\ AnswersHold /\ TokenPath

(* A request mints at most once, and only for the user bound to the code.     *)
MintsForScanner ==
    \A r \in Requests :
        /\ pc[r] \in {"idle", "looking", "minting"} => r \notin minted
        /\ pc[r] = "minting" => Mine(r)

(* An issued code has a row, and "authorized" comes with a token.             *)
AnswersComplete ==
    /\ \A c \in 1..issued : row[c].status # "none"
    /\ reply.status = "authorized" => reply.token # none

KeptInv == MintsForScanner /\ AnswersComplete
=============================================================================
