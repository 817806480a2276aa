--------------------------- MODULE RefreshArbiter ---------------------------
(* The credentials of one user: the vault row that holds the upstream         *)
(* (sub2api) token pair all of the user's devices share, the local sessions   *)
(* the devices hold, and the requests that touch both.  A refresh token can   *)
(* be presented upstream once; a second presentation makes sub2api revoke the *)
(* whole token family.  Every request that may rotate the pair holds the      *)
(* user's refresh lock (lockUserRefresh): an in-process mutex and, on         *)
(* PostgreSQL, an advisory lock that lives as long as its connection.         *)
(*                                                                            *)
(* Locks, vault rows and sessions of two users are independent, so one user   *)
(* is modelled.  Upstream tokens are numbered in the order sub2api issues     *)
(* them.  A request is used once; a login names the session it mints.         *)
EXTENDS Integers, FiniteSets

CONSTANTS
    Requests,       \* HTTP requests of the user's devices, and admin syncs
    FirstSession,   \* the session a device already holds at the start
    nobody,         \* the lock is free
    Serves,         \* which kinds of request arrive in this instance
    Starts,         \* which situations the user may start from
    EmailDrift,     \* may the login e-mail be one the local row does not carry?
    GatewayErrors,  \* may a 429/5xx hide a refresh that did happen?
    MaxFaults,      \* bound: aborted requests and store errors
    MaxLockLoss     \* bound: advisory-lock connections that break

Kinds == {"refresh", "ensure", "login", "sync"}
StartKinds == {"new", "legacy", "imported"}
Sessions == Requests \union {FirstSession}
PersistAttempts == 3

ASSUME ArbiterAssumption ==
    /\ FirstSession \notin Requests
    /\ nobody \notin Requests
    /\ Serves \subseteq Kinds
    /\ Starts \subseteq StartKinds
    /\ EmailDrift \in BOOLEAN
    /\ GatewayErrors \in BOOLEAN
    /\ {MaxFaults, MaxLockLoss} \subseteq Nat

VARIABLES
    \* the vault row: refresh token (0: none), rotation_state ("none": no row),
    \* version, and what access_expires_at says
    refresh, vstate, version, expiry,
    known,      \* the user has a local row
    session,    \* state of each local session
    holder,     \* who holds the user's refresh lock
    consumed,   \* upstream: refresh tokens already exchanged
    issued,     \* upstream: number of the last refresh token issued
    \* per request: where it is, what it is, the session it presents, the vault
    \* token and version it loaded, the write it is making, the new token it
    \* got from upstream, and its tries to persist it
    pc, kind, shown, held, seen, op, got, tries,
    faults, losses

vault == <<refresh, vstate, version, expiry>>
upstream == <<consumed, issued>>
local == <<pc, kind, shown, held, seen, op, got, tries>>
bounds == <<faults, losses>>
vars == <<vault, known, session, holder, upstream, local, bounds>>

Places == {"idle", "waiting", "checking", "loading", "matching", "writing",
           "calling", "clearing", "revoking", "extending",
           "signing_in", "capturing", "minting", "done"}
Ops == {"none", "begin", "complete", "mark", "reset"}

TypeOK ==
    /\ refresh \in Nat /\ version \in Nat /\ issued \in Nat
    /\ vstate \in {"none", "stable", "rotating", "uncertain"}
    /\ expiry \in {"fresh", "near", "unknown"}
    /\ known \in BOOLEAN
    /\ session \in [Sessions -> {"unused", "live", "expired", "revoked"}]
    /\ holder \in Requests \union {nobody}
    /\ consumed \in SUBSET Nat
    /\ pc \in [Requests -> Places]
    /\ kind \in [Requests -> Kinds]
    /\ shown \in [Requests -> Sessions]
    /\ held \in [Requests -> Nat]
    /\ seen \in [Requests -> Nat]
    /\ op \in [Requests -> Ops]
    /\ got \in [Requests -> Nat]
    /\ tries \in [Requests -> Nat]
    /\ faults \in Nat /\ losses \in Nat

(* new: never logged in here.  legacy: a row written before expiries were     *)
(* kept, and a device with a session.  imported: an administrator's import,   *)
(* a row without tokens.                                                      *)
Init ==
    /\ \E s \in Starts :
         /\ known = (s # "new")
         /\ vstate = IF s = "new" THEN "none" ELSE "stable"
         /\ refresh = IF s = "legacy" THEN 1 ELSE 0
         /\ session = [t \in Sessions |->
                         IF s = "legacy" /\ t = FirstSession THEN "live" ELSE "unused"]
    /\ version = 0 /\ expiry = "unknown"
    /\ issued = 1 /\ consumed = {}
    /\ holder = nobody
    /\ pc = [r \in Requests |-> "idle"]
    /\ kind = [r \in Requests |-> "refresh"]
    /\ shown = [r \in Requests |-> FirstSession]
    /\ held = [r \in Requests |-> 0]
    /\ seen = [r \in Requests |-> 0]
    /\ op = [r \in Requests |-> "none"]
    /\ got = [r \in Requests |-> 0]
    /\ tries = [r \in Requests |-> 0]
    /\ faults = 0 /\ losses = 0

Goto(r, p) == pc' = [pc EXCEPT ![r] = p]

(* Variant for checking: an early return without the deferred unlock.         *)
Leave_KeepsLock(r) ==
    /\ Goto(r, "done")
    /\ holder' = holder

(* The handler returns; its deferred unlock runs.                             *)
Leave(r) ==
    /\ Goto(r, "done")
    /\ holder' = IF holder = r THEN nobody ELSE holder

-----------------------------------------------------------------------------
(* Requests arrive *)

(* A device presents a local session, to refresh it or to reach a page that   *)
(* needs the upstream credential.  Both read the session before the lock.     *)
ArriveWithSession(r, k, s) ==
    /\ pc[r] = "idle" /\ k \in Serves
    /\ session[s] = "live"
    /\ kind' = [kind EXCEPT ![r] = k]
    /\ shown' = [shown EXCEPT ![r] = s]
    /\ Goto(r, "waiting")
    /\ UNCHANGED <<vault, known, session, holder, upstream, held, seen, op, got,
                   tries, bounds>>

(* Variant for checking: a password login does not take the refresh lock.     *)
EmailFound_Never == FALSE

(* findLocalUserIDByEmail on the e-mail the login request carries.            *)
EmailFound == known

(* A password login; it takes the lock only when its e-mail is known here.    *)
ArriveLogin(r) ==
    /\ pc[r] = "idle" /\ "login" \in Serves
    /\ kind' = [kind EXCEPT ![r] = "login"]
    /\ \/ EmailFound /\ Goto(r, "waiting")
       \/ (~EmailFound \/ EmailDrift) /\ Goto(r, "signing_in")
    /\ UNCHANGED <<vault, known, session, holder, upstream, shown, held, seen,
                   op, got, tries, bounds>>

(* A password change or admin reset logs in upstream for a known user.        *)
ArriveSync(r) ==
    /\ pc[r] = "idle" /\ "sync" \in Serves
    /\ known
    /\ kind' = [kind EXCEPT ![r] = "sync"]
    /\ Goto(r, "waiting")
    /\ UNCHANGED <<vault, known, session, holder, upstream, shown, held, seen,
                   op, got, tries, bounds>>

Acquire(r) ==
    /\ pc[r] = "waiting"
    /\ holder = nobody
    /\ holder' = r
    /\ Goto(r, CASE kind[r] = "refresh" -> "checking"
                 [] kind[r] = "ensure" -> "loading"
                 [] OTHER -> "signing_in")
    /\ UNCHANGED <<vault, known, session, upstream, kind, shown, held, seen, op,
                   got, tries, bounds>>

-----------------------------------------------------------------------------
(* The arbiter, under the lock *)

(* The session is looked up again after the wait for the lock.                *)
Revalidate(r) ==
    /\ pc[r] = "checking"
    /\ IF session[shown[r]] = "live"
       THEN Goto(r, "loading") /\ UNCHANGED holder
       ELSE Leave(r)
    /\ UNCHANGED <<vault, known, session, upstream, kind, shown, held, seen, op,
                   got, tries, bounds>>

(* A refresh rotates what it cannot date; a page load trusts it.              *)
NeedsRotate(k) == expiry = "near" \/ (k = "refresh" /\ expiry = "unknown")

LoadVault(r) ==
    /\ pc[r] = "loading"
    /\ \/ /\ vstate = "none" \/ refresh = 0
          /\ Leave(r)
          /\ UNCHANGED <<held, seen, op>>
       \/ /\ vstate # "none" /\ refresh # 0 /\ vstate # "stable"
          /\ Goto(r, "revoking")
          /\ UNCHANGED <<holder, held, seen, op>>
       \/ /\ vstate # "none" /\ refresh # 0 /\ vstate = "stable"
          /\ ~NeedsRotate(kind[r])
          /\ IF kind[r] = "refresh"
             THEN Goto(r, "extending") /\ UNCHANGED holder
             ELSE Leave(r)
          /\ UNCHANGED <<held, seen, op>>
       \/ /\ vstate # "none" /\ refresh # 0 /\ vstate = "stable"
          /\ NeedsRotate(kind[r])
          /\ Goto(r, "matching")
          /\ op' = [op EXCEPT ![r] = "begin"]
          /\ held' = [held EXCEPT ![r] = refresh]
          /\ seen' = [seen EXCEPT ![r] = version]
          /\ UNCHANGED holder
    /\ UNCHANGED <<vault, known, session, upstream, kind, shown, got, tries, bounds>>

StateFor(o) == IF o = "begin" THEN "stable" ELSE "rotating"

(* Where a request goes once its write is done, and when it met a conflict.   *)
(* Failing to persist a rotated pair falls back to marking it uncertain.      *)
AfterWrite(r) ==
    \/ op[r] = "begin" /\ Goto(r, "calling") /\ UNCHANGED holder
    \/ /\ op[r] = "complete" /\ kind[r] = "refresh"
       /\ Goto(r, "extending") /\ UNCHANGED holder
    \/ op[r] = "complete" /\ kind[r] # "refresh" /\ Leave(r)
    \/ op[r] = "mark" /\ Goto(r, "revoking") /\ UNCHANGED holder
    \/ op[r] = "reset" /\ Leave(r)

Conflict(r) ==
    \/ op[r] \in {"begin", "reset"} /\ Leave(r) /\ UNCHANGED op
    \/ /\ op[r] = "complete"
       /\ op' = [op EXCEPT ![r] = "mark"]
       /\ Goto(r, "matching") /\ UNCHANGED holder
    \/ op[r] = "mark" /\ Goto(r, "revoking") /\ UNCHANGED <<holder, op>>

(* refreshCredentialMatches: token, state and version are compared first ...  *)
Match(r) ==
    /\ pc[r] = "matching"
    /\ \/ /\ vstate = StateFor(op[r]) /\ version = seen[r] /\ refresh = held[r]
          /\ Goto(r, "writing")
          /\ UNCHANGED <<holder, op>>
       \/ /\ ~(vstate = StateFor(op[r]) /\ version = seen[r] /\ refresh = held[r])
          /\ Conflict(r)
    /\ UNCHANGED <<vault, known, session, upstream, kind, shown, held, seen, got,
                   tries, bounds>>

(* ... and the UPDATE compares state and version again, not the token.        *)
WriteVault(r) ==
    CASE op[r] = "begin" -> vstate' = "rotating" /\ UNCHANGED <<refresh, version, expiry>>
      [] op[r] = "complete" -> /\ refresh' = got[r]
                               /\ vstate' = "stable"
                               /\ version' = version + 1
                               /\ expiry' = "fresh"
      [] op[r] = "mark" -> vstate' = "uncertain" /\ UNCHANGED <<refresh, version, expiry>>
      [] op[r] = "reset" -> vstate' = "stable" /\ UNCHANGED <<refresh, version, expiry>>

CasHolds(r) == vstate = StateFor(op[r]) /\ version = seen[r]

Write(r) ==
    /\ pc[r] = "writing"
    /\ \/ CasHolds(r) /\ WriteVault(r) /\ AfterWrite(r) /\ UNCHANGED op
       \* MarkRotationUncertain does not look at the rows it changed
       \/ ~CasHolds(r) /\ Conflict(r) /\ UNCHANGED vault
    /\ UNCHANGED <<known, session, upstream, kind, shown, held, seen, got, tries,
                   bounds>>

(* Variant for checking: a pair that cannot be stored is used all the same.   *)
RetryOrMark_GoesOn(r) ==
    IF tries[r] + 1 < PersistAttempts
    THEN Goto(r, "matching") /\ UNCHANGED op
    ELSE Goto(r, "extending") /\ UNCHANGED op

(* CompleteRotation is tried three times; then the rotation is uncertain.     *)
RetryOrMark(r) ==
    /\ op' = [op EXCEPT ![r] = IF tries[r] + 1 < PersistAttempts THEN "complete" ELSE "mark"]
    /\ Goto(r, "matching")

(* The UPDATE reports an error, applied or not.                               *)
WriteFails(r) ==
    /\ pc[r] = "writing"
    /\ faults < MaxFaults
    /\ faults' = faults + 1
    /\ (CasHolds(r) /\ WriteVault(r)) \/ UNCHANGED vault
    /\ \/ op[r] \in {"begin", "reset"} /\ Leave(r) /\ UNCHANGED <<op, tries>>
       \/ /\ op[r] = "complete"
          /\ tries' = [tries EXCEPT ![r] = @ + 1]
          /\ RetryOrMark(r) /\ UNCHANGED holder
       \/ op[r] = "mark" /\ Goto(r, "revoking") /\ UNCHANGED <<holder, op, tries>>
    /\ UNCHANGED <<known, session, upstream, kind, shown, held, seen, got, losses>>

-----------------------------------------------------------------------------
(* The upstream refresh call: what sub2api does, and what the caller learns *)

Then(r, o) == Goto(r, "matching") /\ op' = [op EXCEPT ![r] = o]

(* sub2api exchanges the token held by r for a new one.                       *)
Exchange(r) ==
    /\ held[r] \notin consumed
    /\ consumed' = consumed \union {held[r]}
    /\ issued' = issued + 1

Rotated(r) ==
    /\ Exchange(r)
    /\ got' = [got EXCEPT ![r] = issued + 1]
    /\ Then(r, "complete")

(* Variant for checking: a lost answer is treated as one that did nothing.    *)
Ambiguous_Reset(r) ==
    /\ Exchange(r) \/ UNCHANGED upstream
    /\ UNCHANGED got
    /\ Then(r, "reset")

(* The connection broke, or the answer had no usable pair.                    *)
Ambiguous(r) ==
    /\ Exchange(r) \/ UNCHANGED upstream
    /\ UNCHANGED got
    /\ Then(r, "mark")

(* Any other status: treated as if the token had not been used.               *)
Busy(r) ==
    /\ UNCHANGED upstream \/ (GatewayErrors /\ Exchange(r))
    /\ UNCHANGED got
    /\ Then(r, "reset")

(* 401, 403 or a 400 that names the refresh token.                            *)
Rejected(r) ==
    /\ UNCHANGED <<upstream, got, op>>
    /\ Goto(r, "clearing")

Answer(r) ==
    /\ pc[r] = "calling"
    /\ Rotated(r) \/ Ambiguous(r) \/ Busy(r) \/ Rejected(r)
    /\ UNCHANGED <<vault, known, session, holder, kind, shown, held, seen, tries,
                   bounds>>

(* Variant for checking: the row is kept, in a state no reader knows.         *)
Clear_KeepsRow(r) ==
    /\ pc[r] = "clearing"
    /\ vstate' = "cleared" /\ refresh' = 0 /\ version' = 0 /\ expiry' = "unknown"
    /\ Goto(r, "revoking")
    /\ UNCHANGED <<known, session, holder, upstream, kind, shown, held, seen, op,
                   got, tries, bounds>>

(* ClearVault: DELETE by user id, whatever the row holds by now.              *)
Clear(r) ==
    /\ pc[r] = "clearing"
    /\ vstate' = "none" /\ refresh' = 0 /\ version' = 0 /\ expiry' = "unknown"
    /\ Goto(r, "revoking")
    /\ UNCHANGED <<known, session, holder, upstream, kind, shown, held, seen, op,
                   got, tries, bounds>>

(* The DELETE is applied but reports an error: the sessions are kept.         *)
ClearFails(r) ==
    /\ pc[r] = "clearing"
    /\ faults < MaxFaults
    /\ faults' = faults + 1
    /\ vstate' = "none" /\ refresh' = 0 /\ version' = 0 /\ expiry' = "unknown"
    /\ Leave(r)
    /\ UNCHANGED <<known, session, upstream, kind, shown, held, seen, op, got,
                   tries, losses>>

(* Variant for checking: the sessions are left alone.                         *)
RevokedSessions_None == session

RevokedSessions ==
    [s \in Sessions |-> IF session[s] \in {"live", "expired"} THEN "revoked"
                        ELSE session[s]]

RevokeAll(r) ==
    /\ pc[r] = "revoking"
    /\ session' = RevokedSessions
    /\ Leave(r)
    /\ UNCHANGED <<vault, known, upstream, kind, shown, held, seen, op, got,
                   tries, bounds>>

(* Variant for checking: the session is extended by its token alone.          *)
Extendable_Any(s) == TRUE

Extendable(s) == session[s] = "live"

(* extendLocalSessionExpiry and the answer to the device.                     *)
Extend(r) ==
    /\ pc[r] = "extending"
    /\ session' = IF Extendable(shown[r])
                  THEN [session EXCEPT ![shown[r]] = "live"] ELSE session
    /\ Leave(r)
    /\ UNCHANGED <<vault, known, upstream, kind, shown, held, seen, op, got,
                   tries, bounds>>

-----------------------------------------------------------------------------
(* Logins *)

SignIn(r) ==
    /\ pc[r] = "signing_in"
    /\ \/ /\ issued' = issued + 1
          /\ got' = [got EXCEPT ![r] = issued + 1]
          /\ Goto(r, "capturing")
          /\ UNCHANGED holder
       \* wrong password, or an answer without a refresh token
       \/ Leave(r) /\ UNCHANGED <<issued, got>>
    /\ UNCHANGED <<vault, known, session, consumed, kind, shown, held, seen, op,
                   tries, bounds>>

(* captureSub2APITokens: the local user is found or made, the pair upserted.  *)
Capture(r) ==
    /\ pc[r] = "capturing"
    /\ known' = TRUE
    /\ refresh' = got[r] /\ vstate' = "stable" /\ expiry' = "fresh"
    /\ version' = IF vstate = "none" THEN 0 ELSE version + 1
    /\ IF kind[r] = "login" THEN Goto(r, "minting") /\ UNCHANGED holder ELSE Leave(r)
    /\ UNCHANGED <<session, upstream, kind, shown, held, seen, op, got, tries, bounds>>

MintSession(r) ==
    /\ pc[r] = "minting"
    /\ session' = [session EXCEPT ![r] = "live"]
    /\ Leave(r)
    /\ UNCHANGED <<vault, known, upstream, kind, shown, held, seen, op, got, tries,
                   bounds>>

-----------------------------------------------------------------------------
(* Time, logout, and what can break *)

Age ==
    /\ expiry = "fresh"
    /\ expiry' = "near"
    /\ UNCHANGED <<refresh, vstate, version, known, session, holder, upstream,
                   local, bounds>>

EndSession(s) ==
    /\ session[s] = "live"
    /\ \E how \in {"expired", "revoked"} : session' = [session EXCEPT ![s] = how]
    /\ UNCHANGED <<vault, known, holder, upstream, local, bounds>>

(* The process dies, the client hangs up, or a statement fails: nothing more  *)
(* is written and the lock goes with the connection.  A call in flight may    *)
(* still be carried out upstream.                                             *)
Abort(r) ==
    /\ pc[r] \notin {"idle", "done"}
    /\ faults < MaxFaults
    /\ faults' = faults + 1
    /\ UNCHANGED upstream \/ (pc[r] = "calling" /\ Exchange(r))
    /\ Leave(r)
    /\ UNCHANGED <<vault, known, session, kind, shown, held, seen, op, got, tries,
                   losses>>

(* The connection that holds the advisory lock breaks; its owner runs on.     *)
LoseLock(r) ==
    /\ holder = r
    /\ losses < MaxLockLoss
    /\ losses' = losses + 1
    /\ holder' = nobody
    /\ UNCHANGED <<vault, known, session, upstream, local, faults>>

Arrive(r) ==
    \/ \E k \in {"refresh", "ensure"}, s \in Sessions : ArriveWithSession(r, k, s)
    \/ ArriveLogin(r)
    \/ ArriveSync(r)

Step(r) ==
    \/ Acquire(r) \/ Revalidate(r) \/ LoadVault(r) \/ Match(r) \/ Write(r)
    \/ Answer(r) \/ Clear(r) \/ RevokeAll(r) \/ Extend(r)
    \/ SignIn(r) \/ Capture(r) \/ MintSession(r)

Break(r) == Abort(r) \/ WriteFails(r) \/ ClearFails(r) \/ LoseLock(r)

Next ==
    \/ \E r \in Requests : Arrive(r) \/ Step(r) \/ Break(r)
    \/ Age
    \/ \E s \in Sessions : EndSession(s)

Spec == Init /\ [][Next]_vars

(* Goroutines run, upstream answers or times out after ten seconds, and a     *)
(* freed lock is handed to a waiter.                                          *)
Fairness == \A r \in Requests : WF_vars(Step(r))

FairSpec == Spec /\ Fairness

-----------------------------------------------------------------------------
(* Properties *)

(* sub2api never sees a refresh token a second time: whatever the requests,   *)
(* logins, lost answers, store errors and crashes, a token on its way to      *)
(* upstream has not been exchanged (rotateUpstreamVaultLocked).               *)
NoReuse == \A r \in Requests : pc[r] = "calling" => held[r] \notin consumed

(* A row that says stable holds a token upstream would still accept; this is  *)
(* what lets the next request, of any device, present it.                     *)
StableIsGood == vstate = "stable" => refresh \notin consumed

(* A session that was revoked or ran out while a refresh waited for the lock  *)
(* or for upstream is not brought back by that refresh.                       *)
EndedStaysEnded ==
    [][\A s \in Sessions : session[s] \in {"expired", "revoked"} => session'[s] # "live"]_vars

(* A refresh that answers success found its session live and the shared       *)
(* credential usable at that moment, unless a lock was lost.                  *)
SuccessIsBacked ==
    losses = 0 =>
        \A r \in Requests : pc[r] = "extending" => vstate = "stable" /\ refresh \notin consumed

(* Only the family sub2api rejected is deleted from the vault, never the one  *)
(* a newer login put there, unless a lock was lost.                           *)
ClearsOwnFamily ==
    [][\A r \in Requests :
         losses = 0 /\ pc[r] = "clearing" /\ vstate # "none" /\ vstate' = "none"
             => refresh = held[r]]_vars

(* The inductive argument for NoReuse.  A request between the load of the     *)
(* vault and the end of its rotation holds the lock and a copy of the row;    *)
(* as long as the version is the one it saw, the token is the one it holds.   *)
InRotation(r) == pc[r] \in {"matching", "writing", "calling"}
UnderLock(r) == InRotation(r) \/ pc[r] \in {"checking", "loading", "clearing", "revoking", "extending"}

LockHeld == \A r \in Requests : UnderLock(r) => holder = r

CopyOfRow ==
    \A r \in Requests : InRotation(r) =>
        /\ vstate # "none"
        /\ seen[r] <= version
        /\ seen[r] = version => refresh = held[r]

(* What upstream has exchanged it has issued, and nobody knows more.          *)
OnlyIssued ==
    /\ \A t \in consumed : t <= issued
    /\ refresh <= issued
    /\ \A r \in Requests : held[r] <= issued /\ got[r] <= issued

(* A token that came with a login is in nobody's hands until it is stored.    *)
LoginTokenFresh ==
    \A q \in Requests : pc[q] = "capturing" =>
        /\ got[q] > 0 /\ got[q] \notin consumed
        /\ got[q] # refresh
        /\ \A r \in Requests : InRotation(r) => held[r] # got[q]
        /\ \A r \in Requests \ {q} : got[r] # got[q]

(* What may be written back: a rotated token nobody used, or, after a busy    *)
(* answer, the token that was not used.                                       *)
WriteBackGood ==
    \A r \in Requests :
        /\ pc[r] \in {"matching", "writing"} /\ op[r] = "complete" => got[r] \notin consumed
        /\ pc[r] \in {"matching", "writing"} /\ op[r] = "reset" => held[r] \notin consumed

InFlightNotStored ==
    \A r \in Requests : pc[r] = "calling" /\ vstate = "stable" => refresh # held[r]

ExtendsStable == \A r \in Requests : pc[r] = "extending" => vstate = "stable"

Core ==
    /\ TypeOK /\ LockHeld /\ CopyOfRow /\ OnlyIssued /\ LoginTokenFresh
    /\ WriteBackGood /\ InFlightNotStored /\ ExtendsStable /\ StableIsGood /\ NoReuse

(* With nothing in flight, no faults and no lost lock, a session is live only *)
(* while the credential behind it can be used or rotated: losing the family   *)
(* logs every device out.                                                     *)
Quiet == \A r \in Requests : pc[r] \in {"idle", "done"}

NoSessionOutlivesFamily ==
    Quiet /\ faults = 0 /\ losses = 0 /\ (\E s \in Sessions : session[s] = "live") => vstate = "stable"

(* Every request that arrives is answered: no path keeps the lock.            *)
EveryRequestAnswered ==
    \A r \in Requests : (pc[r] # "idle") ~> (pc[r] = "done")
=============================================================================
