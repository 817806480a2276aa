------------------------- MODULE RefreshArbiterProofs -------------------------
(* Theorems about RefreshArbiter, for any number of requests, any situation   *)
(* the user starts from, logins with and without the lock, and any number of  *)
(* aborts and store errors.                                                   *)
EXTENDS RefreshArbiter, TLAPS

(* What the token theorems rest on: the advisory lock lasts as long as its    *)
(* owner, and an answer that says "busy" means the token was not used.        *)
LockAndAnswersReliable == MaxLockLoss = 0 /\ GatewayErrors = FALSE

-----------------------------------------------------------------------------
(* Types, whatever breaks *)

(* Types are right at the start.                                              *)
LEMMA TypeInit == Init => TypeOK
<1> SUFFICES ASSUME Init PROVE TypeOK
  OBVIOUS
<1>1. PICK s \in Starts :
        /\ known = (s # "new")
        /\ vstate = IF s = "new" THEN "none" ELSE "stable"
        /\ refresh = IF s = "legacy" THEN 1 ELSE 0
        /\ session = [t \in Sessions |->
                        IF s = "legacy" /\ t = FirstSession THEN "live" ELSE "unused"]
  BY DEF Init
<1>2. known \in BOOLEAN /\ vstate \in {"none", "stable"} /\ refresh \in Nat
  BY <1>1
<1>3. session \in [Sessions -> {"unused", "live", "expired", "revoked"}]
  BY <1>1
<1>4. QED
  BY <1>2, <1>3 DEF Init, TypeOK, Places, Kinds, Ops, Sessions

(* Leaving frees the lock or leaves it with its holder.                       *)
LEMMA LeaveType ==
    ASSUME TypeOK, NEW r \in Requests, Leave(r)
    PROVE  /\ pc' \in [Requests -> Places]
           /\ holder' \in Requests \union {nobody}
BY DEF TypeOK, Leave, Goto, Places

(* Arrivals keep the types, and so do                                         *)
LEMMA TypeArrive ==
    ASSUME TypeOK, NEW r \in Requests, Arrive(r)
    PROVE  TypeOK'
<1>1. CASE \E k \in {"refresh", "ensure"}, s \in Sessions : ArriveWithSession(r, k, s)
  BY <1>1 DEF ArriveWithSession, TypeOK, Goto, Places, Kinds, vault, upstream, bounds
<1>2. CASE ArriveLogin(r)
  BY <1>2 DEF ArriveLogin, TypeOK, Goto, Places, Kinds, vault, upstream, bounds
<1>3. CASE ArriveSync(r)
  BY <1>3 DEF ArriveSync, TypeOK, Goto, Places, Kinds, vault, upstream, bounds
<1>4. QED
  BY <1>1, <1>2, <1>3 DEF Arrive

(* the writes to the vault row,                                               *)
LEMMA TypeVaultWrite ==
    ASSUME TypeOK, NEW r \in Requests, op[r] \in Ops \ {"none"},
           WriteVault(r) \/ UNCHANGED vault
    PROVE  /\ refresh' \in Nat /\ version' \in Nat
           /\ vstate' \in {"none", "stable", "rotating", "uncertain"}
           /\ expiry' \in {"fresh", "near", "unknown"}
<1>1. CASE UNCHANGED vault
  BY <1>1 DEF TypeOK, vault
<1>2. CASE WriteVault(r) /\ op[r] = "complete"
  BY <1>2 DEF TypeOK, WriteVault
<1>3. CASE WriteVault(r) /\ op[r] # "complete"
  <2>1. vstate' \in {"stable", "rotating", "uncertain"} /\ UNCHANGED <<refresh, version, expiry>>
    BY <1>3 DEF WriteVault, Ops
  <2>2. QED
    BY <2>1 DEF TypeOK
<1>4. QED
  BY <1>1, <1>2, <1>3

(* the exchange of a token upstream,                                          *)
LEMMA ExchangeType ==
    ASSUME TypeOK, NEW r \in Requests, Exchange(r)
    PROVE  issued' \in Nat /\ consumed' \in SUBSET Nat
<1>1. held[r] \in Nat /\ issued \in Nat /\ consumed \subseteq Nat
  BY DEF TypeOK
<1>2. consumed' = consumed \union {held[r]} /\ issued' = issued + 1
  BY DEF Exchange
<1>3. issued' \in Nat
  BY <1>1, <1>2
<1>4. consumed' \in SUBSET Nat
  BY <1>1, <1>2, Zenon
<1>5. QED
  BY <1>3, <1>4

(* every step of a request,                                                   *)
LEMMA TypeStep ==
    ASSUME TypeOK, NEW r \in Requests, Step(r)
    PROVE  TypeOK'
<1>1. CASE Acquire(r)
  BY <1>1 DEF Acquire, TypeOK, Goto, Places, vault, upstream, bounds
<1>2. CASE Revalidate(r)
  BY <1>2, LeaveType DEF Revalidate, TypeOK, Goto, Places, vault, upstream, bounds
<1>3. CASE LoadVault(r)
  BY <1>3, LeaveType DEF LoadVault, TypeOK, Goto, Places, Ops, vault, upstream, bounds
<1>4. CASE Match(r)
  BY <1>4, LeaveType DEF Match, Conflict, TypeOK, Goto, Places, Ops, vault, upstream, bounds
<1>5. CASE Write(r)
  <2>1. CASE CasHolds(r) /\ WriteVault(r) /\ AfterWrite(r) /\ UNCHANGED op
    <3>1. op[r] \in Ops \ {"none"}
      BY <2>1 DEF AfterWrite, Ops
    <3>2. pc' \in [Requests -> Places] /\ holder' \in Requests \union {nobody}
      BY <2>1, LeaveType DEF AfterWrite, TypeOK, Goto, Places
    <3>3. QED
      BY <1>5, <2>1, <3>1, <3>2, TypeVaultWrite DEF Write, TypeOK, upstream, bounds
  <2>2. CASE ~CasHolds(r) /\ Conflict(r) /\ UNCHANGED vault
    BY <1>5, <2>2, LeaveType
       DEF Write, Conflict, TypeOK, Goto, Places, Ops, vault, upstream, bounds
  <2>3. QED
    BY <1>5, <2>1, <2>2 DEF Write
<1>6. CASE Answer(r)
  <2>1. /\ issued' \in Nat /\ consumed' \in SUBSET Nat
        /\ pc' \in [Requests -> Places] /\ op' \in [Requests -> Ops]
        /\ got' \in [Requests -> Nat]
    <3>1. issued' \in Nat /\ consumed' \in SUBSET Nat
      <4>1. Exchange(r) \/ UNCHANGED <<consumed, issued>>
        BY <1>6 DEF Answer, Rotated, Ambiguous, Busy, Rejected, upstream
      <4>2. QED
        BY <4>1, ExchangeType DEF TypeOK
    <3>2. \/ pc' = [pc EXCEPT ![r] = "matching"]
          \/ pc' = [pc EXCEPT ![r] = "clearing"]
      BY <1>6 DEF Answer, Rotated, Ambiguous, Busy, Rejected, Then, Goto
    <3>3. \/ op' = op
          \/ \E o \in {"complete", "mark", "reset"} : op' = [op EXCEPT ![r] = o]
      BY <1>6 DEF Answer, Rotated, Ambiguous, Busy, Rejected, Then
    <3>4. got' = got \/ got' = [got EXCEPT ![r] = issued + 1]
      BY <1>6 DEF Answer, Rotated, Ambiguous, Busy, Rejected
    <3>5. QED
      BY <3>1, <3>2, <3>3, <3>4 DEF TypeOK, Places, Ops
  <2>2. QED
    BY <1>6, <2>1 DEF Answer, TypeOK, vault, bounds
<1>7. CASE Clear(r)
  BY <1>7 DEF Clear, TypeOK, Goto, Places, upstream, bounds
<1>8. CASE RevokeAll(r)
  BY <1>8, LeaveType DEF RevokeAll, RevokedSessions, TypeOK, vault, upstream, bounds
<1>9. CASE Extend(r)
  <2>1. session' \in [Sessions -> {"unused", "live", "expired", "revoked"}]
    BY <1>9 DEF Extend, TypeOK
  <2>2. QED
    BY <1>9, <2>1, LeaveType DEF Extend, TypeOK, vault, upstream, bounds
<1>10. CASE SignIn(r)
  BY <1>10, LeaveType DEF SignIn, TypeOK, Goto, Places, vault, bounds
<1>11. CASE Capture(r)
  BY <1>11, LeaveType DEF Capture, TypeOK, Goto, Places, upstream, bounds
<1>12. CASE MintSession(r)
  BY <1>12, LeaveType DEF MintSession, TypeOK, Sessions, vault, upstream, bounds
<1>13. QED
  BY <1>1, <1>2, <1>3, <1>4, <1>5, <1>6, <1>7, <1>8, <1>9, <1>10, <1>11, <1>12 DEF Step

(* and aborts, ageing and lost locks.                                         *)
LEMMA TypeBreak ==
    ASSUME TypeOK, NEW r \in Requests, Break(r)
    PROVE  TypeOK'
<1>1. CASE Abort(r)
  <2>1. issued' \in Nat /\ consumed' \in SUBSET Nat
    <3>1. Exchange(r) \/ UNCHANGED <<consumed, issued>>
      BY <1>1 DEF Abort, upstream
    <3>2. QED
      BY <3>1, ExchangeType DEF TypeOK
  <2>2. QED
    BY <1>1, <2>1, LeaveType DEF Abort, TypeOK, vault
<1>2. CASE WriteFails(r)
  <2>1. op[r] \in Ops \ {"none"}
    BY <1>2 DEF WriteFails, Ops
  <2>2. /\ refresh' \in Nat /\ version' \in Nat
        /\ vstate' \in {"none", "stable", "rotating", "uncertain"}
        /\ expiry' \in {"fresh", "near", "unknown"}
    BY <1>2, <2>1, TypeVaultWrite DEF WriteFails
  <2>3. /\ pc' \in [Requests -> Places] /\ holder' \in Requests \union {nobody}
        /\ op' \in [Requests -> Ops] /\ tries' \in [Requests -> Nat]
    BY <1>2, LeaveType DEF WriteFails, RetryOrMark, TypeOK, Goto, Places, Ops
  <2>4. QED
    BY <1>2, <2>2, <2>3 DEF WriteFails, TypeOK, upstream
<1>3. CASE ClearFails(r)
  BY <1>3, LeaveType DEF ClearFails, TypeOK, upstream
<1>4. CASE LoseLock(r)
  BY <1>4 DEF LoseLock, TypeOK, vault, upstream, local
<1>5. QED
  BY <1>1, <1>2, <1>3, <1>4 DEF Break

(* Every step keeps the types.                                                *)
LEMMA TypeNext == TypeOK /\ [Next]_vars => TypeOK'
<1> SUFFICES ASSUME TypeOK, [Next]_vars PROVE TypeOK'
  OBVIOUS
<1>1. CASE \E r \in Requests : Arrive(r) \/ Step(r) \/ Break(r)
  BY <1>1, TypeArrive, TypeStep, TypeBreak
<1>2. CASE Age
  BY <1>2 DEF Age, TypeOK, upstream, local, bounds
<1>3. CASE \E s \in Sessions : EndSession(s)
  BY <1>3 DEF EndSession, TypeOK, vault, upstream, local, bounds
<1>4. CASE UNCHANGED vars
  BY <1>4 DEF TypeOK, vars, vault, upstream, local, bounds
<1>5. QED
  BY <1>1, <1>2, <1>3, <1>4 DEF Next

(* Every variable keeps its type, in every instance of the model.             *)
THEOREM TypeCorrect == Spec => []TypeOK
BY TypeInit, TypeNext, PTL DEF Spec

-----------------------------------------------------------------------------
(* No refresh token is presented twice *)

(* The core invariant holds at the start.                                     *)
LEMMA CoreInit == Init => Core
<1> SUFFICES ASSUME Init PROVE Core
  OBVIOUS
<1>1. TypeOK
  BY TypeInit
<1>2. \A r \in Requests : pc[r] = "idle" /\ held[r] = 0 /\ got[r] = 0
  BY DEF Init
<1>3. consumed = {} /\ issued = 1 /\ refresh \in {0, 1}
  BY DEF Init
<1>4. LockHeld /\ CopyOfRow /\ LoginTokenFresh /\ WriteBackGood
      /\ InFlightNotStored /\ ExtendsStable /\ NoReuse
  BY <1>2 DEF LockHeld, UnderLock, CopyOfRow, InRotation, LoginTokenFresh, WriteBackGood,
              InFlightNotStored, ExtendsStable, NoReuse
<1>5. OnlyIssued /\ StableIsGood
  BY <1>2, <1>3 DEF OnlyIssued, StableIsGood
<1>6. QED
  BY <1>1, <1>4, <1>5 DEF Core

(* A step that only moves one request, to a place where it holds neither a    *)
(* copy of the row nor a token, and leaves vault and upstream alone.          *)
LEMMA Aside ==
    ASSUME Core, NEW r \in Requests, NEW p,
           p \notin {"matching", "writing", "calling", "capturing", "extending"},
           pc' = [pc EXCEPT ![r] = p] \/ pc' = pc,
           UNCHANGED <<refresh, vstate, version, consumed, issued, held, seen, op, got>>,
           TypeOK', LockHeld'
    PROVE  Core'
<1> USE DEF Core
<1>1. \A q \in Requests : pc'[q] = pc[q] \/ pc'[q] = p
  BY DEF TypeOK
<1>2. CopyOfRow'
  BY <1>1 DEF CopyOfRow, InRotation
<1>3. OnlyIssued' /\ StableIsGood'
  BY DEF OnlyIssued, StableIsGood
<1>4. LoginTokenFresh'
  BY <1>1 DEF LoginTokenFresh, InRotation
<1>5. WriteBackGood' /\ InFlightNotStored' /\ ExtendsStable' /\ NoReuse'
  BY <1>1 DEF WriteBackGood, InFlightNotStored, ExtendsStable, NoReuse
<1>6. QED
  BY <1>2, <1>3, <1>4, <1>5

(* Leaving, and moving on under the lock, keep the lock with its owner.       *)
LEMMA LockOnLeave ==
    ASSUME TypeOK, LockHeld, NEW r \in Requests, Leave(r)
    PROVE  LockHeld'
BY DEF LockHeld, UnderLock, InRotation, TypeOK, Leave, Goto

(* A request that moves on keeps its lock.                                    *)
LEMMA LockOnMove ==
    ASSUME TypeOK, LockHeld, NEW r \in Requests, NEW p,
           pc' = [pc EXCEPT ![r] = p], holder' = holder,
           UnderLock(r) \/ p \notin {"matching", "writing", "calling", "checking", "loading",
                                     "clearing", "revoking", "extending"}
    PROVE  LockHeld'
BY DEF LockHeld, UnderLock, InRotation, TypeOK

(* Arrivals keep the core invariant, and so do                                *)
LEMMA CoreArrive ==
    ASSUME Core, NEW r \in Requests, Arrive(r)
    PROVE  Core'
<1>1. TypeOK /\ LockHeld /\ TypeOK'
  BY TypeArrive DEF Core
<1>2. PICK p \in {"waiting", "signing_in"} : pc' = [pc EXCEPT ![r] = p]
  BY DEF Arrive, ArriveWithSession, ArriveLogin, ArriveSync, Goto
<1>3. UNCHANGED <<vault, holder, upstream, held, seen, op, got>>
  BY DEF Arrive, ArriveWithSession, ArriveLogin, ArriveSync
<1>4. LockHeld'
  BY <1>1, <1>2, <1>3, LockOnMove
<1>5. QED
  BY <1>1, <1>2, <1>3, <1>4, Aside DEF vault, upstream

(* taking the lock,                                                           *)
LEMMA CoreAcquire ==
    ASSUME Core, NEW r \in Requests, Acquire(r)
    PROVE  Core'
<1>1. TypeOK /\ LockHeld /\ TypeOK'
  BY TypeStep DEF Core, Step
<1>2. PICK p \in {"checking", "loading", "signing_in"} : pc' = [pc EXCEPT ![r] = p]
  BY DEF Acquire, Goto
<1>3. LockHeld'
  BY <1>1, <1>2, ArbiterAssumption DEF Acquire, LockHeld, UnderLock, InRotation, TypeOK
<1>4. QED
  BY <1>1, <1>2, <1>3, Aside DEF Acquire, vault, upstream

(* Steps that write sessions or nothing at all.                               *)
LEMMA CoreSessions ==
    ASSUME Core, NEW r \in Requests,
           Revalidate(r) \/ RevokeAll(r) \/ Extend(r) \/ MintSession(r)
    PROVE  Core'
<1>1. TypeOK /\ LockHeld /\ TypeOK'
  BY TypeStep DEF Core, Step
<1>2. UNCHANGED <<vault, upstream, held, seen, op, got>>
  BY DEF Revalidate, RevokeAll, Extend, MintSession
<1>3. CASE Leave(r)
  BY <1>1, <1>2, <1>3, LockOnLeave, Aside DEF Leave, Goto, vault, upstream
<1>4. CASE Revalidate(r) /\ ~Leave(r)
  <2>1. pc' = [pc EXCEPT ![r] = "loading"] /\ holder' = holder /\ UnderLock(r)
    BY <1>4 DEF Revalidate, Goto, UnderLock
  <2>2. LockHeld'
    BY <1>1, <2>1, LockOnMove
  <2>3. QED
    BY <1>1, <1>2, <2>1, <2>2, Aside DEF vault, upstream
<1>5. QED
  BY <1>3, <1>4 DEF RevokeAll, Extend, MintSession

(* the look at the vault row,                                                 *)
LEMMA CoreLoadVault ==
    ASSUME Core, NEW r \in Requests, LoadVault(r)
    PROVE  Core'
<1>1. TypeOK /\ LockHeld /\ TypeOK' /\ UnderLock(r)
  BY TypeStep DEF Core, Step, LoadVault, UnderLock
<1>2. UNCHANGED <<vault, upstream, got>>
  BY DEF LoadVault
<1>3. CASE Leave(r) /\ UNCHANGED <<held, seen, op>>
  BY <1>1, <1>2, <1>3, LockOnLeave, Aside DEF Leave, Goto, vault, upstream
<1>4. CASE Goto(r, "revoking") /\ UNCHANGED <<holder, held, seen, op>>
  <2>1. LockHeld'
    BY <1>1, <1>4, LockOnMove DEF Goto
  <2>2. QED
    BY <1>1, <1>2, <1>4, <2>1, Aside DEF Goto, vault, upstream
<1>5. CASE /\ vstate = "stable" /\ Goto(r, "extending")
           /\ UNCHANGED <<holder, held, seen, op>>
  <2> USE DEF Core
  <2>1. LockHeld'
    BY <1>1, <1>5, LockOnMove DEF Goto
  <2>2. \A q \in Requests : pc'[q] = pc[q] \/ pc'[q] = "extending"
    BY <1>5 DEF Goto, TypeOK
  <2>3. CopyOfRow' /\ OnlyIssued' /\ StableIsGood' /\ LoginTokenFresh'
    BY <1>2, <1>5, <2>2
       DEF CopyOfRow, OnlyIssued, StableIsGood, LoginTokenFresh, InRotation, vault, upstream
  <2>4. WriteBackGood' /\ InFlightNotStored' /\ NoReuse' /\ ExtendsStable'
    BY <1>2, <1>5, <2>2
       DEF WriteBackGood, InFlightNotStored, NoReuse, ExtendsStable, vault, upstream
  <2>5. QED
    BY <1>1, <2>1, <2>3, <2>4
<1>6. CASE /\ vstate = "stable" /\ Goto(r, "matching")
           /\ op' = [op EXCEPT ![r] = "begin"]
           /\ held' = [held EXCEPT ![r] = refresh]
           /\ seen' = [seen EXCEPT ![r] = version]
           /\ UNCHANGED holder
  <2> USE DEF Core
  <2>1. LockHeld'
    BY <1>1, <1>6, LockOnMove DEF Goto
  <2>2. /\ pc'[r] = "matching" /\ op'[r] = "begin" /\ held'[r] = refresh /\ seen'[r] = version
        /\ \A q \in Requests \ {r} : /\ pc'[q] = pc[q] /\ op'[q] = op[q]
                                     /\ held'[q] = held[q] /\ seen'[q] = seen[q]
    BY <1>6 DEF Goto, TypeOK
  <2>3. refresh' = refresh /\ vstate' = vstate /\ version' = version
        /\ consumed' = consumed /\ issued' = issued /\ got' = got
    BY <1>2 DEF vault, upstream
  <2>4. CopyOfRow'
    BY <1>6, <2>2, <2>3 DEF CopyOfRow, InRotation, TypeOK
  <2>5. OnlyIssued' /\ StableIsGood'
    BY <2>2, <2>3 DEF OnlyIssued, StableIsGood
  <2>6. LoginTokenFresh'
    BY <2>2, <2>3 DEF LoginTokenFresh, InRotation
  <2>7. WriteBackGood' /\ InFlightNotStored' /\ NoReuse' /\ ExtendsStable'
    BY <2>2, <2>3 DEF WriteBackGood, InFlightNotStored, NoReuse, ExtendsStable
  <2>8. QED
    BY <1>1, <2>1, <2>4, <2>5, <2>6, <2>7
<1>7. QED
  BY <1>3, <1>4, <1>5, <1>6 DEF LoadVault

(* A conflict sends a rotation to mark itself, to end the sessions, or away.  *)
LEMMA CoreConflict ==
    ASSUME Core, TypeOK', NEW r \in Requests, pc[r] \in {"matching", "writing"},
           Conflict(r), UNCHANGED <<vault, upstream, held, seen, got>>
    PROVE  Core'
<1> USE DEF Core
<1>1. UnderLock(r) /\ op[r] \in Ops
  BY DEF UnderLock, InRotation, TypeOK
<1>2. CASE Leave(r) /\ UNCHANGED op
  BY <1>2, LockOnLeave, Aside DEF Leave, Goto, vault, upstream
<1>3. CASE Goto(r, "revoking") /\ UNCHANGED <<holder, op>>
  <2>1. LockHeld'
    BY <1>1, <1>3, LockOnMove DEF Goto
  <2>2. QED
    BY <1>3, <2>1, Aside DEF Goto, vault, upstream
<1>4. CASE op' = [op EXCEPT ![r] = "mark"] /\ Goto(r, "matching") /\ UNCHANGED holder
  <2>1. LockHeld'
    BY <1>1, <1>4, LockOnMove DEF Goto
  <2>2. /\ pc'[r] = "matching" /\ op'[r] = "mark"
        /\ \A q \in Requests \ {r} : pc'[q] = pc[q] /\ op'[q] = op[q]
    BY <1>4 DEF Goto, TypeOK
  <2>3. CopyOfRow' /\ OnlyIssued' /\ StableIsGood' /\ LoginTokenFresh'
    BY <2>2 DEF CopyOfRow, OnlyIssued, StableIsGood, LoginTokenFresh, InRotation, vault, upstream
  <2>4. WriteBackGood' /\ InFlightNotStored' /\ NoReuse' /\ ExtendsStable'
    BY <2>2 DEF WriteBackGood, InFlightNotStored, NoReuse, ExtendsStable, vault, upstream
  <2>5. QED
    BY <2>1, <2>3, <2>4
<1>5. QED
  BY <1>2, <1>3, <1>4 DEF Conflict

(* the comparison of credential and version,                                  *)
LEMMA CoreMatch ==
    ASSUME Core, NEW r \in Requests, Match(r)
    PROVE  Core'
<1> USE DEF Core
<1>1. TypeOK' /\ UnderLock(r) /\ pc[r] = "matching"
  BY TypeStep DEF Step, Match, UnderLock, InRotation
<1>2. UNCHANGED <<vault, upstream, held, seen, got>>
  BY DEF Match
<1>3. CASE Goto(r, "writing") /\ UNCHANGED <<holder, op>>
  <2>1. LockHeld'
    BY <1>1, <1>3, LockOnMove DEF Goto
  <2>2. pc'[r] = "writing" /\ \A q \in Requests \ {r} : pc'[q] = pc[q]
    BY <1>3 DEF Goto, TypeOK
  <2>3. CopyOfRow' /\ OnlyIssued' /\ StableIsGood' /\ LoginTokenFresh'
    BY <1>1, <1>2, <1>3, <2>2
       DEF CopyOfRow, OnlyIssued, StableIsGood, LoginTokenFresh, InRotation, vault, upstream
  <2>4. WriteBackGood' /\ InFlightNotStored' /\ NoReuse' /\ ExtendsStable'
    BY <1>1, <1>2, <1>3, <2>2
       DEF WriteBackGood, InFlightNotStored, NoReuse, ExtendsStable, vault, upstream
  <2>5. QED
    BY <1>1, <2>1, <2>3, <2>4
<1>4. CASE Conflict(r)
  BY <1>1, <1>2, <1>4, CoreConflict
<1>5. QED
  BY <1>3, <1>4 DEF Match

(* What one of the four UPDATEs does to the row, when its guard holds: the    *)
(* token stored is still the one this request holds, and nobody else holds a  *)
(* copy.                                                                      *)
LEMMA RowWritten ==
    ASSUME Core, NEW r \in Requests, pc[r] = "writing", op[r] \in Ops \ {"none"},
           CasHolds(r), WriteVault(r)
    PROVE  /\ refresh = held[r] /\ version = seen[r]
           /\ \A q \in Requests \ {r} : ~UnderLock(q)
           /\ op[r] = "begin" => vstate = "stable" /\ vstate' = "rotating"
           /\ op[r] = "mark" => vstate' = "uncertain"
           /\ op[r] \in {"complete", "reset"} => vstate' = "stable" /\ refresh' \notin consumed
           /\ op[r] = "complete" => refresh' = got[r] /\ version' = version + 1
           /\ op[r] # "complete" => refresh' = refresh /\ version' = version
           /\ vstate' # "none" /\ version <= version' /\ refresh' <= issued
           /\ \A q \in Requests : pc[q] = "capturing" => got[q] # refresh'
<1> USE DEF Core
<1>1. InRotation(r) /\ UnderLock(r)
  BY DEF InRotation, UnderLock
<1>2. refresh = held[r] /\ version = seen[r] /\ version \in Nat
  BY <1>1 DEF CopyOfRow, CasHolds, TypeOK
<1>3. \A q \in Requests \ {r} : ~UnderLock(q)
  BY <1>1 DEF LockHeld
<1>4. CASE op[r] = "complete"
  <2>1. refresh' = got[r] /\ vstate' = "stable" /\ version' = version + 1
    BY <1>4 DEF WriteVault
  <2>2. got[r] \notin consumed /\ got[r] <= issued
    BY <1>4 DEF WriteBackGood, OnlyIssued
  <2>3. \A q \in Requests : pc[q] = "capturing" => got[q] # got[r]
    BY DEF LoginTokenFresh
  <2>4. QED
    BY <1>2, <1>3, <1>4, <2>1, <2>2, <2>3
<1>5. CASE op[r] # "complete"
  <2>1. /\ refresh' = refresh /\ version' = version
        /\ op[r] = "begin" => vstate = "stable" /\ vstate' = "rotating"
        /\ op[r] = "mark" => vstate' = "uncertain"
        /\ op[r] = "reset" => vstate' = "stable"
        /\ vstate' # "none"
    BY <1>5 DEF WriteVault, CasHolds, StateFor, Ops
  <2>2. op[r] = "reset" => refresh \notin consumed
    BY <1>2 DEF WriteBackGood
  <2>3. QED
    BY <1>2, <1>3, <1>5, <2>1, <2>2 DEF OnlyIssued, LoginTokenFresh
<1>6. QED
  BY <1>4, <1>5

(* The row is written and the request goes on to p: away from the rotation,   *)
(* to upstream, or (its UPDATE reported an error) to another try.             *)
LEMMA CoreRow ==
    ASSUME Core, TypeOK', LockHeld', NEW r \in Requests, NEW p, NEW o,
           pc[r] = "writing", op[r] \in Ops \ {"none"}, CasHolds(r), WriteVault(r),
           UNCHANGED <<upstream, held, seen, got>>,
           pc' = [pc EXCEPT ![r] = p], op' = [op EXCEPT ![r] = o],
           \/ p \in {"done", "revoking"}
           \/ p = "extending" /\ op[r] = "complete"
           \/ p = "calling" /\ op[r] = "begin"
           \/ p = "matching" /\ op[r] = "complete" /\ o \in {"complete", "mark"}
    PROVE  Core'
<1> USE DEF Core
<1>1. /\ pc'[r] = p /\ op'[r] = o
      /\ \A q \in Requests \ {r} : pc'[q] = pc[q] /\ op'[q] = op[q] /\ ~UnderLock(q)
      /\ seen[r] \in Nat
  BY RowWritten DEF TypeOK
<1>2. consumed' = consumed /\ issued' = issued /\ held' = held /\ seen' = seen /\ got' = got
  BY DEF upstream
<1>3. CopyOfRow'
  <2>1. \A q \in Requests \ {r} : ~InRotation(q)'
    BY <1>1 DEF UnderLock, InRotation
  <2>2. InRotation(r)' => vstate' # "none" /\ seen[r] <= version'
                          /\ (seen[r] = version' => refresh' = held[r])
    BY <1>1, RowWritten DEF InRotation
  <2>3. QED
    BY <1>2, <2>1, <2>2 DEF CopyOfRow
<1>4. OnlyIssued'
  BY <1>2, RowWritten DEF OnlyIssued
<1>5. StableIsGood'
  BY <1>2, RowWritten DEF StableIsGood, Ops
<1>6. LoginTokenFresh'
  BY <1>1, <1>2, RowWritten DEF LoginTokenFresh, InRotation, UnderLock
<1>7. WriteBackGood'
  BY <1>1, <1>2 DEF WriteBackGood, UnderLock, InRotation
<1>8. InFlightNotStored'
  BY <1>1, <1>2, RowWritten DEF InFlightNotStored, UnderLock, InRotation
<1>9. ExtendsStable'
  BY <1>1, RowWritten DEF ExtendsStable, UnderLock
<1>10. NoReuse'
  BY <1>1, <1>2, RowWritten DEF NoReuse, UnderLock, InRotation, StableIsGood
<1>11. QED
  BY <1>3, <1>4, <1>5, <1>6, <1>7, <1>8, <1>9, <1>10

(* the UPDATE that follows it,                                                *)
LEMMA CoreWrite ==
    ASSUME Core, NEW r \in Requests, Write(r)
    PROVE  Core'
<1> USE DEF Core
<1>1. /\ TypeOK' /\ UnderLock(r) /\ pc[r] = "writing"
      /\ op = [op EXCEPT ![r] = op[r]]
  BY TypeStep DEF Step, Write, UnderLock, InRotation, TypeOK
<1>2. UNCHANGED <<upstream, held, seen, got>>
  BY DEF Write
<1>3. CASE CasHolds(r) /\ WriteVault(r) /\ AfterWrite(r) /\ UNCHANGED op
  <2>1. op[r] \in Ops \ {"none"}
    BY <1>3 DEF AfterWrite, Ops
  <2>2. CASE Leave(r)
    BY <1>1, <1>2, <1>3, <2>1, <2>2, LockOnLeave, CoreRow DEF Leave, Goto
  <2>3. CASE op[r] = "begin" /\ Goto(r, "calling") /\ UNCHANGED holder
    <3>1. LockHeld'
      BY <1>1, <2>3, LockOnMove DEF Goto
    <3>2. QED
      BY <1>1, <1>2, <1>3, <2>1, <2>3, <3>1, CoreRow DEF Goto
  <2>4. CASE op[r] = "complete" /\ Goto(r, "extending") /\ UNCHANGED holder
    <3>1. LockHeld'
      BY <1>1, <2>4, LockOnMove DEF Goto
    <3>2. QED
      BY <1>1, <1>2, <1>3, <2>1, <2>4, <3>1, CoreRow DEF Goto
  <2>5. CASE op[r] = "mark" /\ Goto(r, "revoking") /\ UNCHANGED holder
    <3>1. LockHeld'
      BY <1>1, <2>5, LockOnMove DEF Goto
    <3>2. QED
      BY <1>1, <1>2, <1>3, <2>1, <2>5, <3>1, CoreRow DEF Goto
  <2>6. QED
    BY <1>3, <2>2, <2>3, <2>4, <2>5 DEF AfterWrite
<1>4. CASE Conflict(r) /\ UNCHANGED vault
  BY <1>1, <1>2, <1>4, CoreConflict
<1>5. QED
  BY <1>3, <1>4 DEF Write

(* its failure, with or without effect,                                       *)
LEMMA CoreWriteFails ==
    ASSUME Core, NEW r \in Requests, WriteFails(r)
    PROVE  Core'
<1> USE DEF Core
<1>1. /\ TypeOK' /\ UnderLock(r) /\ pc[r] = "writing" /\ op[r] \in Ops \ {"none"}
  BY TypeBreak DEF Break, WriteFails, UnderLock, InRotation, Ops
<1>2. UNCHANGED <<upstream, held, seen, got>>
  BY DEF WriteFails
<1>3. PICK p \in {"done", "matching", "revoking"}, o \in Ops :
        /\ pc' = [pc EXCEPT ![r] = p]
        /\ op' = [op EXCEPT ![r] = o]
        /\ p = "matching" => op[r] = "complete" /\ o \in {"complete", "mark"}
        /\ p # "matching" => o = op[r]
        /\ Leave(r) \/ holder' = holder
  <2>1. CASE op[r] \in {"begin", "reset"} /\ Leave(r) /\ UNCHANGED <<op, tries>>
    <3>1. pc' = [pc EXCEPT ![r] = "done"] /\ op' = [op EXCEPT ![r] = op[r]]
      BY <2>1 DEF Leave, Goto, TypeOK
    <3>2. QED
      BY <1>1, <2>1, <3>1
  <2>2. CASE op[r] = "complete" /\ RetryOrMark(r) /\ UNCHANGED holder
    BY <2>2 DEF RetryOrMark, Goto, Ops
  <2>3. CASE op[r] = "mark" /\ Goto(r, "revoking") /\ UNCHANGED <<holder, op, tries>>
    <3>1. pc' = [pc EXCEPT ![r] = "revoking"] /\ op' = [op EXCEPT ![r] = op[r]]
      BY <2>3 DEF Goto, TypeOK
    <3>2. QED
      BY <1>1, <2>3, <3>1
  <2>4. QED
    BY <2>1, <2>2, <2>3 DEF WriteFails
<1>4. LockHeld'
  <2>1. CASE Leave(r)
    BY <2>1, LockOnLeave
  <2>2. CASE holder' = holder
    BY <1>1, <1>3, <2>2, LockOnMove
  <2>3. QED
    BY <1>3, <2>1, <2>2
<1>5. CASE CasHolds(r) /\ WriteVault(r)
  BY <1>1, <1>2, <1>3, <1>4, <1>5, CoreRow
<1>6. CASE UNCHANGED vault /\ p = "matching"
  <2>1. /\ pc'[r] = "matching" /\ op'[r] = o
        /\ \A q \in Requests \ {r} : pc'[q] = pc[q] /\ op'[q] = op[q]
    BY <1>3, <1>6 DEF TypeOK
  <2>2. CopyOfRow' /\ OnlyIssued' /\ StableIsGood' /\ LoginTokenFresh'
    BY <1>1, <1>2, <1>6, <2>1
       DEF CopyOfRow, OnlyIssued, StableIsGood, LoginTokenFresh, InRotation, vault, upstream
  <2>3. WriteBackGood' /\ InFlightNotStored' /\ NoReuse' /\ ExtendsStable'
    BY <1>1, <1>2, <1>3, <1>6, <2>1
       DEF WriteBackGood, InFlightNotStored, NoReuse, ExtendsStable, vault, upstream
  <2>4. QED
    BY <1>1, <1>4, <2>2, <2>3
<1>7. CASE UNCHANGED vault /\ p # "matching"
  <2>1. op' = op
    BY <1>3, <1>7 DEF TypeOK
  <2>2. QED
    BY <1>1, <1>2, <1>3, <1>4, <1>7, <2>1, Aside DEF vault, upstream
<1>8. QED
  BY <1>5, <1>6, <1>7 DEF WriteFails

(* The exchange of the one token in flight hurts nobody who keeps another.    *)
LEMMA ExchangeFacts ==
    ASSUME Core, NEW r \in Requests, pc[r] = "calling", Exchange(r)
    PROVE  /\ consumed' = consumed \union {held[r]} /\ issued' = issued + 1
           /\ \A t \in consumed' : t <= issued
           /\ vstate = "stable" => refresh \notin consumed'
           /\ \A q \in Requests : pc[q] = "capturing" => got[q] \notin consumed'
           /\ \A q \in Requests \ {r} : ~UnderLock(q)
<1> USE DEF Core
<1>1. InRotation(r) /\ UnderLock(r)
  BY DEF InRotation, UnderLock
<1>2. consumed' = consumed \union {held[r]} /\ issued' = issued + 1
  BY DEF Exchange
<1>3. vstate = "stable" => refresh \notin consumed'
  BY <1>2 DEF StableIsGood, InFlightNotStored
<1>4. \A q \in Requests : pc[q] = "capturing" => got[q] \notin consumed'
  BY <1>1, <1>2 DEF LoginTokenFresh
<1>5. \A t \in consumed' : t <= issued
  BY <1>2 DEF OnlyIssued
<1>6. \A q \in Requests \ {r} : ~UnderLock(q)
  BY <1>1 DEF LockHeld
<1>7. QED
  BY <1>2, <1>3, <1>4, <1>5, <1>6

(* A request that waits for upstream goes on to p to do o, and what it        *)
(* learned allows it.                                                         *)
LEMMA CoreAnswered ==
    ASSUME Core, TypeOK', LockHeld', NEW r \in Requests, pc[r] = "calling",
           NEW p \in {"matching", "clearing", "done"}, NEW o \in Ops,
           pc' = [pc EXCEPT ![r] = p], op' = [op EXCEPT ![r] = o],
           UNCHANGED <<vault, held, seen>>, Exchange(r) \/ UNCHANGED upstream,
           \/ got' = got
           \/ got' = [got EXCEPT ![r] = issued + 1] /\ Exchange(r),
           p = "matching" => o # "begin",
           p = "matching" /\ o = "complete" => got'[r] = issued + 1 /\ Exchange(r),
           p = "matching" /\ o = "reset" => UNCHANGED upstream
    PROVE  Core'
<1> USE DEF Core
<1>1. /\ pc'[r] = p /\ op'[r] = o
      /\ \A q \in Requests \ {r} : pc'[q] = pc[q] /\ op'[q] = op[q] /\ ~UnderLock(q)
                                   /\ got'[q] = got[q]
  <2>1. UnderLock(r)
    BY DEF UnderLock, InRotation
  <2>2. QED
    BY <2>1 DEF TypeOK, LockHeld
<1>2. /\ \A t \in consumed' : t <= issued
      /\ issued <= issued' /\ issued' \in Nat /\ issued \in Nat
      /\ vstate = "stable" => refresh \notin consumed'
      /\ \A q \in Requests : pc[q] = "capturing" => got[q] \notin consumed'
  <2>1. CASE Exchange(r)
    BY <2>1, ExchangeFacts DEF TypeOK
  <2>2. CASE UNCHANGED upstream
    BY <2>2 DEF upstream, OnlyIssued, StableIsGood, LoginTokenFresh, TypeOK
  <2>3. QED
    BY <2>1, <2>2
<1>3. refresh' = refresh /\ vstate' = vstate /\ version' = version /\ held' = held /\ seen' = seen
  BY DEF vault
<1>4. CopyOfRow'
  BY <1>1, <1>3 DEF CopyOfRow, InRotation
<1>5. OnlyIssued'
  <2>1. got'[r] <= issued'
    BY <1>2, ExchangeFacts DEF OnlyIssued, TypeOK
  <2>2. QED
    BY <1>1, <1>2, <1>3, <2>1 DEF OnlyIssued, TypeOK
<1>6. StableIsGood'
  BY <1>2, <1>3 DEF StableIsGood
<1>7. LoginTokenFresh'
  <2>1. ASSUME NEW q \in Requests, pc'[q] = "capturing"
        PROVE  /\ q # r /\ pc[q] = "capturing" /\ got'[q] = got[q] /\ got[q] <= issued
    BY <1>1, <2>1 DEF OnlyIssued
  <2>2. ASSUME NEW q \in Requests, q # r, pc[q] = "capturing" PROVE got'[r] # got[q]
    BY <1>2, <2>2 DEF LoginTokenFresh, OnlyIssued, TypeOK
  <2>3. QED
    BY <1>1, <1>2, <1>3, <2>1, <2>2 DEF LoginTokenFresh, InRotation
<1>8. WriteBackGood'
  <2>1. p = "matching" /\ o = "complete" => got'[r] \notin consumed'
    BY <1>2 DEF TypeOK
  <2>2. p = "matching" /\ o = "reset" => held[r] \notin consumed'
    BY DEF NoReuse, upstream
  <2>3. QED
    BY <1>1, <1>3, <2>1, <2>2 DEF WriteBackGood, UnderLock, InRotation
<1>9. InFlightNotStored' /\ ExtendsStable' /\ NoReuse'
  BY <1>1, <1>3 DEF InFlightNotStored, ExtendsStable, NoReuse, UnderLock, InRotation
<1>10. QED
  BY <1>4, <1>5, <1>6, <1>7, <1>8, <1>9

(* the answer of upstream, the only step that spends a token,                 *)
LEMMA CoreAnswer ==
    ASSUME Core, LockAndAnswersReliable, NEW r \in Requests, Answer(r)
    PROVE  Core'
<1> USE DEF Core
<1>1. TypeOK' /\ UnderLock(r) /\ pc[r] = "calling" /\ UNCHANGED <<vault, held, seen, holder>>
  BY TypeStep DEF Step, Answer, UnderLock, InRotation
<1>2. ASSUME NEW p, pc' = [pc EXCEPT ![r] = p] PROVE LockHeld'
  BY <1>1, <1>2, LockOnMove
<1>3. CASE Rotated(r)
  <2>1. got'[r] = issued + 1
    BY <1>3 DEF Rotated, TypeOK
  <2>2. QED
    BY <1>1, <1>2, <1>3, <2>1, CoreAnswered DEF Rotated, Then, Goto, Ops
<1>4. CASE Ambiguous(r)
  BY <1>1, <1>2, <1>4, CoreAnswered DEF Ambiguous, Then, Goto, Ops
<1>5. CASE Busy(r)
  BY <1>1, <1>2, <1>5, CoreAnswered DEF Busy, Then, Goto, Ops, LockAndAnswersReliable
<1>6. CASE Rejected(r)
  <2>1. op' = [op EXCEPT ![r] = op[r]] /\ op[r] \in Ops
    BY <1>6 DEF Rejected, TypeOK
  <2>2. QED
    BY <1>1, <1>2, <1>6, <2>1, CoreAnswered DEF Rejected, Goto
<1>7. QED
  BY <1>3, <1>4, <1>5, <1>6 DEF Answer

(* an aborted request,                                                        *)
LEMMA CoreAbort ==
    ASSUME Core, NEW r \in Requests, Abort(r)
    PROVE  Core'
<1> USE DEF Core
<1>1. TypeOK' /\ LockHeld' /\ pc' = [pc EXCEPT ![r] = "done"]
  BY TypeBreak, LockOnLeave DEF Break, Abort, Leave, Goto
<1>2. UNCHANGED <<vault, held, seen, op, got>>
  BY DEF Abort
<1>3. CASE UNCHANGED upstream
  BY <1>1, <1>2, <1>3, Aside DEF vault, upstream
<1>4. CASE pc[r] = "calling" /\ Exchange(r)
  <2>1. op' = [op EXCEPT ![r] = op[r]] /\ op[r] \in Ops
    BY <1>2 DEF TypeOK
  <2>2. QED
    BY <1>1, <1>2, <1>4, <2>1, CoreAnswered
<1>5. QED
  BY <1>3, <1>4 DEF Abort

(* the deletion of the rejected family,                                       *)
LEMMA CoreClear ==
    ASSUME Core, NEW r \in Requests, Clear(r) \/ ClearFails(r)
    PROVE  Core'
<1> USE DEF Core
<1>1. TypeOK' /\ UnderLock(r) /\ pc[r] = "clearing"
  BY TypeStep, TypeBreak DEF Step, Break, Clear, ClearFails, UnderLock
<1>2. /\ vstate' = "none" /\ refresh' = 0 /\ version' = 0
      /\ UNCHANGED <<upstream, held, seen, op, got>>
  BY DEF Clear, ClearFails
<1>3. PICK p \in {"revoking", "done"} : pc' = [pc EXCEPT ![r] = p]
  BY DEF Clear, ClearFails, Leave, Goto
<1>4. LockHeld'
  <2>1. CASE Leave(r)
    BY <2>1, LockOnLeave
  <2>2. CASE holder' = holder
    BY <1>1, <1>3, <2>2, LockOnMove
  <2>3. QED
    BY <2>1, <2>2 DEF Clear, ClearFails
<1>5. pc'[r] = p /\ \A q \in Requests \ {r} : pc'[q] = pc[q] /\ ~UnderLock(q)
  BY <1>1, <1>3 DEF TypeOK, LockHeld
<1>6. CopyOfRow' /\ LoginTokenFresh'
  BY <1>2, <1>5 DEF CopyOfRow, LoginTokenFresh, InRotation, UnderLock, upstream
<1>7. OnlyIssued' /\ StableIsGood'
  BY <1>2 DEF OnlyIssued, StableIsGood, TypeOK, upstream
<1>8. WriteBackGood' /\ InFlightNotStored' /\ ExtendsStable' /\ NoReuse'
  BY <1>2, <1>5
     DEF WriteBackGood, InFlightNotStored, ExtendsStable, NoReuse, UnderLock, InRotation, upstream
<1>9. QED
  BY <1>1, <1>4, <1>6, <1>7, <1>8

(* and a login, which brings a family of its own.                             *)
LEMMA CoreSignIn ==
    ASSUME Core, NEW r \in Requests, SignIn(r)
    PROVE  Core'
<1> USE DEF Core
<1>1. TypeOK' /\ pc[r] = "signing_in"
  BY TypeStep DEF Step, SignIn
<1>2. UNCHANGED <<vault, consumed, held, seen, op>>
  BY DEF SignIn
<1>3. CASE Leave(r) /\ UNCHANGED <<issued, got>>
  BY <1>1, <1>2, <1>3, LockOnLeave, Aside DEF Leave, Goto, vault
<1>4. CASE /\ issued' = issued + 1
           /\ got' = [got EXCEPT ![r] = issued + 1]
           /\ Goto(r, "capturing") /\ UNCHANGED holder
  <2>1. LockHeld'
    BY <1>4, LockOnMove DEF Goto
  <2>2. /\ pc'[r] = "capturing" /\ got'[r] = issued + 1 /\ issued \in Nat
        /\ \A q \in Requests \ {r} : pc'[q] = pc[q] /\ got'[q] = got[q]
    BY <1>4 DEF Goto, TypeOK
  <2>3. /\ refresh' = refresh /\ vstate' = vstate /\ version' = version
        /\ consumed' = consumed /\ held' = held /\ seen' = seen /\ op' = op
    BY <1>2 DEF vault
  <2>4. OnlyIssued'
    BY <1>4, <2>2, <2>3 DEF OnlyIssued, TypeOK
  <2>5. CopyOfRow' /\ StableIsGood'
    BY <2>2, <2>3 DEF CopyOfRow, StableIsGood, InRotation
  <2>6. LoginTokenFresh'
    <3>1. /\ issued + 1 > 0 /\ issued + 1 \notin consumed /\ issued + 1 # refresh
          /\ \A q \in Requests : held[q] # issued + 1 /\ got[q] # issued + 1
      BY <2>2 DEF OnlyIssued, TypeOK
    <3>2. QED
      BY <2>2, <2>3, <3>1 DEF LoginTokenFresh, InRotation
  <2>7. WriteBackGood' /\ InFlightNotStored' /\ ExtendsStable' /\ NoReuse'
    BY <2>2, <2>3 DEF WriteBackGood, InFlightNotStored, ExtendsStable, NoReuse
  <2>8. QED
    BY <1>1, <2>1, <2>4, <2>5, <2>6, <2>7
<1>5. QED
  BY <1>3, <1>4 DEF SignIn

(* A login overwrites the row of whoever rotates it: the version moves on, or *)
(* there was no row and so no rotation.                                       *)
LEMMA CoreCapture ==
    ASSUME Core, NEW r \in Requests, Capture(r)
    PROVE  Core'
<1> USE DEF Core
<1>1. TypeOK' /\ pc[r] = "capturing"
  BY TypeStep DEF Step, Capture
<1>2. /\ refresh' = got[r] /\ vstate' = "stable"
      /\ version' = IF vstate = "none" THEN 0 ELSE version + 1
      /\ consumed' = consumed /\ issued' = issued
      /\ held' = held /\ seen' = seen /\ op' = op /\ got' = got
  BY DEF Capture, upstream
<1>3. PICK p \in {"minting", "done"} : pc' = [pc EXCEPT ![r] = p]
  BY DEF Capture, Leave, Goto
<1>4. pc'[r] = p /\ \A q \in Requests \ {r} : pc'[q] = pc[q]
  BY <1>3 DEF TypeOK
<1>5. LockHeld'
  <2>1. CASE Leave(r)
    BY <2>1, LockOnLeave
  <2>2. CASE holder' = holder
    BY <1>3, <2>2, LockOnMove
  <2>3. QED
    BY <2>1, <2>2 DEF Capture
<1>6. CopyOfRow'
  BY <1>2, <1>4 DEF CopyOfRow, InRotation, TypeOK
<1>7. OnlyIssued' /\ StableIsGood'
  BY <1>1, <1>2 DEF OnlyIssued, StableIsGood, LoginTokenFresh
<1>8. LoginTokenFresh'
  BY <1>1, <1>2, <1>4 DEF LoginTokenFresh, InRotation
<1>9. InFlightNotStored'
  BY <1>1, <1>2, <1>4 DEF InFlightNotStored, LoginTokenFresh, InRotation
<1>10. WriteBackGood' /\ ExtendsStable' /\ NoReuse'
  BY <1>2, <1>4 DEF WriteBackGood, ExtendsStable, NoReuse
<1>11. QED
  BY <1>1, <1>5, <1>6, <1>7, <1>8, <1>9, <1>10

(* Every step keeps the core invariant while locks and answers are reliable.  *)
LEMMA CoreNext == Core /\ LockAndAnswersReliable /\ [Next]_vars => Core'
<1> SUFFICES ASSUME Core, LockAndAnswersReliable, [Next]_vars PROVE Core'
  OBVIOUS
<1>1. TypeOK'
  BY TypeNext DEF Core
<1>2. ASSUME NEW r \in Requests, Step(r) PROVE Core'
  BY <1>2, CoreAcquire, CoreSessions, CoreLoadVault, CoreMatch, CoreWrite, CoreAnswer,
     CoreClear, CoreSignIn, CoreCapture DEF Step
<1>3. ASSUME NEW r \in Requests, Break(r) PROVE Core'
  <2>1. ~LoseLock(r)
    BY DEF LoseLock, LockAndAnswersReliable, Core, TypeOK
  <2>2. QED
    BY <1>3, <2>1, CoreAbort, CoreWriteFails, CoreClear DEF Break
<1>4. ASSUME Age \/ (\E s \in Sessions : EndSession(s)) \/ UNCHANGED vars PROVE Core'
  <2>1. UNCHANGED <<refresh, vstate, version, holder, upstream, local>>
    BY <1>4 DEF Age, EndSession, vars, vault
  <2>2. QED
    BY <1>1, <2>1
       DEF Core, local, upstream, LockHeld, UnderLock, CopyOfRow, InRotation, OnlyIssued,
           LoginTokenFresh, WriteBackGood, InFlightNotStored, ExtendsStable, StableIsGood, NoReuse
<1>5. QED
  BY <1>2, <1>3, <1>4, CoreArrive DEF Next

(* The inductive invariant holds throughout.                                  *)
THEOREM CoreCorrect ==
    ASSUME LockAndAnswersReliable
    PROVE  Spec => []Core
BY CoreInit, CoreNext, PTL DEF Spec

(* sub2api is never shown a refresh token twice.                              *)
THEOREM NeverPresentedTwice ==
    ASSUME LockAndAnswersReliable
    PROVE  Spec => []NoReuse
<1>1. Core => NoReuse
  BY DEF Core
<1>2. QED
  BY <1>1, CoreCorrect, PTL

(* What the row calls stable can be presented; the invariant relates the row  *)
(* to every token that is in flight or was exchanged.                         *)
THEOREM StableCanBePresented ==
    ASSUME LockAndAnswersReliable
    PROVE  Spec => []StableIsGood
<1>1. Core => StableIsGood
  BY DEF Core
<1>2. QED
  BY <1>1, CoreCorrect, PTL

(* A refresh that answers success is backed by a credential that works.       *)
THEOREM SuccessAlwaysBacked ==
    ASSUME LockAndAnswersReliable
    PROVE  Spec => []SuccessIsBacked
<1>1. Core => SuccessIsBacked
  BY DEF Core, ExtendsStable, StableIsGood, SuccessIsBacked
<1>2. QED
  BY <1>1, CoreCorrect, PTL

-----------------------------------------------------------------------------
(* Ended sessions, whatever breaks *)

(* A login mints its own session last, and once.                              *)
Unminted == \A r \in Requests : pc[r] # "done" => session[r] = "unused"

(* No session of a login exists before it is minted.                          *)
LEMMA UnmintedInit == Init => Unminted
BY ArbiterAssumption DEF Init, Unminted, Sessions

(* What a request that is not minting does to the sessions.                   *)
LEMMA SessionsOnlyEnd ==
    ASSUME TypeOK, NEW r \in Requests, Arrive(r) \/ Step(r) \/ Break(r), ~MintSession(r)
    PROVE  \A s \in Sessions : session'[s] # session[s] =>
             session[s] \in {"live", "expired"} /\ session'[s] = "revoked"
<1>1. CASE RevokeAll(r)
  BY <1>1 DEF RevokeAll, RevokedSessions
<1>2. CASE Extend(r)
  BY <1>2 DEF Extend, Extendable, TypeOK
<1>3. CASE ~RevokeAll(r) /\ ~Extend(r)
  BY <1>3 DEF Arrive, ArriveWithSession, ArriveLogin, ArriveSync, Step, Break, Acquire, Revalidate,
     LoadVault, Match, Write, Answer, Clear, SignIn, Capture, Abort, WriteFails, ClearFails, LoseLock
<1>4. QED
  BY <1>1, <1>2, <1>3

(* Who is done stays done, and who gets there is the one that moves.          *)
LEMMA OnlyOneMoves ==
    ASSUME TypeOK, NEW r \in Requests, Arrive(r) \/ Step(r) \/ Break(r)
    PROVE  \A q \in Requests : pc'[q] # "done" => pc[q] # "done"
<1>1. CASE Arrive(r)
  BY <1>1 DEF Arrive, ArriveWithSession, ArriveLogin, ArriveSync, Goto, TypeOK
<1>2. CASE Step(r)
  <2>1. pc[r] # "done"
    BY <1>2 DEF Step, Acquire, Revalidate, LoadVault, Match, Write, Answer, Clear, RevokeAll,
       Extend, SignIn, Capture, MintSession
  <2>2. \A q \in Requests \ {r} : pc'[q] = pc[q]
    BY <1>2 DEF Step, Acquire, Revalidate, LoadVault, Match, Write, AfterWrite, Conflict, Answer,
       Rotated, Ambiguous, Busy, Rejected, Then, Clear, RevokeAll, Extend, SignIn, Capture,
       MintSession, Leave, Goto, TypeOK
  <2>3. QED
    BY <2>1, <2>2
<1>3. CASE Break(r) /\ ~LoseLock(r)
  <2>1. pc[r] # "done"
    BY <1>3 DEF Break, Abort, WriteFails, ClearFails
  <2>2. \A q \in Requests \ {r} : pc'[q] = pc[q]
    BY <1>3 DEF Break, Abort, WriteFails, RetryOrMark, ClearFails, Leave, Goto, TypeOK
  <2>3. QED
    BY <2>1, <2>2
<1>4. CASE LoseLock(r)
  BY <1>4 DEF LoseLock, local
<1>5. QED
  BY <1>1, <1>2, <1>3, <1>4

(* Every step keeps that.                                                     *)
LEMMA UnmintedNext == TypeOK /\ Unminted /\ [Next]_vars => Unminted'
<1> SUFFICES ASSUME TypeOK, Unminted, [Next]_vars PROVE Unminted'
  OBVIOUS
<1>1. ASSUME NEW r \in Requests, Arrive(r) \/ Step(r) \/ Break(r), ~MintSession(r)
      PROVE  Unminted'
  <2>1. \A q \in Requests : session[q] = "unused" => session'[q] = "unused"
    BY <1>1, SessionsOnlyEnd DEF Sessions
  <2>2. QED
    BY <1>1, <2>1, OnlyOneMoves DEF Unminted
<1>2. ASSUME NEW r \in Requests, MintSession(r) PROVE Unminted'
  BY <1>2 DEF MintSession, Leave, Goto, Unminted, TypeOK, Sessions
<1>3. CASE \E s \in Sessions : EndSession(s)
  BY <1>3 DEF EndSession, Unminted, TypeOK, Sessions, local
<1>4. CASE Age \/ UNCHANGED vars
  BY <1>4 DEF Age, Unminted, vars, local
<1>5. QED
  BY <1>1, <1>2, <1>3, <1>4 DEF Next

(* No refresh, login or late answer brings an ended session back, even when   *)
(* the lock is lost and answers mislead.                                      *)
THEOREM NeverRevived == Spec => EndedStaysEnded
<1>1. TypeOK /\ Unminted /\ [Next]_vars =>
        [\A s \in Sessions : session[s] \in {"expired", "revoked"} => session'[s] # "live"]_vars
  <2> SUFFICES ASSUME TypeOK, Unminted, [Next]_vars, NEW s \in Sessions,
                      session[s] \in {"expired", "revoked"}
               PROVE  session'[s] # "live"
    OBVIOUS
  <2>1. ASSUME NEW r \in Requests, Arrive(r) \/ Step(r) \/ Break(r), ~MintSession(r)
        PROVE  session'[s] # "live"
    BY <2>1, SessionsOnlyEnd
  <2>2. ASSUME NEW r \in Requests, MintSession(r) PROVE session'[s] # "live"
    BY <2>2 DEF MintSession, Unminted, TypeOK
  <2>3. CASE \E q \in Sessions : EndSession(q)
    BY <2>3 DEF EndSession, TypeOK
  <2>4. CASE Age \/ UNCHANGED vars
    BY <2>4 DEF Age, vars
  <2>5. QED
    BY <2>1, <2>2, <2>3, <2>4 DEF Next
<1>2. QED
  BY <1>1, TypeInit, TypeNext, UnmintedInit, UnmintedNext, PTL DEF Spec, EndedStaysEnded
-----------------------------------------------------------------------------
(* Families.  While no lock is lost and every login takes it, one request at  *)
(* a time is at work on the user's row, and what the row says is what that    *)
(* request is doing.                                                          *)

(* Every login finds the user by its e-mail, and so takes the lock.           *)
LoginsAreLocked == EmailDrift = FALSE /\ "new" \notin Starts

AtRest(r) == pc[r] \in {"idle", "waiting", "done"}
OneAtWork == \A r \in Requests : ~AtRest(r) => holder = r

(* What a request at work may rely on.                                        *)
AtRow(r) == version = seen[r] /\ refresh = held[r]
RowFollows(r) ==
    /\ pc[r] \in {"matching", "writing"} => op[r] \in {"begin", "complete", "mark", "reset"}
    /\ pc[r] \in {"matching", "writing"} /\ op[r] = "begin" => vstate = "stable" /\ AtRow(r)
    /\ pc[r] \in {"matching", "writing"} /\ op[r] = "reset" => vstate = "rotating" /\ AtRow(r)
    /\ pc[r] \in {"calling", "clearing"} => vstate = "rotating" /\ AtRow(r)
    /\ pc[r] \in {"extending", "minting"} => vstate = "stable"

(* Somebody is there to store the new pair, to take the mark back, or to log  *)
(* every device out.                                                          *)
Live == \E s \in Sessions : session[s] = "live"
Ends(r) ==
    \/ pc[r] \in {"calling", "clearing", "revoking"}
    \/ pc[r] \in {"matching", "writing"} /\ op[r] # "begin"

Families ==
    losses = 0 =>
        /\ OneAtWork
        /\ \A r \in Requests : RowFollows(r)
        /\ faults = 0 /\ vstate # "stable" /\ Live => \E r \in Requests : Ends(r)

(* A user who has a row keeps it, and a login then takes the lock.            *)
LEMMA KnownStays ==
    ASSUME LoginsAreLocked
    PROVE  (Init => known) /\ (known /\ [Next]_vars => known')
<1>1. Init => known
  BY DEF Init, LoginsAreLocked
<1>2. known /\ [Next]_vars => known'
  <2> SUFFICES ASSUME known, [Next]_vars PROVE known'
    OBVIOUS
  <2>1. CASE \E r \in Requests : Arrive(r)
    BY <2>1 DEF Arrive, ArriveWithSession, ArriveLogin, ArriveSync
  <2>2. CASE \E r \in Requests : Step(r)
    BY <2>2 DEF Step, Acquire, Revalidate, LoadVault, Match, Write, Answer, Clear, RevokeAll,
                Extend, SignIn, Capture, MintSession
  <2>3. CASE \E r \in Requests : Break(r)
    BY <2>3 DEF Break, Abort, WriteFails, ClearFails, LoseLock
  <2>4. CASE Age \/ (\E s \in Sessions : EndSession(s)) \/ UNCHANGED vars
    BY <2>4 DEF Age, EndSession, vars
  <2>5. QED
    BY <2>1, <2>2, <2>3, <2>4 DEF Next
<1>3. QED
  BY <1>1, <1>2

(* Of two requests at work each would be the holder.                          *)
LEMMA AloneAtWork ==
    ASSUME Families, losses = 0, NEW r \in Requests, ~AtRest(r)
    PROVE  /\ holder = r /\ RowFollows(r)
           /\ \A q \in Requests \ {r} : AtRest(q)
           /\ faults = 0 /\ vstate # "stable" /\ Live => Ends(r)
<1>1. holder = r /\ RowFollows(r) /\ \A q \in Requests \ {r} : AtRest(q)
  BY DEF Families, OneAtWork
<1>2. \A q \in Requests : Ends(q) => ~AtRest(q)
  BY DEF Ends, AtRest
<1>3. QED
  BY <1>1, <1>2 DEF Families

(* So what one request does need only be looked at where that request is.     *)
LEMMA FamiliesKept ==
    ASSUME TypeOK, NEW r \in Requests, NEW p, pc' = [pc EXCEPT ![r] = p],
           losses' = 0 =>
             /\ \A q \in Requests \ {r} : AtRest(q)
             /\ p = "done" \/ holder' = r
             /\ RowFollows(r)'
             /\ faults' = 0 /\ vstate' # "stable" /\ Live' => Ends(r)'
    PROVE  Families'
<1> SUFFICES ASSUME losses' = 0
             PROVE  /\ OneAtWork' /\ \A q \in Requests : RowFollows(q)'
                    /\ faults' = 0 /\ vstate' # "stable" /\ Live'
                         => \E q \in Requests : Ends(q)'
  BY DEF Families
<1>1. pc'[r] = p /\ \A q \in Requests \ {r} : AtRest(q)'
  BY DEF TypeOK, AtRest
<1>2. OneAtWork'
  BY <1>1 DEF OneAtWork, AtRest
<1>3. \A q \in Requests \ {r} : RowFollows(q)'
  BY <1>1 DEF AtRest, RowFollows
<1>4. QED
  BY <1>2, <1>3

(* No row is in doubt at the start.                                           *)
LEMMA FamiliesInit == LoginsAreLocked /\ Init => Families
<1> SUFFICES ASSUME LoginsAreLocked, Init PROVE Families
  OBVIOUS
<1>1. vstate = "stable" /\ \A r \in Requests : pc[r] = "idle"
  BY DEF Init, LoginsAreLocked
<1>2. QED
  BY <1>1 DEF Families, OneAtWork, AtRest, RowFollows

(* A request that arrives waits for the lock.                                 *)
LEMMA FamiliesArrive ==
    ASSUME LoginsAreLocked, known, TypeOK, Families, NEW r \in Requests, Arrive(r)
    PROVE  Families'
<1>1. pc[r] = "idle" /\ pc' = [pc EXCEPT ![r] = "waiting"]
  BY DEF Arrive, ArriveWithSession, ArriveLogin, ArriveSync, EmailFound, Goto, LoginsAreLocked
<1>2. UNCHANGED <<vault, session, holder, held, seen, op, faults, losses>>
  BY DEF Arrive, ArriveWithSession, ArriveLogin, ArriveSync, bounds
<1>3. \A q \in Requests : (AtRest(q)' <=> AtRest(q)) /\ (Ends(q)' <=> Ends(q))
  BY <1>1, <1>2 DEF AtRest, Ends, TypeOK
<1>4. \A q \in Requests : RowFollows(q) => RowFollows(q)'
  BY <1>1, <1>2 DEF RowFollows, AtRow, TypeOK, vault
<1>5. QED
  BY <1>2, <1>3, <1>4 DEF Families, OneAtWork, Live, vault

(* Who takes the lock finds nobody at work.                                   *)
LEMMA FamiliesAcquire ==
    ASSUME TypeOK, Families, NEW r \in Requests, Acquire(r)
    PROVE  Families'
<1>1. PICK p \in {"checking", "loading", "signing_in"} : pc' = [pc EXCEPT ![r] = p]
  BY DEF Acquire, Goto
<1>2. /\ holder = nobody /\ holder' = r
      /\ UNCHANGED <<vault, session, op, faults, losses>>
  BY DEF Acquire, bounds
<1>3. losses = 0 => \A q \in Requests : AtRest(q) /\ ~Ends(q)
  BY <1>2, ArbiterAssumption DEF Families, OneAtWork, AtRest, Ends
<1>4. RowFollows(r)'
  BY <1>1 DEF TypeOK, RowFollows
<1>5. losses = 0 /\ faults = 0 => vstate = "stable" \/ ~Live
  BY <1>3 DEF Families
<1>6. faults' = 0 /\ losses' = 0 => ~(vstate' # "stable" /\ Live')
  BY <1>2, <1>5 DEF Live, vault
<1>7. QED
  BY <1>1, <1>2, <1>3, <1>4, <1>6, FamiliesKept

(* The request at work reads, and goes on or leaves.                          *)
LEMMA FamiliesRead ==
    ASSUME TypeOK, Families, NEW r \in Requests, Revalidate(r) \/ LoadVault(r) \/ SignIn(r)
    PROVE  Families'
<1>1. PICK p \in {"loading", "revoking", "extending", "matching", "capturing", "done"} :
        pc' = [pc EXCEPT ![r] = p] /\ (p = "done" \/ holder' = holder)
  BY DEF Revalidate, LoadVault, SignIn, Leave, Goto
<1>2. UNCHANGED <<vault, session, faults, losses>>
  BY DEF Revalidate, LoadVault, SignIn, bounds
<1>3. pc[r] \in {"checking", "loading", "signing_in"}
  BY DEF Revalidate, LoadVault, SignIn
<1>4. ~AtRest(r) /\ ~Ends(r)
  BY <1>3 DEF AtRest, Ends
<1>5. /\ p = "matching" => /\ vstate = "stable" /\ op'[r] = "begin"
                           /\ held'[r] = refresh /\ seen'[r] = version
      /\ p = "extending" => vstate = "stable"
  BY <1>1, <1>3 DEF Revalidate, LoadVault, SignIn, Leave, Goto, TypeOK
<1>6. RowFollows(r)'
  BY <1>1, <1>2, <1>5 DEF RowFollows, AtRow, TypeOK, vault
<1>7. losses = 0 => /\ holder = r /\ \A q \in Requests \ {r} : AtRest(q)
                    /\ ~(faults = 0 /\ vstate # "stable" /\ Live)
  BY <1>4, AloneAtWork
<1>8. losses' = 0 => ~(faults' = 0 /\ vstate' # "stable" /\ Live')
  BY <1>2, <1>7 DEF Live, vault
<1>9. QED
  BY <1>1, <1>2, <1>6, <1>7, <1>8, FamiliesKept

(* The row is compared; a conflict ends in a mark or in the revocation.       *)
LEMMA FamiliesMatch ==
    ASSUME TypeOK, Families, NEW r \in Requests, Match(r)
    PROVE  Families'
<1>1. PICK p \in {"writing", "matching", "revoking", "done"} :
        pc' = [pc EXCEPT ![r] = p] /\ (p = "done" \/ holder' = holder)
  BY DEF Match, Conflict, Leave, Goto
<1>2. UNCHANGED <<vault, session, faults, losses, held, seen>>
  BY DEF Match, bounds
<1>3. pc[r] = "matching" /\ ~AtRest(r)
  BY DEF Match, AtRest
<1>4. SUFFICES ASSUME losses = 0
               PROVE  /\ RowFollows(r)'
                      /\ faults' = 0 /\ vstate' # "stable" /\ Live' => Ends(r)'
  BY <1>1, <1>2, <1>3, AloneAtWork, FamiliesKept
<1>5. RowFollows(r) /\ (faults = 0 /\ vstate # "stable" /\ Live => Ends(r))
  BY <1>3, <1>4, AloneAtWork
<1>6. CASE op[r] \in {"begin", "reset"}
  <2>1. pc' = [pc EXCEPT ![r] = "writing"] /\ UNCHANGED op
    BY <1>3, <1>5, <1>6 DEF Match, RowFollows, AtRow, StateFor, Goto
  <2>2. RowFollows(r)' /\ (Ends(r)' <=> Ends(r))
    BY <1>2, <1>3, <1>5, <2>1 DEF RowFollows, AtRow, Ends, TypeOK, vault
  <2>3. QED
    BY <1>2, <1>5, <2>2 DEF Live, vault
<1>7. CASE op[r] \in {"complete", "mark"}
  <2>1. \/ pc' = [pc EXCEPT ![r] = "writing"] /\ UNCHANGED op
        \/ pc' = [pc EXCEPT ![r] = "matching"] /\ op' = [op EXCEPT ![r] = "mark"]
        \/ pc' = [pc EXCEPT ![r] = "revoking"] /\ UNCHANGED op
    BY <1>7 DEF Match, Conflict, Goto
  <2>2. RowFollows(r)' /\ Ends(r)'
    BY <1>7, <2>1 DEF RowFollows, Ends, TypeOK
  <2>3. QED
    BY <2>2
<1>8. QED
  BY <1>3, <1>5, <1>6, <1>7 DEF RowFollows

(* The write: it succeeds for the request at work, unless it is one of the    *)
(* two that end in the revocation anyway.                                     *)
LEMMA FamiliesWrite ==
    ASSUME TypeOK, Families, NEW r \in Requests, Write(r)
    PROVE  Families'
<1>1. PICK p \in {"calling", "extending", "matching", "revoking", "done"} :
        pc' = [pc EXCEPT ![r] = p] /\ (p = "done" \/ holder' = holder)
  BY DEF Write, AfterWrite, Conflict, Leave, Goto
<1>2. UNCHANGED <<session, faults, losses, held, seen>>
  BY DEF Write, bounds
<1>3. pc[r] = "writing" /\ ~AtRest(r)
  BY DEF Write, AtRest
<1>4. SUFFICES ASSUME losses = 0
               PROVE  /\ RowFollows(r)'
                      /\ faults' = 0 /\ vstate' # "stable" /\ Live' => Ends(r)'
  BY <1>1, <1>2, <1>3, AloneAtWork, FamiliesKept
<1>5. RowFollows(r)
  BY <1>3, <1>4, AloneAtWork
<1>6. CASE op[r] = "begin"
  <2>1. pc' = [pc EXCEPT ![r] = "calling"] /\ UNCHANGED <<refresh, version>>
        /\ vstate' = "rotating" /\ AtRow(r)
    BY <1>3, <1>5, <1>6
       DEF Write, CasHolds, StateFor, WriteVault, AfterWrite, RowFollows, AtRow, Goto
  <2>2. QED
    BY <1>2, <2>1 DEF RowFollows, AtRow, Ends, TypeOK
<1>7. CASE op[r] = "reset"
  <2>1. pc' = [pc EXCEPT ![r] = "done"] /\ vstate' = "stable"
    BY <1>3, <1>5, <1>7
       DEF Write, CasHolds, StateFor, WriteVault, AfterWrite, RowFollows, AtRow, Leave, Goto
  <2>2. QED
    BY <2>1 DEF RowFollows, TypeOK
<1>8. CASE op[r] = "complete"
  <2>1. \/ /\ vstate' = "stable"
           /\ \E place \in {"extending", "done"} : pc' = [pc EXCEPT ![r] = place]
        \/ pc' = [pc EXCEPT ![r] = "matching"] /\ op' = [op EXCEPT ![r] = "mark"]
    BY <1>8 DEF Write, WriteVault, AfterWrite, Conflict, Leave, Goto
  <2>2. QED
    BY <2>1 DEF RowFollows, Ends, TypeOK
<1>9. CASE op[r] = "mark"
  <2>1. pc' = [pc EXCEPT ![r] = "revoking"]
    BY <1>9 DEF Write, AfterWrite, Conflict, Goto
  <2>2. QED
    BY <2>1 DEF RowFollows, Ends, TypeOK
<1>10. QED
  BY <1>3, <1>5, <1>6, <1>7, <1>8, <1>9 DEF RowFollows

(* Upstream answers: the pair is stored, the mark taken back, or the row goes.*)
LEMMA FamiliesAnswer ==
    ASSUME TypeOK, Families, NEW r \in Requests, Answer(r)
    PROVE  Families'
<1>1. \/ /\ pc' = [pc EXCEPT ![r] = "matching"]
         /\ \E o \in {"complete", "mark", "reset"} : op' = [op EXCEPT ![r] = o]
      \/ pc' = [pc EXCEPT ![r] = "clearing"]
  BY DEF Answer, Rotated, Ambiguous, Busy, Rejected, Then, Goto
<1>2. UNCHANGED <<vault, session, holder, faults, losses, held, seen>> /\ pc[r] = "calling"
  BY DEF Answer, bounds
<1>3. ~AtRest(r)
  BY <1>2 DEF AtRest
<1>4. RowFollows(r) => RowFollows(r)'
  BY <1>1, <1>2 DEF RowFollows, AtRow, TypeOK, vault
<1>5. Ends(r)'
  BY <1>1 DEF Ends, TypeOK
<1>6. QED
  BY <1>1, <1>2, <1>3, <1>4, <1>5, AloneAtWork, FamiliesKept

(* The row is deleted before the sessions are ended, and they are ended.      *)
LEMMA FamiliesEnd ==
    ASSUME TypeOK, Families, NEW r \in Requests, Clear(r) \/ RevokeAll(r)
    PROVE  Families'
<1>1. PICK p \in {"revoking", "done"} :
        /\ pc' = [pc EXCEPT ![r] = p] /\ (p = "done" \/ holder' = holder)
        /\ p = "done" => session' = RevokedSessions
  BY DEF Clear, RevokeAll, Leave, Goto
<1>2. losses' = losses /\ ~AtRest(r)
  BY DEF Clear, RevokeAll, AtRest, bounds
<1>3. RowFollows(r)'
  BY <1>1 DEF RowFollows, TypeOK
<1>4. p = "done" => ~Live'
  BY <1>1 DEF Live, RevokedSessions
<1>5. p = "revoking" => Ends(r)'
  BY <1>1 DEF Ends, TypeOK
<1>6. QED
  BY <1>1, <1>2, <1>3, <1>4, <1>5, AloneAtWork, FamiliesKept

(* A session is extended, and a new one minted, over a row that is stable.    *)
LEMMA FamiliesSession ==
    ASSUME TypeOK, Families, NEW r \in Requests, Extend(r) \/ Capture(r) \/ MintSession(r)
    PROVE  Families'
<1>1. PICK p \in {"minting", "done"} :
        pc' = [pc EXCEPT ![r] = p] /\ (p = "done" \/ holder' = holder)
  BY DEF Extend, Capture, MintSession, Leave, Goto
<1>2. losses' = losses /\ ~AtRest(r)
  BY DEF Extend, Capture, MintSession, AtRest, bounds
<1>3. losses = 0 => vstate' = "stable"
  <2>1. pc[r] \in {"extending", "minting"} /\ losses = 0 => vstate = "stable"
    BY <1>2, AloneAtWork DEF RowFollows
  <2>2. QED
    BY <2>1 DEF Extend, Capture, MintSession, vault
<1>4. losses = 0 => RowFollows(r)'
  BY <1>1, <1>3 DEF RowFollows, TypeOK
<1>5. QED
  BY <1>1, <1>2, <1>3, <1>4, AloneAtWork, FamiliesKept

(* After a fault the sessions may stay, but the row still follows.            *)
LEMMA FamiliesBreak ==
    ASSUME TypeOK, Families, NEW r \in Requests, Break(r)
    PROVE  Families'
<1>1. CASE LoseLock(r)
  <2>1. losses' = losses + 1 /\ losses \in Nat
    BY <1>1 DEF LoseLock, TypeOK
  <2>2. QED
    BY <2>1 DEF Families
<1>2. CASE Abort(r) /\ AtRest(r)
  <2>1. /\ pc' = [pc EXCEPT ![r] = "done"] /\ UNCHANGED <<vault, session, losses>>
        /\ holder # r => holder' = holder
    BY <1>2 DEF Abort, Leave, Goto
  <2>2. \A q \in Requests : AtRest(q)' <=> AtRest(q)
    BY <1>2, <2>1 DEF AtRest, TypeOK
  <2>3. OneAtWork => OneAtWork'
    BY <1>2, <2>1, <2>2 DEF OneAtWork, Abort, Leave
  <2>4. \A q \in Requests : RowFollows(q) => RowFollows(q)'
    BY <1>2, <2>1 DEF Abort, RowFollows, AtRow, TypeOK, vault
  <2>5. faults' # 0
    BY <1>2 DEF Abort, TypeOK
  <2>6. QED
    BY <2>1, <2>3, <2>4, <2>5 DEF Families
<1>3. CASE ~AtRest(r) /\ (Abort(r) \/ ClearFails(r) \/ WriteFails(r))
  <2>1. faults' # 0 /\ losses' = losses
    <3>1. faults' = faults + 1 /\ faults \in Nat
      BY <1>3 DEF Abort, ClearFails, WriteFails, TypeOK
    <3>2. losses' = losses
      BY <1>3 DEF Abort, ClearFails, WriteFails
    <3>3. QED
      BY <3>1, <3>2
  <2>2. \/ pc' = [pc EXCEPT ![r] = "done"]
        \/ pc' = [pc EXCEPT ![r] = "revoking"] /\ holder' = holder
        \/ /\ pc' = [pc EXCEPT ![r] = "matching"] /\ holder' = holder
           /\ \E o \in {"complete", "mark"} : op' = [op EXCEPT ![r] = o]
    BY <1>3 DEF Abort, ClearFails, WriteFails, RetryOrMark, Leave, Goto
  <2>3. RowFollows(r)'
    BY <2>2 DEF RowFollows, TypeOK
  <2>4. PICK p \in {"done", "revoking", "matching"} :
          pc' = [pc EXCEPT ![r] = p] /\ (p = "done" \/ holder' = holder)
    BY <2>2
  <2>5. QED
    BY <1>3, <2>1, <2>3, <2>4, AloneAtWork, FamiliesKept
<1>4. QED
  BY <1>1, <1>2, <1>3 DEF Break, ClearFails, WriteFails, AtRest

(* Time and logouts leave every request where it is.                          *)
LEMMA FamiliesAside ==
    ASSUME TypeOK, Families, Age \/ (\E s \in Sessions : EndSession(s)) \/ UNCHANGED vars
    PROVE  Families'
<1>1. UNCHANGED <<refresh, vstate, version, holder, local, faults, losses>>
  BY DEF Age, EndSession, vars, vault, bounds
<1>2. Live' => Live
  BY DEF Age, EndSession, vars, Live, TypeOK
<1>3. \A q \in Requests : /\ AtRest(q)' <=> AtRest(q)
                          /\ Ends(q)' <=> Ends(q)
                          /\ RowFollows(q)' <=> RowFollows(q)
  BY <1>1 DEF AtRest, Ends, RowFollows, AtRow, local
<1>4. QED
  BY <1>1, <1>2, <1>3 DEF Families, OneAtWork

(* Every step keeps the row and the sessions together.                        *)
LEMMA FamiliesNext ==
    LoginsAreLocked /\ TypeOK /\ known /\ Families /\ [Next]_vars => Families'
<1> SUFFICES ASSUME LoginsAreLocked, TypeOK, known, Families, [Next]_vars PROVE Families'
  OBVIOUS
<1>1. CASE \E r \in Requests : Arrive(r)
  BY <1>1, FamiliesArrive
<1>2. CASE \E r \in Requests : Step(r)
  BY <1>2, FamiliesAcquire, FamiliesRead, FamiliesMatch, FamiliesWrite, FamiliesAnswer,
     FamiliesEnd, FamiliesSession DEF Step
<1>3. CASE \E r \in Requests : Break(r)
  BY <1>3, FamiliesBreak
<1>4. QED
  BY <1>1, <1>2, <1>3, FamiliesAside DEF Next

(* The invariant of the families.                                             *)
THEOREM FamiliesCorrect == ASSUME LoginsAreLocked PROVE Spec => []Families
  BY TypeCorrect, KnownStays, FamiliesInit, FamiliesNext, PTL DEF Spec

(* Once everything is quiet, and nothing failed and no lock was lost, a live  *)
(* session has a family behind it: revokeUserSessionsForUpstreamFailure is    *)
(* reached on every path on which the family is lost.                         *)
THEOREM FamilyBacksSessions == ASSUME LoginsAreLocked PROVE Spec => []NoSessionOutlivesFamily
<1>1. Families => NoSessionOutlivesFamily
  BY DEF Families, NoSessionOutlivesFamily, Quiet, Ends, Live
<1>2. QED
  BY <1>1, FamiliesCorrect, PTL

(* ClearVault deletes by user, whatever the row holds; while no lock is lost  *)
(* it holds the family that sub2api rejected.                                 *)
THEOREM OwnFamilyCleared == ASSUME LoginsAreLocked PROVE Spec => ClearsOwnFamily
<1>1. Families /\ [Next]_vars
        => [\A r \in Requests :
              losses = 0 /\ pc[r] = "clearing" /\ vstate # "none" /\ vstate' = "none"
                => refresh = held[r]]_vars
  BY DEF Families, RowFollows, AtRow
<1>2. QED
  BY <1>1, FamiliesCorrect, PTL DEF Spec, ClearsOwnFamily
=============================================================================
