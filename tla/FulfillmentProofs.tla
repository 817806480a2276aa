-------------------------- MODULE FulfillmentProofs --------------------------
(* Theorems about Fulfillment, for every set of jobs, workers and handlers,   *)
(* every payload and every bound.                                             *)
EXTENDS Fulfillment, FiniteSetTheorems, TLAPS

(* The job idle executors name exists.                                        *)
LEMMA AnyJobIsAJob == AnyJob \in Jobs
BY FulfillmentAssumption DEF AnyJob

(* The next step of a payload is one of its steps.                            *)
LEMMA FirstOfType ==
    ASSUME NEW j \in Jobs, NEW S
    PROVE  /\ FirstOf(j, S) \in StepKinds \union {"none"}
           /\ FirstOf(j, S) # "none" => FirstOf(j, S) \in Payload[j]
BY DEF FirstOf, StepKinds

-----------------------------------------------------------------------------
(* The inductive invariant, operation by operation *)

(* Only the check of a transition reaches a commit, and not with SerialTx.    *)
LEMMA NoSplitNext == TypeOK /\ NoSplitTransaction /\ [Next]_vars => NoSplitTransaction'
<1> SUFFICES ASSUME TypeOK, NoSplitTransaction, SerialTx, [Next]_vars,
                    NEW e \in Executors
             PROVE  pc'[e] \notin {"reset_commit", "record_commit"}
  BY DEF NoSplitTransaction
<1>1. pc \in [Executors -> PCs] /\ pc[e] \notin {"reset_commit", "record_commit"}
  BY DEF TypeOK, NoSplitTransaction
<1>2. CASE UNCHANGED pc
  BY <1>1, <1>2
<1>3. ASSUME NEW f \in Executors, NEW p,
             pc' = [pc EXCEPT ![f] = p], p \notin {"reset_commit", "record_commit"}
      PROVE  pc'[e] \notin {"reset_commit", "record_commit"}
  BY <1>1, <1>3
<1>4. CASE \E h \in Handlers : Initiate(h)
  <2>1. PICK h \in Handlers, j \in Jobs : Deliver(h, j) \/ Poll(h, j) \/ Replay(h, j)
    BY <1>4 DEF Initiate
  <2>2. \/ pc' = [pc EXCEPT ![h] = "returning"]
        \/ pc' = [pc EXCEPT ![h] = "calling"]
        \/ pc' = [pc EXCEPT ![h] = "resetting"]
    <3>1. CASE Deliver(h, j)
      BY <3>1 DEF Deliver, CreateOrLoadJob, GotoStep, Goto
    <3>2. CASE Poll(h, j) \/ Replay(h, j)
      BY <3>2 DEF Poll, Replay, StartRetry, Goto
    <3>3. QED
      BY <2>1, <3>1, <3>2
  <2>3. QED
    BY <1>1, <2>2 DEF Executors
<1>5. CASE \E w \in Workers : List(w) \/ Claim(w)
  <2>1. PICK w \in Workers : List(w) \/ Claim(w)
    BY <1>5
  <2>2. pc' = pc \/ pc' = [pc EXCEPT ![w] = "resetting"]
    <3>1. CASE List(w)
      BY <3>1 DEF List, exec
    <3>2. CASE Claim(w)
      BY <3>2 DEF Claim, StartRetry, Goto
    <3>3. QED
      BY <2>1, <3>1, <3>2
  <2>3. QED
    BY <1>1, <2>2 DEF Executors
<1>6. CASE \E f \in Executors : CheckTransition(f)
  BY <1>3, <1>6 DEF CheckTransition, Goto
<1>7. CASE \E f \in Executors : Reset(f) \/ Record(f)
  BY <1>3, <1>7 DEF Reset, Record, GotoStep, Goto
<1>8. CASE \E f \in Executors : Apply(f) \/ \E r \in Outcomes : Call(f, r)
  BY <1>3, <1>8 DEF Apply, Verdict, Call, Goto
<1>9. CASE \E f \in Executors : Finish(f) \/ Abort(f) \/ StoreError(f)
  BY <1>3, <1>9 DEF Finish, Abort, StoreError, Leave, Goto
<1>10. CASE (\E j \in Jobs : BackoffElapses(j)) \/ UNCHANGED vars
  BY <1>2, <1>10 DEF BackoffElapses, vars, exec
<1>11. QED
  BY <1>4, <1>5, <1>6, <1>7, <1>8, <1>9, <1>10 DEF Next, Execute

(* The invariant holds at the start.                                          *)
LEMMA InvInit == Init => IInv
BY AnyJobIsAJob, FulfillmentAssumption
   DEF Init, IInv, Core, TypeOK, CountsBounded, StepInPayload, RetryTarget, GrantPrecedesRecord,
       RowsExist, NoSplitTransaction, FulfilledWasGranted, AtStep, PCs, Outcomes, Statuses

(* A notice creates or loads the job and keeps the invariant.                 *)
LEMMA InvDeliver ==
    ASSUME Core, NEW h \in Handlers, NEW j \in Jobs, Deliver(h, j)
    PROVE  Core'
<1> DEFINE S == IF status[j] \in Final THEN {} ELSE StepKinds
<1> USE FulfillmentAssumption DEF Core
<1>1. h \in Executors
  BY DEF Executors
<1>2. /\ pc' = [pc EXCEPT ![h] = IF FirstOf(j, S) = "none" THEN "returning" ELSE "calling"]
      /\ step' = [step EXCEPT ![h] = FirstOf(j, S)]
  BY DEF Deliver, CreateOrLoadJob, GotoStep, Goto
<1>3. TypeOK'
  BY <1>1, <1>2, FirstOfType DEF TypeOK, Deliver, CreateOrLoadJob, PCs, Statuses
<1>4. CountsBounded'
  BY <1>1 DEF CountsBounded, TypeOK, Deliver, CreateOrLoadJob
<1>5. StepInPayload'
  BY <1>1, <1>2, FirstOfType DEF StepInPayload, AtStep, TypeOK, Deliver, CreateOrLoadJob
<1>6. RetryTarget' /\ GrantPrecedesRecord'
  BY <1>1, <1>2 DEF RetryTarget, GrantPrecedesRecord, TypeOK, Deliver, CreateOrLoadJob
<1>7. /\ \A k \in Jobs : status[k] # "absent" => status'[k] = status[k]
      /\ \A k \in Jobs : status'[k] = "fulfilled" => status[k] = "fulfilled"
      /\ status'[j] # "absent"
  BY DEF TypeOK, Deliver, CreateOrLoadJob
<1>8. RowsExist'
  BY <1>1, <1>2, <1>7 DEF RowsExist, TypeOK, Deliver, CreateOrLoadJob
<1>9. FulfilledWasGranted'
  BY <1>7 DEF FulfilledWasGranted, Deliver, CreateOrLoadJob
<1>10. QED
  BY <1>3, <1>4, <1>5, <1>6, <1>8, <1>9

(* So does the start of a retry or replay,                                    *)
LEMMA InvStartRetry ==
    ASSUME Core, NEW h \in Handlers, NEW j \in Jobs, Poll(h, j) \/ Replay(h, j)
    PROVE  Core'
<1> USE FulfillmentAssumption DEF Core, Poll, Replay, StartRetry, Goto
<1>1. h \in Executors
  BY DEF Executors
<1>2. TypeOK'
  BY <1>1 DEF TypeOK, PCs, Statuses, row
<1>3. CountsBounded' /\ StepInPayload' /\ RetryTarget'
  BY <1>1 DEF CountsBounded, StepInPayload, RetryTarget, AtStep, TypeOK, row
<1>4. GrantPrecedesRecord' /\ RowsExist' /\ FulfilledWasGranted'
  BY <1>1 DEF GrantPrecedesRecord, RowsExist, FulfilledWasGranted, TypeOK, row
<1>5. QED
  BY <1>2, <1>3, <1>4

(* a listing of due jobs,                                                     *)
LEMMA InvList ==
    ASSUME Core, NEW w \in Workers, List(w)
    PROVE  Core'
<1> DEFINE listed == {<<j, retries[j]>> : j \in {k \in Jobs : ListRetryDue(k)}}
<1> USE DEF Core
<1>1. /\ listed \in SUBSET (Jobs \X Nat)
      /\ \A b \in listed : b[2] <= MaxRetries /\ status[b[1]] # "absent"
  BY DEF TypeOK, CountsBounded, ListRetryDue
<1>2. batch' = [batch EXCEPT ![w] = listed]
  BY DEF List
<1> HIDE DEF listed
<1>3. TypeOK' /\ CountsBounded'
  BY <1>1, <1>2 DEF TypeOK, CountsBounded, List, row, exec, bounds
<1>4. StepInPayload' /\ RetryTarget' /\ GrantPrecedesRecord' /\ FulfilledWasGranted'
  BY DEF StepInPayload, RetryTarget, GrantPrecedesRecord, FulfilledWasGranted, List, row, exec
<1>5. RowsExist'
  BY <1>1, <1>2 DEF RowsExist, TypeOK, List, row, exec
<1>6. QED
  BY <1>3, <1>4, <1>5

(* a claim, which copies the retry count of the listed row,                   *)
LEMMA InvClaim ==
    ASSUME Core, NEW w \in Workers, Claim(w)
    PROVE  Core'
<1> USE DEF Core
<1>1. PICK b \in batch[w] :
        /\ batch' = [batch EXCEPT ![w] = @ \ {b}]
        /\ \/ /\ status' = [status EXCEPT ![b[1]] = "paid_unfulfilled"]
              /\ due' = [due EXCEPT ![b[1]] = TRUE]
              /\ StartRetry(w, b[1], b[2])
           \/ UNCHANGED <<status, due, pc, at, count, target>>
  BY DEF Claim
<1>2. b[1] \in Jobs /\ b[2] \in Nat /\ b[2] <= MaxRetries /\ w \in Executors
  BY <1>1 DEF TypeOK, CountsBounded, Executors
<1>3. UNCHANGED <<retries, acked, granted, step, outcome, notice, attempts, requests, faults, flaky>>
  BY DEF Claim, bounds
<1>4. /\ batch' \in [Workers -> SUBSET (Jobs \X Nat)]
      /\ \A v \in Workers : batch'[v] \subseteq batch[v]
  BY <1>1 DEF TypeOK
<1>5. CASE /\ status' = [status EXCEPT ![b[1]] = "paid_unfulfilled"]
           /\ due' = [due EXCEPT ![b[1]] = TRUE]
           /\ StartRetry(w, b[1], b[2])
  <2> USE <1>2, <1>3, <1>4, <1>5 DEF StartRetry, Goto
  <2>1. TypeOK'
    BY DEF TypeOK, PCs, Statuses
  <2>2. CountsBounded'
    BY DEF CountsBounded, TypeOK
  <2>3. StepInPayload' /\ RetryTarget' /\ GrantPrecedesRecord'
    BY DEF StepInPayload, RetryTarget, GrantPrecedesRecord, AtStep, TypeOK
  <2>4. RowsExist' /\ FulfilledWasGranted'
    BY DEF RowsExist, FulfilledWasGranted, TypeOK
  <2>5. QED
    BY <2>1, <2>2, <2>3, <2>4
<1>6. CASE UNCHANGED <<status, due, pc, at, count, target>>
  <2> USE <1>3, <1>4, <1>6
  <2>1. TypeOK' /\ CountsBounded'
    BY DEF TypeOK, CountsBounded
  <2>2. StepInPayload' /\ RetryTarget' /\ GrantPrecedesRecord' /\ FulfilledWasGranted'
    BY DEF StepInPayload, RetryTarget, GrantPrecedesRecord, FulfilledWasGranted
  <2>3. RowsExist'
    BY DEF RowsExist, TypeOK
  <2>4. QED
    BY <2>1, <2>2, <2>3
<1>7. QED
  BY <1>1, <1>5, <1>6

(* the check of a transition,                                                 *)
LEMMA InvCheckTransition ==
    ASSUME Core, NEW e \in Executors, CheckTransition(e)
    PROVE  Core'
<1> USE DEF Core, CheckTransition, Goto
<1>1. TypeOK'
  BY DEF TypeOK, PCs, row, bounds
<1>2. CountsBounded' /\ StepInPayload' /\ RetryTarget'
  BY DEF CountsBounded, StepInPayload, RetryTarget, AtStep, TypeOK, row
<1>3. GrantPrecedesRecord' /\ RowsExist' /\ FulfilledWasGranted'
  BY DEF GrantPrecedesRecord, RowsExist, FulfilledWasGranted, TypeOK, row
<1>4. QED
  BY <1>1, <1>2, <1>3

(* the reset to paid_unfulfilled,                                             *)
LEMMA InvReset ==
    ASSUME Core, NEW e \in Executors, Reset(e)
    PROVE  Core'
<1> DEFINE next == FirstOf(at[e], StepKinds)
<1> USE DEF Core
<1>1. /\ pc[e] \in {"resetting", "reset_commit"}
      /\ target[e] = "paid_unfulfilled"
      /\ at[e] \in Jobs
  BY DEF Reset, MayWrite, RetryTarget, TypeOK
<1>2. /\ pc' = [pc EXCEPT ![e] = IF next = "none" THEN "returning" ELSE "calling"]
      /\ step' = [step EXCEPT ![e] = next]
      /\ status' = [status EXCEPT ![at[e]] = "paid_unfulfilled"]
      /\ retries' = [retries EXCEPT ![at[e]] = count[e]]
      /\ due' = [due EXCEPT ![at[e]] = TRUE]
  BY <1>1 DEF Reset, GotoStep, Goto, WriteRow
<1>3. next \in StepKinds \union {"none"} /\ (next # "none" => next \in Payload[at[e]])
  BY <1>1, FirstOfType
<1>4. attempts' \in [Jobs -> Nat]
  BY DEF TypeOK, Reset
<1>5. UNCHANGED <<acked, granted, batch, at, count, outcome, target, notice, requests, faults, flaky>>
  BY DEF Reset, bounds
<1> HIDE DEF next
<1>6. TypeOK'
  BY <1>1, <1>2, <1>3, <1>4, <1>5 DEF TypeOK, PCs, Statuses
<1>7. CountsBounded'
  BY <1>2, <1>5 DEF CountsBounded, TypeOK
<1>8. StepInPayload' /\ RetryTarget' /\ GrantPrecedesRecord'
  BY <1>2, <1>3, <1>5 DEF StepInPayload, RetryTarget, GrantPrecedesRecord, AtStep, TypeOK
<1>9. RowsExist'
  BY <1>1, <1>2, <1>5 DEF RowsExist, TypeOK
<1>10. FulfilledWasGranted'
  BY <1>1, <1>2, <1>5 DEF FulfilledWasGranted, TypeOK
<1>11. QED
  BY <1>6, <1>7, <1>8, <1>9, <1>10

(* an upstream call, which is where a grant comes from,                       *)
LEMMA InvCall ==
    ASSUME Core, NEW e \in Executors, NEW r \in Outcomes, Call(e, r)
    PROVE  Core'
<1> USE FulfillmentAssumption DEF Core
<1>1. /\ at[e] \in Jobs
      /\ step[e] \in Payload[at[e]]
      /\ step[e] \in StepKinds
  BY DEF Call, TypeOK, StepInPayload, AtStep
<1>2. /\ granted \subseteq granted'
      /\ granted' \in SUBSET (Jobs \X StepKinds)
      /\ r = "ok" => <<at[e], step[e]>> \in granted'
  BY <1>1 DEF Call, TypeOK
<1>3. /\ outcome' = [outcome EXCEPT ![e] = r]
      /\ pc[e] = "calling"
      /\ \/ pc' = [pc EXCEPT ![e] = "recording"] /\ target' = [target EXCEPT ![e] = "paid_unfulfilled"]
         \/ pc' = [pc EXCEPT ![e] = "applying"] /\ target' = target
  BY DEF Call, Goto
<1>4. flaky' \in Nat
  BY DEF Call, TypeOK
<1>5. UNCHANGED <<status, retries, due, acked, batch, at, step, count, notice, attempts, requests, faults>>
  BY DEF Call, row
<1>6. TypeOK'
  BY <1>2, <1>3, <1>4, <1>5 DEF TypeOK, PCs, Statuses
<1>7. CountsBounded' /\ StepInPayload' /\ RetryTarget'
  BY <1>3, <1>5 DEF CountsBounded, StepInPayload, RetryTarget, AtStep, TypeOK
<1>8. GrantPrecedesRecord'
  BY <1>2, <1>3, <1>5 DEF GrantPrecedesRecord, TypeOK
<1>9. RowsExist' /\ FulfilledWasGranted'
  BY <1>2, <1>3, <1>5 DEF RowsExist, FulfilledWasGranted, TypeOK
<1>10. QED
  BY <1>6, <1>7, <1>8, <1>9

(* the choice of the status to record,                                        *)
LEMMA InvApply ==
    ASSUME Core, NEW e \in Executors, Apply(e)
    PROVE  Core'
<1> USE FulfillmentAssumption DEF Core
<1>1. PICK n \in Nat, t \in Statuses :
        /\ Verdict(e, t, n)
        /\ n <= MaxRetries
        /\ t = "fulfilled" => outcome[e] = "ok"
  <2>1. retries[at[e]] \in Nat /\ retries[at[e]] <= MaxRetries
    BY DEF TypeOK, CountsBounded
  <2>2. \/ Verdict(e, "fulfilled", retries[at[e]]) /\ outcome[e] = "ok"
        \/ Verdict(e, "failed_retryable", retries[at[e]] + 1) /\ retries[at[e]] + 1 <= MaxRetries
        \/ Verdict(e, "failed_terminal", retries[at[e]])
    BY DEF Apply
  <2>3. QED
    BY <2>1, <2>2 DEF Statuses
<1>2. pc[e] = "applying" /\ pc' = [pc EXCEPT ![e] = "recording"]
  BY <1>1 DEF Verdict, Goto
<1>3. UNCHANGED <<status, retries, due, acked, granted, batch, at, step, outcome, notice,
                  attempts, requests, faults, flaky>>
  BY <1>1 DEF Verdict, row, bounds
<1>4. TypeOK' /\ CountsBounded'
  BY <1>1, <1>2, <1>3 DEF Verdict, TypeOK, CountsBounded, PCs
<1>5. StepInPayload' /\ RetryTarget'
  BY <1>1, <1>2, <1>3 DEF Verdict, StepInPayload, RetryTarget, AtStep, TypeOK
<1>6. GrantPrecedesRecord'
  BY <1>1, <1>2, <1>3 DEF Verdict, GrantPrecedesRecord, TypeOK
<1>7. RowsExist' /\ FulfilledWasGranted'
  BY <1>2, <1>3 DEF RowsExist, FulfilledWasGranted, TypeOK
<1>8. QED
  BY <1>4, <1>5, <1>6, <1>7

(* its recording,                                                             *)
LEMMA InvRecord ==
    ASSUME Core, NEW e \in Executors, Record(e)
    PROVE  Core'
<1> DEFINE next == FirstOf(at[e], StepsAfter(step[e]))
<1> USE DEF Core
<1>1. /\ pc[e] \in {"recording", "record_commit"}
      /\ at[e] \in Jobs
      /\ step[e] \in Payload[at[e]]
  BY DEF Record, MayWrite, StepInPayload, AtStep, TypeOK
<1>2. /\ pc' = [pc EXCEPT ![e] = IF next = "none" THEN "returning" ELSE "calling"]
      /\ step' = [step EXCEPT ![e] = next]
      /\ status' = [status EXCEPT ![at[e]] = target[e]]
      /\ retries' = [retries EXCEPT ![at[e]] = count[e]]
      /\ due' = [due EXCEPT ![at[e]] = target[e] # "failed_retryable"]
  BY DEF Record, GotoStep, Goto, WriteRow
<1>3. next \in StepKinds \union {"none"} /\ (next # "none" => next \in Payload[at[e]])
  BY <1>1, FirstOfType
<1>4. UNCHANGED <<acked, granted, batch, at, count, outcome, target, notice, attempts,
                  requests, faults, flaky>>
  BY DEF Record, bounds
<1> HIDE DEF next
<1>5. TypeOK'
  BY <1>1, <1>2, <1>3, <1>4 DEF TypeOK, PCs
<1>6. CountsBounded'
  BY <1>2, <1>4 DEF CountsBounded, TypeOK
<1>7. StepInPayload' /\ RetryTarget' /\ GrantPrecedesRecord'
  BY <1>2, <1>3, <1>4 DEF StepInPayload, RetryTarget, GrantPrecedesRecord, AtStep, TypeOK
<1>8. RowsExist'
  BY <1>1, <1>2, <1>4 DEF RowsExist, TypeOK, Statuses
<1>9. FulfilledWasGranted'
  BY <1>1, <1>2, <1>4 DEF FulfilledWasGranted, GrantPrecedesRecord, TypeOK
<1>10. QED
  BY <1>5, <1>6, <1>7, <1>8, <1>9

(* the return of an executor,                                                 *)
LEMMA InvLeave ==
    ASSUME Core, NEW e \in Executors, Finish(e) \/ Abort(e)
    PROVE  Core'
<1> USE DEF Core
<1>1. /\ batch' \in [Workers -> SUBSET (Jobs \X Nat)]
      /\ \A w \in Workers : batch'[w] \subseteq batch[w]
  BY DEF TypeOK, Finish, Abort
<1>2. /\ acked' \in [Jobs -> BOOLEAN]
      /\ requests' \in Nat
      /\ faults' \in Nat
      /\ flaky' \in Nat
  <2>1. CASE Finish(e)
    BY <2>1 DEF TypeOK, Finish, bounds
  <2>2. CASE Abort(e)
    BY <2>2 DEF TypeOK, Abort
  <2>3. QED
    BY <2>1, <2>2
<1>3. /\ pc' = [pc EXCEPT ![e] = "idle"]
      /\ at' = [at EXCEPT ![e] = AnyJob]
      /\ step' = [step EXCEPT ![e] = "none"]
      /\ count' = [count EXCEPT ![e] = 0]
      /\ outcome' = [outcome EXCEPT ![e] = "ok"]
      /\ target' = [target EXCEPT ![e] = "paid_unfulfilled"]
      /\ notice' = [notice EXCEPT ![e] = FALSE]
      /\ UNCHANGED <<status, retries, due, granted, attempts>>
  BY DEF Finish, Abort, Leave, Goto, row
<1>4. TypeOK'
  BY <1>1, <1>2, <1>3, AnyJobIsAJob DEF TypeOK, PCs, Statuses, Outcomes
<1>5. CountsBounded'
  BY <1>1, <1>3, FulfillmentAssumption DEF CountsBounded, TypeOK
<1>6. StepInPayload' /\ RetryTarget' /\ GrantPrecedesRecord'
  BY <1>3 DEF StepInPayload, RetryTarget, GrantPrecedesRecord, AtStep, TypeOK
<1>7. RowsExist' /\ FulfilledWasGranted'
  BY <1>1, <1>3 DEF RowsExist, FulfilledWasGranted, TypeOK
<1>8. QED
  BY <1>4, <1>5, <1>6, <1>7

(* a failed statement,                                                        *)
LEMMA InvStoreError ==
    ASSUME Core, NEW e \in Executors, StoreError(e)
    PROVE  Core'
<1> USE DEF Core, StoreError, Goto
<1>1. TypeOK'
  BY DEF TypeOK, PCs, row
<1>2. CountsBounded' /\ StepInPayload' /\ RetryTarget'
  BY DEF CountsBounded, StepInPayload, RetryTarget, AtStep, TypeOK, row
<1>3. GrantPrecedesRecord' /\ RowsExist' /\ FulfilledWasGranted'
  BY DEF GrantPrecedesRecord, RowsExist, FulfilledWasGranted, TypeOK, row
<1>4. QED
  BY <1>1, <1>2, <1>3

(* and the actions that leave rows and executors alone.                       *)
LEMMA InvIdle ==
    ASSUME Core, (\E j \in Jobs : BackoffElapses(j)) \/ UNCHANGED vars
    PROVE  Core'
<1> USE DEF Core, vars, row, exec, bounds, BackoffElapses
<1>1. TypeOK' /\ CountsBounded' /\ FulfilledWasGranted'
  BY DEF TypeOK, CountsBounded, FulfilledWasGranted
<1>2. StepInPayload' /\ RetryTarget' /\ GrantPrecedesRecord' /\ RowsExist'
  BY DEF StepInPayload, RetryTarget, GrantPrecedesRecord, RowsExist
<1>3. QED
  BY <1>1, <1>2

(* Every step keeps the invariant.                                            *)
LEMMA InvNext == IInv /\ [Next]_vars => IInv'
BY NoSplitNext, InvDeliver, InvStartRetry, InvList, InvClaim, InvCheckTransition, InvReset, InvCall,
   InvApply, InvRecord, InvLeave, InvStoreError, InvIdle
   DEF IInv, Core, Next, Initiate, Execute

(* The invariant holds in every instance.                                     *)
THEOREM Invariance == Spec => []IInv
BY InvInit, InvNext, PTL DEF Spec

(* Type correctness: every row, every executor and every list of due jobs     *)
(* keeps its shape through every operation of the service.                    *)
THEOREM TypeCorrect == Spec => []TypeOK
<1>1. IInv => TypeOK
  BY DEF IInv, Core
<1>2. QED
  BY <1>1, Invariance, PTL

(* The persisted retry count stays within Service.maxRetries for every number *)
(* of concurrent callers, on either kind of store.                            *)
THEOREM BudgetHolds == Spec => []RetryCountWithinBudget
<1>1. IInv => RetryCountWithinBudget
  BY DEF IInv, Core, CountsBounded, RetryCountWithinBudget
<1>2. QED
  BY <1>1, Invariance, PTL

(* A job is never recorded fulfilled before some step of its payload took     *)
(* effect upstream, on either kind of store and after any failure.            *)
THEOREM FulfilledIsHonest == Spec => []FulfilledWasGranted
<1>1. IInv => FulfilledWasGranted
  BY DEF IInv, Core
<1>2. QED
  BY <1>1, Invariance, PTL

-----------------------------------------------------------------------------
(* What a transition that is still allowed when it is written adds *)

(* Between its check and its UPDATE nothing has made a transition illegal.    *)
ChecksHold ==
    \A e \in Executors : pc[e] \in {"reset_commit", "record_commit"} => Allowed(e)

(* A store that serialises transactions has nothing between the two.          *)
LEMMA SerialChecksHold == IInv /\ SerialTx => ChecksHold
BY DEF IInv, NoSplitTransaction, ChecksHold

LegalChange(from, to) ==
    \/ from = "absent" /\ to = "paid_unfulfilled"
    \/ from # "absent" /\ canTransition(from, to)

(* A step writes the status of one job, grants nothing at the same time, and  *)
(* the write is the creation, the claim, or one that canTransition still      *)
(* allows.                                                                    *)
LEMMA StatusStep ==
    ASSUME IInv, ChecksHold, [Next]_vars, status' # status
    PROVE  /\ granted' = granted
           /\ \E j \in Jobs, s \in Statuses :
                /\ status' = [status EXCEPT ![j] = s]
                /\ LegalChange(status[j], s)
<1> DEFINE Goal == /\ granted' = granted
                   /\ \E j \in Jobs, s \in Statuses :
                        /\ status' = [status EXCEPT ![j] = s]
                        /\ LegalChange(status[j], s)
<1> USE DEF IInv, Core
<1>1. ASSUME NEW h \in Handlers, NEW k \in Jobs, Deliver(h, k)
      PROVE  Goal
  <2>1. status[k] = "absent"
    BY <1>1 DEF Deliver, CreateOrLoadJob, TypeOK
  <2>2. status' = [status EXCEPT ![k] = "paid_unfulfilled"] /\ granted' = granted
    BY <1>1, <2>1 DEF Deliver, CreateOrLoadJob
  <2>3. QED
    BY <2>1, <2>2 DEF LegalChange, Statuses
<1>2. ASSUME NEW w \in Workers, Claim(w)
      PROVE  Goal
  <2>1. PICK b \in batch[w] :
          \/ /\ status[b[1]] = "failed_retryable"
             /\ status' = [status EXCEPT ![b[1]] = "paid_unfulfilled"]
          \/ status' = status
    BY <1>2 DEF Claim, ClaimWins
  <2>2. b[1] \in Jobs /\ granted' = granted
    BY <1>2, <2>1 DEF Claim, TypeOK
  <2>3. QED
    BY <2>1, <2>2 DEF LegalChange, canTransition, Statuses
<1>3. ASSUME NEW e \in Executors, Reset(e) \/ Record(e)
      PROVE  Goal
  <2>1. Allowed(e) /\ pc[e] # "idle"
    BY <1>3 DEF Reset, Record, MayWrite, ChecksHold
  <2>2. at[e] \in Jobs /\ target[e] \in Statuses
    BY DEF TypeOK
  <2>3. status' = [status EXCEPT ![at[e]] = target[e]] /\ granted' = granted
    BY <1>3 DEF Reset, Record, WriteRow
  <2>4. LegalChange(status[at[e]], target[e])
    BY <2>1 DEF LegalChange, Allowed, RowsExist
  <2>5. QED
    BY <2>2, <2>3, <2>4
<1>4. QED
  BY <1>1, <1>2, <1>3
     DEF Next, Initiate, Execute, Poll, Replay, List, CheckTransition, Call, Apply, Verdict, Finish,
         Abort, StoreError, BackoffElapses, vars, row

(* A job that is settled stays as it settled.                                 *)
LEMMA FinalStep ==
    ASSUME IInv, ChecksHold, [Next]_vars
    PROVE  [\A j \in Jobs : status[j] \in Final => status'[j] = status[j]]_vars
<1> SUFFICES ASSUME NEW j \in Jobs, status[j] \in Final, status'[j] # status[j]
             PROVE  FALSE
  OBVIOUS
<1>1. PICK k \in Jobs, s \in Statuses :
        /\ status' = [status EXCEPT ![k] = s]
        /\ LegalChange(status[k], s)
  BY StatusStep
<1>2. QED
  BY <1>1 DEF LegalChange, canTransition, Final, IInv, Core, TypeOK

(* On a store that serialises transactions a settled job stays as it settled, *)
(* whoever else is still executing it.                                        *)
THEOREM SettledForGood == ASSUME SerialTx PROVE Spec => FinalIsFinal
<1>1. IInv /\ [Next]_vars => [\A j \in Jobs : status[j] \in Final => status'[j] = status[j]]_vars
  BY SerialChecksHold, FinalStep
<1>2. QED
  BY <1>1, Invariance, PTL DEF Spec, FinalIsFinal

-----------------------------------------------------------------------------
(* The promise *)

SingleProduct == \A j \in Jobs : \A s, t \in Payload[j] : s = t

(* Every step of Fulfillment is a step or a stutter of PaymentPromise.        *)
LEMMA PromiseStep ==
    ASSUME IInv, ChecksHold, SingleProduct, [Next]_vars
    PROVE  [Promise!Next]_(Promise!vars)
<1> DEFINE phase == [j \in Jobs |-> PhaseOf(status[j])]
<1> USE FulfillmentAssumption DEF IInv, Core
<1>1. ASSUME NEW e \in Executors, NEW r \in Outcomes, Call(e, r), granted' # granted
      PROVE  Promise!Grant(at[e], step[e]) /\ at[e] \in Jobs /\ step[e] \in StepKinds
  <2>1. /\ at[e] \in Jobs
        /\ step[e] \in Payload[at[e]] /\ step[e] \in StepKinds
        /\ status[at[e]] # "absent"
        /\ granted' = granted \union {<<at[e], step[e]>>}
        /\ status' = status
    BY <1>1 DEF Call, TypeOK, StepInPayload, AtStep, RowsExist, row
  <2>2. PhaseOf(status[at[e]]) # "none"
    BY <2>1 DEF PhaseOf, TypeOK, Statuses
  <2>3. QED
    BY <2>1, <2>2 DEF Promise!Grant
<1>2. CASE granted' # granted
  BY <1>1, <1>2
     DEF Promise!Next, Next, Initiate, Execute, Deliver, CreateOrLoadJob, Poll, Replay, List, Claim, CheckTransition, Reset,
         Record, Apply, Verdict, Finish, Abort, StoreError, BackoffElapses, vars
<1>3. CASE status' # status
  <2>1. granted' = granted
    BY <1>3, StatusStep
  <2>2. PICK j \in Jobs, s \in Statuses :
          status' = [status EXCEPT ![j] = s] /\ LegalChange(status[j], s)
    BY <1>3, StatusStep
  <2>3. status[j] # s /\ status'[j] = s
    BY <1>3, <2>2 DEF TypeOK
  <2>4. phase' = [phase EXCEPT ![j] = PhaseOf(s)]
    BY <2>2 DEF TypeOK
  <2>5. s = "fulfilled" => \A t \in Payload[j] : <<j, t>> \in granted
    BY <2>1, <2>3, InvNext DEF FulfilledWasGranted, SingleProduct
  <2>6. \/ status[j] = "absent" /\ s = "paid_unfulfilled"
        \/ status[j] \in {"paid_unfulfilled", "failed_retryable"} /\ s \in Statuses
    BY <2>2, <2>3 DEF LegalChange, canTransition, TypeOK, Statuses
  <2>7. \/ Promise!Accept(j)
        \/ Promise!Deliver(j)
        \/ Promise!Abandon(j)
        \/ UNCHANGED <<phase, granted>>
    BY <2>1, <2>4, <2>5, <2>6
       DEF Promise!Accept, Promise!Deliver, Promise!Abandon, Promise!Complete, PhaseOf, Statuses
  <2>8. QED
    BY <2>7 DEF Promise!Next, Promise!vars
<1>4. CASE granted' = granted /\ status' = status
  BY <1>4 DEF Promise!vars
<1>5. QED
  BY <1>2, <1>3, <1>4

(* On a store that serialises transactions, and for payments that buy one     *)
(* product, the whole machinery of notices, claims, retries and failures      *)
(* implements PaymentPromise: a debt is accepted once and settled once, and   *)
(* settled as delivered only after the product was granted.                   *)
THEOREM PromiseImplemented == ASSUME SerialTx, SingleProduct PROVE Spec => PromiseKept
<1>1. Init => Promise!Init
  BY DEF Init, Promise!Init, PhaseOf
<1>2. IInv /\ [Next]_vars => [Promise!Next]_(Promise!vars)
  BY SerialChecksHold, PromiseStep
<1>3. QED
  BY <1>1, <1>2, Invariance, PTL DEF Spec, PromiseKept, Promise!Spec

-----------------------------------------------------------------------------
(* What the claim achieves when nothing disturbs it *)

(* Notices come through one handler at a time and are not posted again, the   *)
(* customer does not poll, no admin replays, nothing fails, and a payment     *)
(* buys one product.  The number of workers and of jobs and the kind of store *)
(* are free.                                                                  *)
Undisturbed ==
    /\ Callers = {} /\ MaxFaults = 0 /\ SingleProduct
    /\ \A g, h \in Handlers : g = h

(* A paid job that is not linked to its payment yet is in a handler's hands.  *)
Answered ==
    \A j \in Jobs : ~acked[j] /\ status[j] # "absent" =>
        \E h \in Handlers : pc[h] # "idle" /\ at[h] = j /\ notice[h]

(* Whoever works on a job does so alone, and the row says it is taken.        *)
Sole ==
    /\ \A e, f \in Executors, j \in Jobs : Processing(e, j) /\ Processing(f, j) => e = f
    /\ \A e \in Executors, j \in Jobs : Processing(e, j) => status[j] = "paid_unfulfilled"
    /\ Answered

Busy == {"resetting", "reset_commit", "calling", "applying", "recording", "record_commit"}

(* An executor's step leaves the others alone; it is about the job the        *)
(* executor has, and never takes up another.                                  *)
LEMMA ExecuteStep ==
    ASSUME IInv, Undisturbed, NEW e \in Executors, Execute(e)
    PROVE  /\ \A f \in Executors \ {e} : /\ pc'[f] = pc[f] /\ at'[f] = at[f]
                                         /\ notice'[f] = notice[f] /\ count'[f] = count[f]
                                         /\ target'[f] = target[f]
           /\ batch' = batch
           /\ at[e] \in Jobs
           /\ \A j \in Jobs \ {at[e]} : /\ status'[j] = status[j] /\ retries'[j] = retries[j]
                                        /\ due'[j] = due[j] /\ attempts'[j] = attempts[j]
           /\ \/ Finish(e)
              \/ /\ pc[e] \in Busy /\ pc'[e] \in Busy \union {"returning"}
                 /\ UNCHANGED <<at, notice, acked>>
                 /\ \/ UNCHANGED <<status, retries, due, attempts>>
                    \/ Reset(e)
                    \/ Record(e) /\ pc'[e] = "returning"
<1> USE DEF IInv, Core
<1>1. /\ at[e] \in Jobs /\ e \in DOMAIN pc /\ pc \in [Executors -> PCs]
      /\ status \in [Jobs -> Statuses \union {"absent"}] /\ retries \in [Jobs -> Nat]
      /\ due \in [Jobs -> BOOLEAN] /\ attempts \in [Jobs -> Nat]
      /\ count \in [Executors -> Nat] /\ target \in [Executors -> Statuses]
      /\ at \in [Executors -> Jobs] /\ notice \in [Executors -> BOOLEAN]
  BY DEF TypeOK
<1>2. CASE CheckTransition(e)
  BY <1>1, <1>2 DEF CheckTransition, Goto, row, Busy
<1>3. CASE Reset(e)
  <2>1. /\ pc[e] \in Busy /\ (pc' = [pc EXCEPT ![e] = "returning"] \/ pc' = [pc EXCEPT ![e] = "calling"])
    BY <1>3 DEF Reset, MayWrite, GotoStep, Goto, Busy
  <2>2. pc'[e] \in Busy \union {"returning"} /\ \A f \in Executors \ {e} : pc'[f] = pc[f]
    BY <1>1, <2>1 DEF Busy
  <2> QED
    BY <1>1, <1>3, <2>1, <2>2 DEF Reset, WriteRow
<1>4. CASE \E r \in Outcomes : Call(e, r)
  <2>1. /\ pc[e] \in Busy
        /\ (pc' = [pc EXCEPT ![e] = "recording"] \/ pc' = [pc EXCEPT ![e] = "applying"])
        /\ (target' = [target EXCEPT ![e] = "paid_unfulfilled"] \/ target' = target)
        /\ UNCHANGED <<row, acked, batch, at, count, notice, attempts>>
    BY <1>4 DEF Call, Goto, Busy
  <2> QED
    BY <1>1, <2>1 DEF Busy, row
<1>5. CASE Apply(e)
  <2>1. PICK t, n : Verdict(e, t, n)
    BY <1>5 DEF Apply
  <2>2. /\ pc[e] \in Busy /\ pc' = [pc EXCEPT ![e] = "recording"]
        /\ target' = [target EXCEPT ![e] = t] /\ count' = [count EXCEPT ![e] = n]
        /\ UNCHANGED <<row, acked, batch, at, notice, attempts>>
    BY <2>1 DEF Verdict, Goto, Busy
  <2> QED
    BY <1>1, <2>2 DEF Busy, row
<1>6. CASE Record(e)
  <2>1. pc[e] \in AtStep /\ pc[e] \in Busy /\ step[e] \in Payload[at[e]]
    BY <1>1, <1>6 DEF Record, MayWrite, AtStep, Busy, StepInPayload
  <2>2. FirstOf(at[e], StepsAfter(step[e])) = "none"
    BY <1>1, <2>1 DEF FirstOf, StepsAfter, Undisturbed, SingleProduct
  <2>3. pc' = [pc EXCEPT ![e] = "returning"]
    BY <1>6, <2>2 DEF Record, GotoStep, Goto
  <2> QED
    BY <1>1, <1>6, <2>1, <2>3 DEF Record, WriteRow
<1>7. CASE Finish(e)
  BY <1>1, <1>7 DEF Finish, Leave, Goto, row
<1> QED
  BY <1>2, <1>3, <1>4, <1>5, <1>6, <1>7 DEF Execute

(* The rest of a step: a first delivery, a listing, a claim, or time.         *)
LEMMA QuietStep ==
    ASSUME IInv, Undisturbed, [Next]_vars
    PROVE  \/ \E h \in Handlers, j \in Jobs : Deliver(h, j) /\ ~acked[j]
           \/ \E w \in Workers : List(w) \/ Claim(w)
           \/ \E e \in Executors : Execute(e)
           \/ \E j \in Jobs : BackoffElapses(j)
           \/ UNCHANGED vars
<1>1. MaxFaults = 0 /\ faults \in Nat /\ Callers = {}
  BY DEF Undisturbed, IInv, Core, TypeOK
<1>2. ~(faults < MaxFaults)
  BY <1>1
<1>3. \A e \in Executors : ~Abort(e) /\ ~StoreError(e)
  BY <1>2 DEF Abort, StoreError
<1>4. \A h \in Handlers, j \in Jobs : ~Poll(h, j) /\ ~Replay(h, j)
  BY <1>1 DEF Poll, Replay
<1>5. \A h \in Handlers, j \in Jobs : Deliver(h, j) => ~acked[j]
  BY <1>1 DEF Deliver
<1> QED
  BY <1>3, <1>4, <1>5 DEF Next, Initiate

(* A delivery is the first of its job.                                        *)
LEMMA FirstDelivery ==
    ASSUME IInv, Undisturbed, Answered, NEW h \in Handlers, NEW j \in Jobs,
           Deliver(h, j), ~acked[j]
    PROVE  /\ status[j] = "absent" /\ status' = [status EXCEPT ![j] = "paid_unfulfilled"]
           /\ \A f \in Executors : ~Processing(f, j)
           /\ \A k \in Jobs : ~acked[k] => status[k] = "absent"
           /\ pc[h] = "idle" /\ pc'[h] \in {"calling", "returning"} /\ at'[h] = j /\ notice'[h]
           /\ \A f \in Executors \ {h} : /\ pc'[f] = pc[f] /\ at'[f] = at[f]
                                         /\ notice'[f] = notice[f] /\ count'[f] = count[f]
           /\ UNCHANGED <<retries, due, acked, batch, target, attempts>>
<1> USE DEF IInv, Core
<1>1. \A k \in Jobs : ~acked[k] => status[k] = "absent"
  BY DEF Answered, Undisturbed, Deliver
<1>2. status[j] = "absent" /\ \A f \in Executors : ~Processing(f, j)
  BY <1>1 DEF Processing, RowsExist
<1>3. pc' = [pc EXCEPT ![h] = "returning"] \/ pc' = [pc EXCEPT ![h] = "calling"]
  BY DEF Deliver, GotoStep, Goto
<1>4. h \in Executors
  BY DEF Executors
<1> QED
  BY <1>1, <1>2, <1>3, <1>4 DEF Deliver, CreateOrLoadJob, TypeOK

(* Nobody works on a job that can be claimed; the claim takes it.             *)
LEMMA SoleClaim ==
    ASSUME IInv, Sole, NEW w \in Workers, Claim(w)
    PROVE  Sole'
<1> USE DEF IInv, Core
<1>1. PICK b \in batch[w] :
        \/ /\ status[b[1]] = "failed_retryable"
           /\ status' = [status EXCEPT ![b[1]] = "paid_unfulfilled"]
           /\ StartRetry(w, b[1], b[2])
        \/ UNCHANGED <<status, pc, at>>
  BY DEF Claim, ClaimWins
<1>2. b[1] \in Jobs /\ w \in Executors /\ pc[w] = "idle" /\ UNCHANGED <<acked, notice>>
  BY <1>1 DEF TypeOK, Executors, Claim
<1>3. CASE UNCHANGED <<status, pc, at>>
  BY <1>2, <1>3 DEF Sole, Answered, Processing
<1>4. CASE /\ status[b[1]] = "failed_retryable"
           /\ status' = [status EXCEPT ![b[1]] = "paid_unfulfilled"]
           /\ StartRetry(w, b[1], b[2])
  <2>1. /\ pc'[w] = "resetting" /\ at'[w] = b[1] /\ status'[b[1]] = "paid_unfulfilled"
        /\ \A f \in Executors \ {w} : pc'[f] = pc[f] /\ at'[f] = at[f]
        /\ \A k \in Jobs \ {b[1]} : status'[k] = status[k]
    BY <1>2, <1>4 DEF StartRetry, Goto, TypeOK
  <2>2. \A f \in Executors : ~Processing(f, b[1])
    BY <1>2, <1>4 DEF Sole
  <2>3. \A f \in Executors, k \in Jobs : Processing(f, k)' =>
           (f = w /\ k = b[1]) \/ (f # w /\ k # b[1] /\ Processing(f, k))
    BY <2>1, <2>2 DEF Processing
  <2>4. Answered'
    <3> SUFFICES ASSUME NEW k \in Jobs, ~acked[k], status'[k] # "absent"
                 PROVE  \E h \in Handlers : pc'[h] # "idle" /\ at'[h] = k /\ notice'[h]
      BY <1>2 DEF Answered
    <3>1. status[k] # "absent"
      BY <1>4, <2>1
    <3>2. PICK h \in Handlers : pc[h] # "idle" /\ at[h] = k /\ notice[h]
      BY <3>1 DEF Sole, Answered
    <3>3. h # w /\ h \in Executors
      BY <1>2, <3>2 DEF Executors
    <3> QED
      BY <1>2, <2>1, <3>2, <3>3
  <2> QED
    BY <2>1, <2>3, <2>4 DEF Sole
<1> QED
  BY <1>1, <1>3, <1>4

(* An executor gives up the job with its last write.                          *)
LEMMA SoleExecute ==
    ASSUME IInv, Undisturbed, Sole, NEW e \in Executors, Execute(e)
    PROVE  Sole'
<1> DEFINE Same(f) == pc'[f] = pc[f] /\ at'[f] = at[f] /\ notice'[f] = notice[f]
<1>1. /\ \A f \in Executors \ {e} : Same(f)
      /\ at[e] \in Jobs
      /\ \A j \in Jobs \ {at[e]} : status'[j] = status[j]
  BY ExecuteStep
<1>2. CASE Finish(e)
  <2>1. /\ pc[e] = "returning" /\ pc'[e] = "idle" /\ status' = status
        /\ acked' = IF notice[e] THEN [acked EXCEPT ![at[e]] = TRUE] ELSE acked
    BY <1>2 DEF Finish, Leave, Goto, row, IInv, Core, TypeOK
  <2>2. \A f \in Executors, j \in Jobs : Processing(f, j)' => Processing(f, j)
    BY <1>1, <2>1 DEF Processing
  <2>3. Answered'
    <3> SUFFICES ASSUME NEW k \in Jobs, ~acked'[k], status'[k] # "absent"
                 PROVE  \E h \in Handlers : pc'[h] # "idle" /\ at'[h] = k /\ notice'[h]
      BY DEF Answered
    <3>1. ~acked[k] /\ ~(notice[e] /\ at[e] = k)
      BY <2>1 DEF IInv, Core, TypeOK
    <3>2. PICK h \in Handlers : pc[h] # "idle" /\ at[h] = k /\ notice[h]
      BY <2>1, <3>1 DEF Sole, Answered
    <3>3. h # e /\ h \in Executors
      BY <3>1, <3>2 DEF Executors
    <3> QED
      BY <1>1, <3>2, <3>3
  <2> QED
    BY <2>1, <2>2, <2>3 DEF Sole
<1>3. CASE ~Finish(e)
  <2>1. /\ pc[e] \in Busy /\ pc'[e] \in Busy \union {"returning"}
        /\ UNCHANGED <<at, notice, acked>>
        /\ \/ status' = status \/ Reset(e) \/ (Record(e) /\ pc'[e] = "returning")
    BY <1>3, ExecuteStep
  <2>2. Processing(e, at[e]) /\ status[at[e]] = "paid_unfulfilled"
    BY <1>1, <2>1 DEF Processing, Busy, Sole
  <2>3. pc'[e] # "returning" => status'[at[e]] = "paid_unfulfilled"
    <3>1. CASE status' = status
      BY <2>2, <3>1
    <3>2. CASE Reset(e)
      BY <1>1, <3>2 DEF Reset, MayWrite, WriteRow, IInv, Core, TypeOK, RetryTarget
    <3> QED
      BY <2>1, <3>1, <3>2
  <2>4. \A f \in Executors, j \in Jobs : Processing(f, j)' => Processing(f, j)
    BY <1>1, <2>1 DEF Processing, Busy
  <2>5. \A f \in Executors, j \in Jobs : Processing(f, j)' => status'[j] = "paid_unfulfilled"
    <3> SUFFICES ASSUME NEW f \in Executors, NEW j \in Jobs, Processing(f, j)'
                 PROVE  status'[j] = "paid_unfulfilled"
      OBVIOUS
    <3>1. Processing(f, j) /\ status[j] = "paid_unfulfilled"
      BY <2>4 DEF Sole
    <3>2. CASE j # at[e]
      BY <1>1, <3>1, <3>2
    <3>3. CASE j = at[e]
      <4>1. f = e
        BY <2>2, <3>1, <3>3 DEF Sole
      <4> QED
        BY <2>3, <3>3, <4>1 DEF Processing
    <3> QED
      BY <3>2, <3>3
  <2>6. Answered'
    <3>1. \A k \in Jobs : status'[k] # "absent" => status[k] # "absent"
      BY <1>1, <2>2
    <3>2. \A h \in Executors : pc[h] # "idle" => pc'[h] # "idle"
      BY <1>1, <2>1 DEF Busy
    <3>3. Handlers \subseteq Executors
      BY DEF Executors
    <3> QED
      BY <2>1, <3>1, <3>2, <3>3 DEF Sole, Answered
  <2> QED
    BY <2>4, <2>5, <2>6 DEF Sole
<1> QED
  BY <1>2, <1>3

(* Every step keeps an unacknowledged job with at most one executor.           *)
LEMMA SoleNext ==
    ASSUME IInv, Undisturbed, Sole, [Next]_vars
    PROVE  Sole'
<1>1. ASSUME NEW h \in Handlers, NEW j \in Jobs, Deliver(h, j), ~acked[j] PROVE Sole'
  <2>1. /\ status[j] = "absent" /\ status' = [status EXCEPT ![j] = "paid_unfulfilled"]
        /\ \A f \in Executors : ~Processing(f, j)
        /\ \A k \in Jobs : ~acked[k] => status[k] = "absent"
        /\ pc'[h] \in {"calling", "returning"} /\ at'[h] = j /\ notice'[h]
        /\ \A f \in Executors \ {h} : pc'[f] = pc[f] /\ at'[f] = at[f]
        /\ acked' = acked
    BY <1>1, FirstDelivery DEF Sole
  <2>2. status'[j] = "paid_unfulfilled" /\ \A k \in Jobs \ {j} : status'[k] = status[k]
    BY <2>1 DEF IInv, Core, TypeOK
  <2>3. \A f \in Executors, k \in Jobs : Processing(f, k)' =>
           (f = h /\ k = j) \/ (f # h /\ k # j /\ Processing(f, k))
    BY <2>1 DEF Processing
  <2>4. Answered'
    BY <2>1, <2>2 DEF Answered
  <2> QED
    BY <2>2, <2>3, <2>4 DEF Sole
<1>2. ASSUME UNCHANGED <<status, acked, pc, at, notice>> PROVE Sole'
  BY <1>2 DEF Sole, Answered, Processing
<1>3. CASE \/ \E w \in Workers : List(w)
           \/ \E j \in Jobs : BackoffElapses(j)
           \/ UNCHANGED vars
  BY <1>2, <1>3 DEF List, BackoffElapses, vars, row, exec
<1> QED
  BY <1>1, <1>3, QuietStep, SoleClaim, SoleExecute

(* No job is ever worked on by two executors, however many workers run and on *)
(* either kind of store, as long as nothing but one handler at a time and the *)
(* workers take jobs up and nothing fails.                                    *)
THEOREM WorkersExclude == ASSUME Undisturbed PROVE Spec => []SingleExecutor
<1>1. Sole => SingleExecutor
  <2> SUFFICES ASSUME Sole, NEW j \in Jobs
               PROVE  Cardinality({e \in Executors : Processing(e, j)}) <= 1
    BY DEF SingleExecutor
  <2>1. CASE {e \in Executors : Processing(e, j)} = {}
    BY <2>1, FS_EmptySet
  <2>2. ASSUME NEW e \in Executors, Processing(e, j)
        PROVE  Cardinality({f \in Executors : Processing(f, j)}) = 1
    <3>1. {f \in Executors : Processing(f, j)} = {e}
      BY <2>2 DEF Sole
    <3> QED
      BY <3>1, FS_Singleton
  <2> QED
    BY <2>1, <2>2
<1>2. Init => IInv /\ Sole
  BY InvInit DEF Init, Sole, Answered, Processing
<1>3. IInv /\ Sole /\ [Next]_vars => IInv' /\ Sole'
  BY InvNext, SoleNext
<1> QED
  BY <1>1, <1>2, <1>3, PTL DEF Spec

(* An executor that is alone finds its check still true when it writes.       *)
LEMMA SoleChecksHold == IInv /\ Sole => ChecksHold
<1> SUFFICES ASSUME IInv, Sole, NEW e \in Executors, pc[e] \in {"reset_commit", "record_commit"}
             PROVE  Allowed(e)
  BY DEF ChecksHold
<1>1. status[at[e]] = "paid_unfulfilled"
  BY DEF IInv, Core, TypeOK, Sole, Processing
<1> QED
  BY <1>1 DEF IInv, Core, TypeOK, RowsExist, Allowed, canTransition, Statuses

(* Any number of workers, on either kind of store, implement PaymentPromise   *)
(* and leave a settled job as it settled, as long as nothing disturbs them:   *)
(* the claim gives them what a serialising store gives everybody.             *)
THEOREM WorkersKeepThePromise ==
    ASSUME Undisturbed
    PROVE  Spec => PromiseKept /\ FinalIsFinal
<1>1. Init => IInv /\ Sole
  BY InvInit DEF Init, Sole, Answered, Processing
<1>2. IInv /\ Sole /\ [Next]_vars => IInv' /\ Sole'
  BY InvNext, SoleNext
<1>3. Init => Promise!Init
  BY DEF Init, Promise!Init, PhaseOf
<1>4. IInv /\ Sole /\ [Next]_vars => [Promise!Next]_(Promise!vars)
  BY SoleChecksHold, PromiseStep DEF Undisturbed
<1>5. IInv /\ Sole /\ [Next]_vars =>
        [\A j \in Jobs : status[j] \in Final => status'[j] = status[j]]_vars
  BY SoleChecksHold, FinalStep
<1> QED
  BY <1>1, <1>2, <1>3, <1>4, <1>5, PTL DEF Spec, PromiseKept, Promise!Spec, FinalIsFinal

-----------------------------------------------------------------------------
(* A single worker retries in order *)

OneWorker == \A v, w \in Workers : v = w

(* What the worker's list says of a job is still so when the job's turn comes.*)
Copies ==
    \A w \in Workers : \A b \in batch[w] :
        b[2] = retries[b[1]] /\ status[b[1]] = "failed_retryable" /\ due[b[1]]

Resetting(j) == \E e \in Executors : at[e] = j /\ pc[e] \in {"resetting", "reset_commit"}

(* What an executor will write as the retry count: the count of the row, plus *)
(* one if the row goes back to failed_retryable.                              *)
CountFits(e) ==
    /\ pc[e] \in {"resetting", "reset_commit"} => count[e] = retries[at[e]]
    /\ pc[e] \in {"recording", "record_commit"} =>
          count[e] = IF target[e] = "failed_retryable" THEN retries[at[e]] + 1
                     ELSE retries[at[e]]

(* Each retry was counted before it started.                                  *)
Pending(j) == status[j] = "failed_retryable" \/ Resetting(j)
AttemptsFit(j) ==
    /\ attempts[j] <= retries[j]
    /\ Pending(j) => attempts[j] + 1 <= retries[j]

InOrder ==
    /\ Copies
    /\ \A e \in Executors : CountFits(e)
    /\ \A j \in Jobs : AttemptsFit(j)

(* Only a job no one works on can be in the list.                             *)
LEMMA ListedIsFree ==
    ASSUME Sole, Copies, NEW w \in Workers, NEW b \in batch[w], NEW e \in Executors,
           b[1] \in Jobs
    PROVE  ~Processing(e, b[1])
BY DEF Sole, Copies

(* A delivery of a new event disturbs no round and no executor.               *)
LEMMA OrderDeliver ==
    ASSUME IInv, Undisturbed, Sole, InOrder, NEW h \in Handlers, NEW j \in Jobs,
           Deliver(h, j), ~acked[j]
    PROVE  InOrder'
<1>1. /\ status[j] = "absent" /\ status' = [status EXCEPT ![j] = "paid_unfulfilled"]
      /\ pc[h] = "idle" /\ pc'[h] \in {"calling", "returning"}
      /\ \A f \in Executors \ {h} : pc'[f] = pc[f] /\ at'[f] = at[f] /\ count'[f] = count[f]
      /\ UNCHANGED <<retries, due, batch, target, attempts>>
  BY FirstDelivery DEF Sole
<1>2. status'[j] = "paid_unfulfilled" /\ \A k \in Jobs \ {j} : status'[k] = status[k]
  BY <1>1 DEF IInv, Core, TypeOK
<1>3. Copies'
  <2> SUFFICES ASSUME NEW w \in Workers, NEW b \in batch[w]
               PROVE  b[2] = retries[b[1]] /\ status'[b[1]] = "failed_retryable" /\ due[b[1]]
    BY <1>1 DEF Copies
  <2>1. b[1] \in Jobs /\ status[b[1]] = "failed_retryable"
    BY DEF IInv, Core, TypeOK, InOrder, Copies
  <2>2. b[1] # j
    BY <1>1, <2>1
  <2> QED
    BY <1>2, <2>1, <2>2 DEF InOrder, Copies
<1>4. \A e \in Executors : CountFits(e)'
  BY <1>1 DEF InOrder, CountFits
<1>5. \A k \in Jobs : Pending(k)' => Pending(k)
  BY <1>1, <1>2 DEF Pending, Resetting
<1>6. \A k \in Jobs : AttemptsFit(k)'
  BY <1>1, <1>5 DEF InOrder, AttemptsFit
<1> QED
  BY <1>3, <1>4, <1>6 DEF InOrder

(* The worker lists failed jobs that are due, with the counts it read.        *)
LEMMA OrderList ==
    ASSUME IInv, InOrder, NEW w \in Workers, List(w)
    PROVE  InOrder'
<1> DEFINE listed == {<<j, retries[j]>> : j \in {k \in Jobs : ListRetryDue(k)}}
<1>1. batch' = [batch EXCEPT ![w] = listed] /\ UNCHANGED <<row, exec, attempts>>
  BY DEF List
<1>2. \A b \in listed : b[2] = retries[b[1]] /\ status[b[1]] = "failed_retryable" /\ due[b[1]]
  BY DEF ListRetryDue
<1> HIDE DEF listed
<1>3. Copies'
  BY <1>1, <1>2 DEF InOrder, Copies, row, IInv, Core, TypeOK
<1>4. \A e \in Executors : CountFits(e)'
  BY <1>1 DEF InOrder, CountFits, row, exec
<1>5. \A j \in Jobs : AttemptsFit(j)'
  BY <1>1 DEF InOrder, AttemptsFit, Pending, Resetting, row, exec
<1> QED
  BY <1>3, <1>4, <1>5 DEF InOrder

(* The worker claims only what it listed: due, with the count it still has.   *)
LEMMA OrderClaim ==
    ASSUME IInv, OneWorker, Sole, InOrder, NEW w \in Workers, Claim(w)
    PROVE  InOrder' /\ WaitsForBackoff /\ KeepsCount
<1> USE DEF IInv, Core
<1>1. PICK b \in batch[w] :
        /\ batch' = [batch EXCEPT ![w] = @ \ {b}]
        /\ \/ /\ status' = [status EXCEPT ![b[1]] = "paid_unfulfilled"]
              /\ due' = [due EXCEPT ![b[1]] = TRUE]
              /\ StartRetry(w, b[1], b[2])
           \/ UNCHANGED <<status, due, pc, at, count, target>>
  BY DEF Claim
<1>2. /\ b[1] \in Jobs /\ b[2] = retries[b[1]] /\ status[b[1]] = "failed_retryable" /\ due[b[1]]
      /\ w \in Executors /\ pc[w] = "idle" /\ UNCHANGED <<retries, attempts>>
  BY <1>1 DEF TypeOK, Executors, Claim, InOrder, Copies
<1>3. KeepsCount
  BY <1>2 DEF KeepsCount, TypeOK
<1>4. \A v \in Workers : v = w /\ batch'[v] = batch[w] \ {b} /\ batch[w] \subseteq Jobs \X Nat
  BY <1>1 DEF OneWorker, TypeOK
<1>5. CASE UNCHANGED <<status, due, pc, at, count, target>>
  <2>1. Copies'
    BY <1>2, <1>4, <1>5 DEF InOrder, Copies
  <2>2. \A e \in Executors : CountFits(e)'
    BY <1>2, <1>5 DEF InOrder, CountFits
  <2>3. \A j \in Jobs : AttemptsFit(j)'
    BY <1>2, <1>5 DEF InOrder, AttemptsFit, Pending, Resetting
  <2>4. WaitsForBackoff
    BY <1>5 DEF WaitsForBackoff
  <2> QED
    BY <1>3, <2>1, <2>2, <2>3, <2>4 DEF InOrder
<1>6. CASE /\ status' = [status EXCEPT ![b[1]] = "paid_unfulfilled"]
           /\ due' = [due EXCEPT ![b[1]] = TRUE]
           /\ StartRetry(w, b[1], b[2])
  <2>1. /\ pc'[w] = "resetting" /\ at'[w] = b[1] /\ count'[w] = b[2]
        /\ \A f \in Executors \ {w} : /\ pc'[f] = pc[f] /\ at'[f] = at[f]
                                      /\ count'[f] = count[f] /\ target'[f] = target[f]
        /\ \A k \in Jobs \ {b[1]} : status'[k] = status[k] /\ due'[k] = due[k]
        /\ status'[b[1]] = "paid_unfulfilled"
    BY <1>2, <1>6 DEF StartRetry, Goto, TypeOK
  <2>2. Copies'
    <3> SUFFICES ASSUME NEW c \in batch[w] \ {b}
                 PROVE  /\ c[2] = retries[c[1]] /\ status'[c[1]] = "failed_retryable"
                        /\ due'[c[1]]
      BY <1>2, <1>4 DEF Copies
    <3>1. c[1] \in Jobs /\ c[2] = retries[c[1]] /\ status[c[1]] = "failed_retryable" /\ due[c[1]]
      BY <1>4 DEF InOrder, Copies
    <3>2. c = <<c[1], c[2]>> /\ b = <<b[1], b[2]>>
      BY <1>4
    <3>3. c[1] # b[1]
      BY <1>2, <3>1, <3>2
    <3> QED
      BY <2>1, <3>1, <3>3
  <2>3. \A e \in Executors : CountFits(e)'
    BY <1>2, <2>1 DEF InOrder, CountFits
  <2>4. \A k \in Jobs : Pending(k)' => Pending(k)
    BY <1>2, <2>1 DEF Pending, Resetting
  <2>5. \A j \in Jobs : AttemptsFit(j)'
    BY <1>2, <2>4 DEF InOrder, AttemptsFit
  <2>6. WaitsForBackoff
    BY <1>2, <2>1 DEF WaitsForBackoff
  <2> QED
    BY <1>3, <2>2, <2>3, <2>5, <2>6 DEF InOrder
<1> QED
  BY <1>1, <1>5, <1>6

(* What an executor writes as the retry count.                                *)
LEMMA CountWritten ==
    ASSUME IInv, Undisturbed, Sole, InOrder, NEW e \in Executors, Execute(e),
           NEW j \in Jobs, j = at[e]
    PROVE  /\ CountFits(e)' /\ AttemptsFit(j)'
           /\ retries'[j] \in Nat /\ retries'[j] >= retries[j]
<1> USE DEF IInv, Core
<1>1. j = at[e]
  OBVIOUS
<1>2. /\ retries \in [Jobs -> Nat] /\ attempts \in [Jobs -> Nat]
      /\ CountFits(e) /\ AttemptsFit(j)
  BY DEF TypeOK, InOrder
<1>3. ASSUME UNCHANGED <<retries, attempts>>, Pending(j)' => Pending(j)
      PROVE  retries'[j] \in Nat /\ retries'[j] >= retries[j] /\ AttemptsFit(j)'
  BY <1>2, <1>3 DEF AttemptsFit
<1>4. ASSUME pc'[e] \in {"calling", "applying", "returning", "idle"} PROVE CountFits(e)'
  BY <1>4 DEF CountFits
<1>5. \A f \in Executors \ {e} : pc'[f] = pc[f] /\ at'[f] = at[f]
  BY ExecuteStep
<1>6. ASSUME UNCHANGED status, pc'[e] \in {"resetting", "reset_commit"} =>
                                  pc[e] \in {"resetting", "reset_commit"} /\ at'[e] = at[e]
      PROVE  Pending(j)' => Pending(j)
  BY <1>5, <1>6 DEF Pending, Resetting
<1>7. CASE CheckTransition(e)
  <2>1. /\ UNCHANGED <<at, status, retries, attempts, count, target>>
        /\ pc[e] \in {"resetting", "recording"}
        /\ \/ pc' = [pc EXCEPT ![e] = "returning"]
           \/ pc[e] = "resetting" /\ pc' = [pc EXCEPT ![e] = "reset_commit"]
           \/ pc[e] = "recording" /\ pc' = [pc EXCEPT ![e] = "record_commit"]
    BY <1>7 DEF CheckTransition, Goto, row
  <2>2. \/ pc'[e] = "returning"
        \/ pc[e] = "resetting" /\ pc'[e] = "reset_commit"
        \/ pc[e] = "recording" /\ pc'[e] = "record_commit"
    BY <2>1 DEF TypeOK
  <2>3. CountFits(e)'
    BY <1>2, <2>1, <2>2 DEF CountFits
  <2>4. Pending(j)' => Pending(j)
    BY <1>6, <2>1, <2>2
  <2> QED
    BY <1>1, <1>3, <2>1, <2>3, <2>4
<1>8. CASE Reset(e)
  <2>1. /\ pc[e] \in {"resetting", "reset_commit"} /\ target[e] = "paid_unfulfilled"
        /\ status' = [status EXCEPT ![j] = target[e]]
        /\ retries' = [retries EXCEPT ![j] = count[e]]
        /\ attempts' = [attempts EXCEPT ![j] = @ + 1]
        /\ pc' = [pc EXCEPT ![e] = "returning"] \/ pc' = [pc EXCEPT ![e] = "calling"]
    BY <1>1, <1>8 DEF Reset, MayWrite, WriteRow, GotoStep, Goto, RetryTarget
  <2>2. pc'[e] \in {"returning", "calling"} /\ count[e] = retries[j]
    BY <1>1, <1>2, <2>1 DEF TypeOK, CountFits
  <2>3. retries'[j] = retries[j] /\ attempts'[j] = attempts[j] + 1
    BY <1>2, <2>1, <2>2
  <2>4. Pending(j)
    BY <1>1, <2>1 DEF Pending, Resetting
  <2>5. ~Pending(j)'
    <3>1. status'[j] = "paid_unfulfilled"
      BY <2>1 DEF TypeOK
    <3>2. \A f \in Executors \ {e} : ~Processing(f, j)
      BY <1>1, <2>1 DEF Sole, Processing
    <3>3. ~Resetting(j)'
      BY <1>5, <2>2, <3>2 DEF Resetting, Processing
    <3> QED
      BY <3>1, <3>3 DEF Pending
  <2>6. AttemptsFit(j)' /\ retries'[j] \in Nat /\ retries'[j] >= retries[j]
    BY <1>2, <2>3, <2>4, <2>5 DEF AttemptsFit
  <2> QED
    BY <1>1, <1>4, <2>2, <2>6
<1>9. CASE Record(e)
  <2>1. /\ pc[e] \in {"recording", "record_commit"} /\ pc'[e] = "returning"
        /\ status' = [status EXCEPT ![j] = target[e]]
        /\ retries' = [retries EXCEPT ![j] = count[e]]
        /\ attempts' = attempts
    <3>1. CASE Reset(e)
      BY <1>9, <3>1 DEF Reset, Record, MayWrite
    <3>2. CASE Finish(e)
      BY <1>9, <3>2 DEF Finish, Record, MayWrite
    <3>3. pc'[e] = "returning" \/ UNCHANGED <<status, retries, due, attempts>>
      BY <3>1, <3>2, ExecuteStep
    <3>4. pc'[e] = "returning"
      <4>1. pc[e] \in AtStep /\ step[e] \in Payload[j]
        BY <1>1, <1>9 DEF Record, MayWrite, AtStep, StepInPayload
      <4>2. FirstOf(at[e], StepsAfter(step[e])) = "none"
        BY <1>1, <4>1 DEF FirstOf, StepsAfter, Undisturbed, SingleProduct
      <4> QED
        BY <1>9, <4>2 DEF Record, GotoStep, Goto, TypeOK
    <3> QED
      BY <1>1, <1>9, <3>4 DEF Record, MayWrite, WriteRow
  <2>2. count[e] = IF target[e] = "failed_retryable" THEN retries[j] + 1 ELSE retries[j]
    BY <1>1, <1>2, <2>1 DEF CountFits
  <2>3. /\ retries'[j] = IF target[e] = "failed_retryable" THEN retries[j] + 1 ELSE retries[j]
        /\ attempts'[j] = attempts[j] /\ status'[j] = target[e]
    BY <1>2, <2>1, <2>2 DEF TypeOK
  <2>4. ~Resetting(j)'
    <3>1. \A f \in Executors \ {e} : ~Processing(f, j)
      BY <1>1, <2>1 DEF Sole, Processing
    <3> QED
      BY <1>5, <2>1, <3>1 DEF Resetting, Processing
  <2>5. AttemptsFit(j)' /\ retries'[j] \in Nat /\ retries'[j] >= retries[j]
    BY <1>2, <2>3, <2>4 DEF AttemptsFit, Pending
  <2> QED
    BY <1>1, <1>4, <2>1, <2>5
<1>10. CASE \E r \in Outcomes : Call(e, r)
  <2>1. PICK r \in Outcomes : Call(e, r)
    BY <1>10
  <2>2. step[e] \in Payload[j] /\ UNCHANGED <<at, status, retries, attempts>>
    BY <1>1, <2>1 DEF Call, StepInPayload, AtStep, row
  <2>3. ~(step[e] = "balance" /\ r = "ok" /\ "api_key" \in Payload[j])
    BY <2>2 DEF Undisturbed, SingleProduct
  <2>4. pc'[e] = "applying"
    BY <1>1, <2>1, <2>3 DEF Call, Goto, TypeOK
  <2>5. Pending(j)' => Pending(j)
    BY <1>6, <2>2, <2>4
  <2> QED
    BY <1>1, <1>3, <1>4, <2>2, <2>4, <2>5
<1>11. CASE Apply(e)
  <2>1. PICK t, n : Verdict(e, t, n) /\ n = IF t = "failed_retryable" THEN retries[j] + 1
                                            ELSE retries[j]
    BY <1>1, <1>11 DEF Apply
  <2>2. /\ pc'[e] = "recording" /\ target'[e] = t /\ count'[e] = n
        /\ UNCHANGED <<at, status, retries, attempts>>
    BY <2>1 DEF Verdict, Goto, row, TypeOK
  <2>3. CountFits(e)'
    BY <1>1, <2>1, <2>2 DEF CountFits
  <2>4. Pending(j)' => Pending(j)
    BY <1>6, <2>2
  <2> QED
    BY <1>1, <1>3, <2>2, <2>3, <2>4
<1>12. CASE Finish(e)
  <2>1. pc'[e] = "idle" /\ UNCHANGED <<status, retries, attempts>>
    BY <1>12 DEF Finish, Leave, Goto, row, TypeOK
  <2>2. Pending(j)' => Pending(j)
    BY <1>6, <2>1
  <2>3. AttemptsFit(j)' /\ retries'[j] \in Nat /\ retries'[j] >= retries[j]
    BY <1>3, <2>1, <2>2
  <2> QED
    BY <1>1, <1>4, <2>1, <2>3
<1> QED
  BY <1>7, <1>8, <1>9, <1>10, <1>11, <1>12 DEF Execute

(* An execution writes the next count, and a pause, only when it fails.       *)
LEMMA OrderExecute ==
    ASSUME IInv, Undisturbed, Sole, InOrder, NEW e \in Executors, Execute(e)
    PROVE  InOrder' /\ WaitsForBackoff /\ KeepsCount
<1> USE DEF IInv, Core
<1>1. PICK j \in Jobs : j = at[e]
  BY DEF TypeOK
<1>2. /\ \A f \in Executors \ {e} : /\ pc'[f] = pc[f] /\ at'[f] = at[f]
                                    /\ count'[f] = count[f] /\ target'[f] = target[f]
      /\ batch' = batch
      /\ \A k \in Jobs \ {j} : /\ status'[k] = status[k] /\ retries'[k] = retries[k]
                               /\ due'[k] = due[k] /\ attempts'[k] = attempts[k]
  BY <1>1, ExecuteStep
<1>3. /\ CountFits(e)' /\ AttemptsFit(j)'
      /\ retries'[j] \in Nat /\ retries'[j] >= retries[j]
  BY <1>1, CountWritten
<1>4. Processing(e, j) \/ Finish(e)
  BY <1>1, ExecuteStep DEF Processing, Busy
<1>5. \A f \in Executors \ {e} : Processing(f, j) => UNCHANGED <<status, retries, due>>
  BY <1>4 DEF Sole, Finish, row
<1>6. status[j] = "failed_retryable" => UNCHANGED <<status, retries, due>>
  BY <1>4 DEF Sole, Finish, row
<1>7. Copies'
  <2> SUFFICES ASSUME NEW w \in Workers, NEW b \in batch[w]
               PROVE  /\ b[2] = retries'[b[1]] /\ status'[b[1]] = "failed_retryable"
                      /\ due'[b[1]]
    BY <1>2 DEF Copies
  <2>1. /\ b[1] \in Jobs /\ b[2] = retries[b[1]] /\ status[b[1]] = "failed_retryable"
        /\ due[b[1]]
    BY DEF TypeOK, InOrder, Copies
  <2> QED
    BY <1>2, <1>6, <2>1
<1>8. \A f \in Executors : CountFits(f)'
  <2> SUFFICES ASSUME NEW f \in Executors \ {e} PROVE CountFits(f)'
    BY <1>3
  <2>1. CountFits(f) /\ at[f] \in Jobs
    BY DEF InOrder, TypeOK
  <2>2. CASE pc[f] \in Busy
    <3>1. retries'[at[f]] = retries[at[f]]
      BY <1>2, <1>5, <2>1, <2>2 DEF Processing, Busy
    <3> QED
      BY <1>2, <2>1, <3>1 DEF CountFits
  <2>3. CASE pc[f] \notin Busy
    BY <1>2, <2>3 DEF CountFits, Busy
  <2> QED
    BY <2>2, <2>3
<1>9. ASSUME NEW k \in Jobs \ {j} PROVE AttemptsFit(k)'
  <2>1. Resetting(k)' => Resetting(k)
    <3>1. pc'[e] \in {"resetting", "reset_commit"} => at'[e] = j
      BY <1>1, ExecuteStep DEF Finish, Leave, Goto, TypeOK
    <3> QED
      BY <1>2, <3>1 DEF Resetting
  <2>2. Pending(k)' => Pending(k)
    BY <1>2, <2>1 DEF Pending
  <2> QED
    BY <1>2, <2>2 DEF InOrder, AttemptsFit
<1>10. KeepsCount
  BY <1>2, <1>3 DEF KeepsCount, TypeOK
<1>11. WaitsForBackoff
  BY <1>2, <1>6 DEF WaitsForBackoff
<1> QED
  BY <1>3, <1>7, <1>8, <1>9, <1>10, <1>11 DEF InOrder

(* Every step keeps the order of the retries, waits and counts.               *)
LEMMA OrderNext ==
    ASSUME IInv, Undisturbed, OneWorker, Sole, InOrder, [Next]_vars
    PROVE  InOrder' /\ WaitsForBackoff /\ KeepsCount
<1> USE DEF IInv, Core
<1>1. ASSUME NEW h \in Handlers, NEW j \in Jobs, Deliver(h, j), ~acked[j]
      PROVE  InOrder' /\ WaitsForBackoff /\ KeepsCount
  <2>1. status[j] = "absent" /\ status' = [status EXCEPT ![j] = "paid_unfulfilled"] /\ retries' = retries
    BY <1>1, FirstDelivery DEF Sole
  <2>2. WaitsForBackoff /\ KeepsCount
    BY <2>1 DEF WaitsForBackoff, KeepsCount, TypeOK
  <2> QED
    BY <1>1, <2>2, OrderDeliver
<1>2. ASSUME NEW w \in Workers, List(w)
      PROVE  InOrder' /\ WaitsForBackoff /\ KeepsCount
  <2>1. WaitsForBackoff /\ KeepsCount
    BY <1>2 DEF List, row, WaitsForBackoff, KeepsCount, TypeOK
  <2> QED
    BY <1>2, <2>1, OrderList
<1>3. ASSUME NEW j \in Jobs, BackoffElapses(j)
      PROVE  InOrder' /\ WaitsForBackoff /\ KeepsCount
  <2>1. /\ UNCHANGED <<status, retries, batch, exec, attempts>>
        /\ due' = [due EXCEPT ![j] = TRUE]
    BY <1>3 DEF BackoffElapses
  <2>2. Copies'
    <3>1. \A k \in Jobs : due[k] => due'[k]
      BY <2>1 DEF TypeOK
    <3>2. \A w \in Workers : \A b \in batch[w] : b[1] \in Jobs
      BY DEF TypeOK
    <3> QED
      BY <2>1, <3>1, <3>2 DEF InOrder, Copies
  <2>3. \A e \in Executors : CountFits(e)'
    BY <2>1 DEF InOrder, CountFits, exec
  <2>4. \A k \in Jobs : AttemptsFit(k)'
    BY <2>1 DEF InOrder, AttemptsFit, Pending, Resetting, exec
  <2>5. WaitsForBackoff /\ KeepsCount
    BY <2>1 DEF WaitsForBackoff, KeepsCount, TypeOK
  <2> QED
    BY <2>2, <2>3, <2>4, <2>5 DEF InOrder
<1>4. CASE UNCHANGED vars
  <2>1. UNCHANGED <<status, retries, due, batch, pc, at, count, target, attempts>>
    BY <1>4 DEF vars, row, exec
  <2>2. Copies' /\ \A e \in Executors : CountFits(e)'
    BY <2>1 DEF InOrder, Copies, CountFits
  <2>3. \A k \in Jobs : AttemptsFit(k)'
    BY <2>1 DEF InOrder, AttemptsFit, Pending, Resetting
  <2>4. WaitsForBackoff /\ KeepsCount
    BY <2>1 DEF WaitsForBackoff, KeepsCount, TypeOK
  <2> QED
    BY <2>2, <2>3, <2>4 DEF InOrder
<1> QED
  BY <1>1, <1>2, <1>3, <1>4, QuietStep, OrderClaim, OrderExecute

(* A single worker, undisturbed, retries in order: a job at most MaxRetries   *)
(* times, each time only once its backoff has elapsed, and the retry count    *)
(* that the row keeps never goes back, whatever copy it is computed from.     *)
THEOREM OneWorkerRetriesInOrder ==
    ASSUME Undisturbed, OneWorker
    PROVE  Spec => []RetriesBounded /\ BackoffRespected /\ RetryCountGrows
<1>1. IInv /\ InOrder => RetriesBounded
  <2> SUFFICES ASSUME IInv, InOrder, NEW j \in Jobs PROVE attempts[j] <= MaxRetries
    BY DEF RetriesBounded
  <2>1. /\ attempts[j] \in Nat /\ retries[j] \in Nat /\ retries[j] <= MaxRetries
        /\ attempts[j] <= retries[j] /\ MaxRetries \in Nat
    BY FulfillmentAssumption DEF IInv, Core, TypeOK, CountsBounded, InOrder, AttemptsFit
  <2> QED
    BY <2>1
<1>2. Init => IInv /\ Sole /\ InOrder
  <2> SUFFICES ASSUME Init PROVE Sole /\ InOrder
    BY InvInit
  <2>1. Sole
    BY DEF Init, Sole, Answered, Processing
  <2>2. Copies /\ \A e \in Executors : CountFits(e)
    BY DEF Init, Copies, CountFits
  <2>3. \A j \in Jobs : AttemptsFit(j)
    BY DEF Init, AttemptsFit, Pending, Resetting
  <2> QED
    BY <2>1, <2>2, <2>3 DEF InOrder
<1>3. IInv /\ Sole /\ InOrder /\ [Next]_vars => IInv' /\ Sole' /\ InOrder'
  BY InvNext, SoleNext, OrderNext
<1>4. IInv /\ Sole /\ InOrder /\ [Next]_vars => [WaitsForBackoff]_vars /\ [KeepsCount]_vars
  BY OrderNext
<1> QED
  BY <1>1, <1>2, <1>3, <1>4, PTL DEF Spec, BackoffRespected, RetryCountGrows
=============================================================================
