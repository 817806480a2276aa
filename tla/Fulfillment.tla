----------------------------- MODULE Fulfillment -----------------------------
(* Payment fulfillment: the als_fulfillment_jobs table, the state machine     *)
(* fulfillment.Service keeps on it, and everybody who drives a job through    *)
(* it at the same time: the payment notice (Stripe webhook or admin post),    *)
(* the background retry workers of the running instances, the customer's      *)
(* checkout-status poll and the admin replay.                                 *)
(*                                                                            *)
(* A transaction of the store is one step when SerialTx (SQLite, which lets   *)
(* one writer in at a time); with SerialTx = FALSE (PostgreSQL at its default *)
(* READ COMMITTED) TransitionJob reads the status in one step and writes the  *)
(* row in a later one.  Time is abstracted to one bit per job: due says that  *)
(* available_at has passed.                                                   *)
EXTENDS Integers, FiniteSets

CONSTANTS
    Jobs,         \* payment events, one fulfillment job each
    Workers,      \* retry worker goroutines, one per running instance
    Handlers,     \* HTTP request goroutines
    Payload,      \* what each payment asks for: a set of steps per job
    Callers,      \* which request kinds this instance of the model receives
    MaxRetries,   \* Service.maxRetries
    SerialTx,     \* does the store run a read-then-write transaction alone?
    MaxRequests,  \* bound: requests received
    MaxFaults,    \* bound: crashes, cancelled contexts and store errors
    MaxFlaky,     \* bound: retryable upstream answers
    AttemptCap    \* bound: retries started per job

StepKinds == {"balance", "api_key", "package"}
CallerKinds == {"repost", "poll", "replay"}
Statuses == {"paid_unfulfilled", "fulfilled", "failed_retryable", "failed_terminal"}
Outcomes == {"ok", "retryable", "terminal"}
Final == {"fulfilled", "failed_terminal"}
Executors == Workers \union Handlers
AnyJob == CHOOSE j \in Jobs : TRUE

ASSUME FulfillmentAssumption ==
    /\ Jobs # {}
    /\ Workers \intersect Handlers = {}
    /\ Payload \in [Jobs -> SUBSET StepKinds]
    /\ Callers \subseteq CallerKinds
    /\ MaxRetries \in Nat \ {0}
    /\ SerialTx \in BOOLEAN
    /\ {MaxRequests, MaxFaults, MaxFlaky, AttemptCap} \subseteq Nat

VARIABLES
    \* the row of each job
    status, retries, due,
    \* the notice was answered 2xx and its payment record names the job
    acked,
    \* <<job, step>> pairs that took effect upstream, one per Idempotency-Key
    granted,
    \* per worker, what ListRetryDueJobs returned and is still to be claimed
    batch,
    \* per executor: where it is, its job and step, the retry count it holds in
    \* memory, the answer of its last call, the status it is about to write, and
    \* whether it is serving a payment notice
    pc, at, step, count, outcome, target, notice,
    \* history: retries started per job; and the bounds' counters
    attempts, requests, faults, flaky

row == <<status, retries, due>>
exec == <<pc, at, step, count, outcome, target, notice>>
bounds == <<requests, faults, flaky>>
vars == <<row, acked, granted, batch, exec, attempts, bounds>>

PCs == {"idle", "resetting", "reset_commit", "calling", "applying",
        "recording", "record_commit", "returning"}

TypeOK ==
    /\ status \in [Jobs -> Statuses \union {"absent"}]
    /\ retries \in [Jobs -> Nat]
    /\ due \in [Jobs -> BOOLEAN]
    /\ acked \in [Jobs -> BOOLEAN]
    /\ granted \in SUBSET (Jobs \X StepKinds)
    /\ batch \in [Workers -> SUBSET (Jobs \X Nat)]
    /\ pc \in [Executors -> PCs]
    /\ at \in [Executors -> Jobs]
    /\ step \in [Executors -> StepKinds \union {"none"}]
    /\ count \in [Executors -> Nat]
    /\ outcome \in [Executors -> Outcomes]
    /\ target \in [Executors -> Statuses]
    /\ notice \in [Executors -> BOOLEAN]
    /\ attempts \in [Jobs -> Nat]
    /\ requests \in Nat
    /\ faults \in Nat
    /\ flaky \in Nat

Init ==
    /\ status = [j \in Jobs |-> "absent"]
    /\ retries = [j \in Jobs |-> 0]
    /\ due = [j \in Jobs |-> TRUE]
    /\ acked = [j \in Jobs |-> FALSE]
    /\ granted = {}
    /\ batch = [w \in Workers |-> {}]
    /\ pc = [e \in Executors |-> "idle"]
    /\ at = [e \in Executors |-> AnyJob]
    /\ step = [e \in Executors |-> "none"]
    /\ count = [e \in Executors |-> 0]
    /\ outcome = [e \in Executors |-> "ok"]
    /\ target = [e \in Executors |-> "paid_unfulfilled"]
    /\ notice = [e \in Executors |-> FALSE]
    /\ attempts = [j \in Jobs |-> 0]
    /\ requests = 0
    /\ faults = 0
    /\ flaky = 0

-----------------------------------------------------------------------------
(* The status machine and the order of the steps *)

(* Variant for checking: every transition to paid_unfulfilled is let through. *)
canTransition_Reopens(from, to) ==
    from = to \/ to = "paid_unfulfilled" \/ from \notin Final

canTransition(from, to) ==
    \/ from = to
    \/ from = "paid_unfulfilled" /\ to \in {"fulfilled", "failed_retryable", "failed_terminal"}
    \/ from = "failed_retryable" /\ to \in {"paid_unfulfilled", "failed_terminal", "fulfilled"}

(* The first of the given steps the payment asks for: recharge, key, package. *)
FirstOf(j, steps) ==
    LET wanted == Payload[j] \intersect steps
    IN  IF "balance" \in wanted THEN "balance"
        ELSE IF "api_key" \in wanted THEN "api_key"
        ELSE IF "package" \in wanted THEN "package"
        ELSE "none"

StepsAfter(s) ==
    CASE s = "balance" -> {"api_key", "package"}
      [] s = "api_key" -> {"package"}
      [] OTHER -> {}

(* An executor goes to place p, leaving the other executors where they are. *)
Goto(e, p) == pc' = [pc EXCEPT ![e] = p]

(* executePaymentSuccessFulfillment, entered with steps still to run. *)
GotoStep(e, j, steps) ==
    /\ step' = [step EXCEPT ![e] = FirstOf(j, steps)]
    /\ Goto(e, IF FirstOf(j, steps) = "none" THEN "returning" ELSE "calling")

(* The UPDATE of TransitionJob: the row is found by id alone, and the retry   *)
(* count is the one the caller supplies.                                      *)
WriteRow(e) ==
    LET j == at[e] IN
    /\ status' = [status EXCEPT ![j] = target[e]]
    /\ retries' = [retries EXCEPT ![j] = count[e]]
    /\ due' = [due EXCEPT ![j] = target[e] # "failed_retryable"]

(* Variants for checking: the backoff is forgotten; the last retry is lost.   *)
ListRetryDue_Eager(j) == status[j] = "failed_retryable" /\ retries[j] < MaxRetries

ListRetryDue_OneShort(j) ==
    status[j] = "failed_retryable" /\ due[j] /\ retries[j] + 1 < MaxRetries

(* ListRetryDueJobs, for one job.                                             *)
ListRetryDue(j) ==
    /\ status[j] = "failed_retryable"
    /\ due[j]
    /\ retries[j] < MaxRetries

-----------------------------------------------------------------------------
(* Who starts an executor *)

(* CreateOrLoadJobByIdempotency inserts the job of a payment or loads it, in  *)
(* one transaction, whoever gets there first.                                 *)
CreateOrLoadJob(j) ==
    status' = [status EXCEPT ![j] = IF @ = "absent" THEN "paid_unfulfilled" ELSE @]

(* A payment notice reaches handler h, and execution starts unless the job is *)
(* final.  Stripe redelivers until it is answered 2xx; "repost" is an admin   *)
(* posting an answered notice again under the same Idempotency-Key.           *)
Deliver(h, j) ==
    /\ pc[h] = "idle"
    /\ requests < MaxRequests
    /\ ~acked[j] \/ "repost" \in Callers
    /\ requests' = requests + 1
    /\ CreateOrLoadJob(j)
    /\ at' = [at EXCEPT ![h] = j]
    /\ count' = [count EXCEPT ![h] = retries[j]]
    /\ notice' = [notice EXCEPT ![h] = TRUE]
    /\ GotoStep(h, j, IF status[j] \in Final THEN {} ELSE StepKinds)
    /\ UNCHANGED <<retries, due, acked, granted, batch, outcome, target,
                   attempts, faults, flaky>>

(* An executor enters retryPaymentFulfillmentJob with the copy of job j it    *)
(* read earlier, when the retry count was n.                                  *)
StartRetry(e, j, n) ==
    /\ attempts[j] < AttemptCap
    /\ at' = [at EXCEPT ![e] = j]
    /\ count' = [count EXCEPT ![e] = n]
    /\ target' = [target EXCEPT ![e] = "paid_unfulfilled"]
    /\ Goto(e, "resetting")

(* The customer polls the checkout status.  The job is found through the      *)
(* payment record, and retried when its backoff has elapsed.                  *)
Poll(h, j) ==
    /\ "poll" \in Callers
    /\ requests < MaxRequests
    /\ pc[h] = "idle"
    /\ acked[j]
    /\ status[j] = "failed_retryable"
    /\ due[j]
    /\ requests' = requests + 1
    /\ StartRetry(h, j, retries[j])
    /\ UNCHANGED <<row, acked, granted, batch, step, outcome, notice,
                   attempts, faults, flaky>>

(* An admin replays a retryable job, whatever its backoff.                    *)
Replay(h, j) ==
    /\ "replay" \in Callers
    /\ requests < MaxRequests
    /\ pc[h] = "idle"
    /\ status[j] = "failed_retryable"
    /\ requests' = requests + 1
    /\ StartRetry(h, j, retries[j])
    /\ UNCHANGED <<row, acked, granted, batch, step, outcome, notice,
                   attempts, faults, flaky>>

(* Worker.runOnce lists the due jobs: the whole batch is read at once and     *)
(* worked off later, one job after the other.                                 *)
List(w) ==
    /\ pc[w] = "idle"
    /\ batch[w] = {}
    /\ \E j \in Jobs : ListRetryDue(j)
    /\ batch' = [batch EXCEPT ![w] = {<<j, retries[j]>> : j \in {k \in Jobs : ListRetryDue(k)}}]
    /\ UNCHANGED <<row, acked, granted, exec, attempts, bounds>>

(* Variant for checking: the claim takes any job that is not final.           *)
ClaimWins_Unfinished(j) == status[j] \notin Final

(* ClaimRetryableJob is one UPDATE guarded by the status alone.               *)
ClaimWins(j) == status[j] = "failed_retryable"

(* Worker.runOnce takes the next job of its batch and claims it; the copy     *)
(* handed to process is the one the list read.  A lost claim is skipped.      *)
Claim(w) ==
    /\ pc[w] = "idle"
    /\ \E b \in batch[w] :
        LET j == b[1] IN
        /\ batch' = [batch EXCEPT ![w] = @ \ {b}]
        /\ \/ /\ ClaimWins(j)
              /\ status' = [status EXCEPT ![j] = "paid_unfulfilled"]
              /\ due' = [due EXCEPT ![j] = TRUE]
              /\ StartRetry(w, j, b[2])
           \/ /\ ~ClaimWins(j)
              /\ UNCHANGED <<status, due, pc, at, count, target>>
    /\ UNCHANGED <<retries, acked, granted, step, outcome, notice, attempts, bounds>>

-----------------------------------------------------------------------------
(* What an executor does *)

(* TransitionJob reads the status and rejects an illegal transition, which    *)
(* ends the execution.  Without SerialTx the UPDATE is a later step.          *)
Allowed(e) == canTransition(status[at[e]], target[e])

CheckTransition(e) ==
    /\ pc[e] \in {"resetting", "recording"}
    /\ \/ ~Allowed(e) /\ Goto(e, "returning")
       \/ /\ Allowed(e)
          /\ ~SerialTx
          /\ Goto(e, IF pc[e] = "resetting" THEN "reset_commit" ELSE "record_commit")
    /\ UNCHANGED <<row, acked, granted, batch, at, step, count, outcome, target,
                   notice, attempts, bounds>>

MayWrite(e, checking, checked) ==
    \/ pc[e] = checked
    \/ pc[e] = checking /\ SerialTx /\ Allowed(e)

(* Variant for checking: the reset leaves out the retry count, which then is  *)
(* written as 0.                                                              *)
Reset_ForgetsCount(e) ==
    /\ MayWrite(e, "resetting", "reset_commit")
    /\ status' = [status EXCEPT ![at[e]] = target[e]]
    /\ retries' = [retries EXCEPT ![at[e]] = 0]
    /\ due' = [due EXCEPT ![at[e]] = TRUE]
    /\ GotoStep(e, at[e], StepKinds)
    /\ attempts' = [attempts EXCEPT ![at[e]] = @ + 1]
    /\ UNCHANGED <<acked, granted, batch, at, count, outcome, target, notice, bounds>>

(* The retry is on record: the steps run from the first one again.            *)
Reset(e) ==
    /\ MayWrite(e, "resetting", "reset_commit")
    /\ WriteRow(e)
    /\ GotoStep(e, at[e], StepKinds)
    /\ attempts' = [attempts EXCEPT ![at[e]] = @ + 1]
    /\ UNCHANGED <<acked, granted, batch, at, count, outcome, target, notice, bounds>>

(* A step's result is on record: the next step runs, also after a failure     *)
(* (the step returns nil once its result is recorded).                        *)
Record(e) ==
    /\ MayWrite(e, "recording", "record_commit")
    /\ WriteRow(e)
    /\ GotoStep(e, at[e], StepsAfter(step[e]))
    /\ UNCHANGED <<acked, granted, batch, at, count, outcome, target, notice,
                   attempts, bounds>>

(* The upstream call of a step, under the step's own Idempotency-Key: it      *)
(* succeeds, answers with something retryable (a 5xx, or an idempotency       *)
(* answer that asks for patience), or fails for good (a timeout included).  A *)
(* call that fails may still have taken effect: a lost answer, or a later     *)
(* part of a package grant failing.  A recharge that succeeds before a key is *)
(* due is recorded at once, with the retry count held in memory.              *)
Call(e, result) ==
    /\ pc[e] = "calling"
    /\ result = "retryable" => flaky < MaxFlaky
    /\ flaky' = IF result = "retryable" THEN flaky + 1 ELSE flaky
    /\ outcome' = [outcome EXCEPT ![e] = result]
    /\ \/ granted' = granted \union {<<at[e], step[e]>>}
       \/ result # "ok" /\ UNCHANGED granted
    /\ IF step[e] = "balance" /\ result = "ok" /\ "api_key" \in Payload[at[e]]
          THEN target' = [target EXCEPT ![e] = "paid_unfulfilled"] /\ Goto(e, "recording")
          ELSE Goto(e, "applying") /\ UNCHANGED target
    /\ UNCHANGED <<row, acked, batch, at, step, count, notice, attempts, requests, faults>>

(* What an executor writes after its step, from its copy n of the retry count. *)
Verdict(e, to, n) ==
    /\ pc[e] = "applying"
    /\ target' = [target EXCEPT ![e] = to]
    /\ count' = [count EXCEPT ![e] = n]
    /\ Goto(e, "recording")
    /\ UNCHANGED <<row, acked, granted, batch, at, step, outcome, notice, attempts, bounds>>

(* Variants for checking: a success gives its retry back; the budget is       *)
(* compared before the increment; an exhausted budget counts as done.         *)
Apply_Refund(e) ==
    LET n == retries[at[e]] IN
    CASE outcome[e] = "ok" -> Verdict(e, "fulfilled", n - 1)
      [] outcome[e] = "retryable" /\ n + 1 <= MaxRetries -> Verdict(e, "failed_retryable", n + 1)
      [] OTHER -> Verdict(e, "failed_terminal", n)

Apply_OneMore(e) ==
    LET n == retries[at[e]] IN
    CASE outcome[e] = "ok" -> Verdict(e, "fulfilled", n)
      [] outcome[e] = "retryable" /\ n <= MaxRetries -> Verdict(e, "failed_retryable", n + 1)
      [] OTHER -> Verdict(e, "failed_terminal", n)

Apply_ExhaustedIsDone(e) ==
    LET n == retries[at[e]] IN
    CASE outcome[e] = "retryable" /\ n + 1 <= MaxRetries -> Verdict(e, "failed_retryable", n + 1)
      [] outcome[e] = "terminal" -> Verdict(e, "failed_terminal", n)
      [] OTHER -> Verdict(e, "fulfilled", n)

(* applyProxyResult reads the job outside the transaction that will write it  *)
(* and computes the next status and retry count from that copy.               *)
Apply(e) ==
    LET n == retries[at[e]] IN
    CASE outcome[e] = "ok" -> Verdict(e, "fulfilled", n)
      [] outcome[e] = "retryable" /\ n + 1 <= MaxRetries -> Verdict(e, "failed_retryable", n + 1)
      [] OTHER -> Verdict(e, "failed_terminal", n)

(* The executor's locals go out of scope.                                     *)
Leave(e) ==
    /\ Goto(e, "idle")
    /\ at' = [at EXCEPT ![e] = AnyJob]
    /\ step' = [step EXCEPT ![e] = "none"]
    /\ count' = [count EXCEPT ![e] = 0]
    /\ outcome' = [outcome EXCEPT ![e] = "ok"]
    /\ target' = [target EXCEPT ![e] = "paid_unfulfilled"]
    /\ notice' = [notice EXCEPT ![e] = FALSE]

(* The handler answers; for a notice markCheckoutSessionCompleted has then    *)
(* linked the payment record to the job.  A worker goes on with its batch.    *)
Finish(e) ==
    /\ pc[e] = "returning"
    /\ acked' = IF notice[e] THEN [acked EXCEPT ![at[e]] = TRUE] ELSE acked
    /\ Leave(e)
    /\ UNCHANGED <<row, granted, batch, attempts, bounds>>

-----------------------------------------------------------------------------
(* Time and failures *)

BackoffElapses(j) ==
    /\ status[j] = "failed_retryable"
    /\ ~due[j]
    /\ due' = [due EXCEPT ![j] = TRUE]
    /\ UNCHANGED <<status, retries, acked, granted, batch, exec, attempts, bounds>>

(* The process stops, or the request context is cancelled (the customer       *)
(* closes the page): nothing more is written and no 2xx is sent.              *)
Abort(e) ==
    /\ faults < MaxFaults
    /\ pc[e] # "idle" \/ (e \in Workers /\ batch[e] # {})
    /\ faults' = faults + 1
    /\ Leave(e)
    /\ batch' = IF e \in Workers THEN [batch EXCEPT ![e] = {}] ELSE batch
    /\ UNCHANGED <<row, acked, granted, attempts, requests, flaky>>

(* A read or a transaction of the store fails and is rolled back: the error   *)
(* ends the execution, and the handler still answers with the job it re-reads.*)
StoreError(e) ==
    /\ faults < MaxFaults
    /\ pc[e] \in {"resetting", "reset_commit", "applying", "recording", "record_commit"}
    /\ faults' = faults + 1
    /\ Goto(e, "returning")
    /\ UNCHANGED <<row, acked, granted, batch, at, step, count, outcome, target,
                   notice, attempts, requests, flaky>>

-----------------------------------------------------------------------------
Initiate(h) == \E j \in Jobs : Deliver(h, j) \/ Poll(h, j) \/ Replay(h, j)

Execute(e) ==
    \/ CheckTransition(e)
    \/ Reset(e)
    \/ \E result \in Outcomes : Call(e, result)
    \/ Apply(e)
    \/ Record(e)
    \/ Finish(e)

Next ==
    \/ \E h \in Handlers : Initiate(h)
    \/ \E w \in Workers : List(w) \/ Claim(w)
    \/ \E e \in Executors : Execute(e) \/ Abort(e) \/ StoreError(e)
    \/ \E j \in Jobs : BackoffElapses(j)

Spec == Init /\ [][Next]_vars

(* The goroutines run, the ticker ticks, time passes, and Stripe redelivers a *)
(* notice that was not answered 2xx.  Nobody has to poll or replay.           *)
Fairness ==
    /\ \A e \in Executors : WF_vars(Execute(e))
    /\ \A w \in Workers : WF_vars(List(w) \/ Claim(w))
    /\ \A j \in Jobs : WF_vars(BackoffElapses(j))
    /\ \A j \in Jobs : WF_vars(~acked[j] /\ \E h \in Handlers : Deliver(h, j))

FairSpec == Spec /\ Fairness

-----------------------------------------------------------------------------
(* Properties *)

Processing(e, j) == pc[e] \notin {"idle", "returning"} /\ at[e] = j

(* The persisted retry count never exceeds the budget, however stale the copy *)
(* an executor computes it from (applyProxyResult, TransitionJob).            *)
RetryCountWithinBudget == \A j \in Jobs : retries[j] <= MaxRetries

(* A job recorded fulfilled was granted upstream: some step of its payload    *)
(* took effect, although the row is written two reads after the call.         *)
FulfilledWasGranted ==
    \A j \in Jobs : status[j] = "fulfilled" => \E s \in Payload[j] : <<j, s>> \in granted

(* fulfilled and failed_terminal are the end: no late failure of a concurrent *)
(* executor, redelivery or replay reopens such a job or turns one into the    *)
(* other (TransitionJob's check against canTransition).                       *)
FinalIsFinal ==
    [][\A j \in Jobs : status[j] \in Final => status'[j] = status[j]]_vars

(* Two executors never work on one job at the same time (the claim CAS).      *)
SingleExecutor ==
    \A j \in Jobs : Cardinality({e \in Executors : Processing(e, j)}) <= 1

(* A retry starts only after the backoff the upstream asked for.              *)
WaitsForBackoff ==
    \A j \in Jobs : status[j] = "failed_retryable" /\ status'[j] = "paid_unfulfilled" => due[j]
BackoffRespected == [][WaitsForBackoff]_vars

(* The persisted retry count only grows: no stale copy overwrites it.         *)
KeepsCount == \A j \in Jobs : retries'[j] >= retries[j]
RetryCountGrows == [][KeepsCount]_vars

(* A job is retried at most MaxRetries times.                                 *)
RetriesBounded == \A j \in Jobs : attempts[j] <= MaxRetries

(* Every paid job with something to grant settles, one way or the other.      *)
EverySettles == \A j \in Jobs : Payload[j] # {} => <>(status[j] \in Final)

(* A job that fails retryably is retried until it settles.                    *)
RetryableSettles ==
    \A j \in Jobs : status[j] = "failed_retryable" ~> status[j] \in Final

(* What a job's status promises the customer; the promise is PaymentPromise.  *)
PhaseOf(s) ==
    CASE s = "absent" -> "none"
      [] s = "fulfilled" -> "delivered"
      [] s = "failed_terminal" -> "abandoned"
      [] OTHER -> "owed"

Promise == INSTANCE PaymentPromise
    WITH Products <- StepKinds, phase <- [j \in Jobs |-> PhaseOf(status[j])]

(* However deliveries, retries and failures interleave, the customer sees a   *)
(* debt that is settled once: delivered only when the product was granted,    *)
(* or abandoned for good.                                                     *)
PromiseKept == Promise!Spec

-----------------------------------------------------------------------------
(* The inductive invariant behind the safety properties *)

(* Every copy of a retry count, in the row, in a batch or in memory.          *)
CountsBounded ==
    /\ \A j \in Jobs : retries[j] <= MaxRetries
    /\ \A e \in Executors : count[e] <= MaxRetries
    /\ \A w \in Workers : \A b \in batch[w] : b[2] <= MaxRetries

AtStep == {"calling", "applying", "recording", "record_commit"}

StepInPayload ==
    \A e \in Executors : pc[e] \in AtStep => step[e] \in Payload[at[e]]

RetryTarget ==
    \A e \in Executors :
        pc[e] \in {"resetting", "reset_commit"} => target[e] = "paid_unfulfilled"

(* Who is about to record a success has seen the upstream grant it.           *)
GrantPrecedesRecord ==
    \A e \in Executors :
        \/ pc[e] = "applying" /\ outcome[e] = "ok"
        \/ pc[e] \in {"recording", "record_commit"} /\ target[e] = "fulfilled"
        => <<at[e], step[e]>> \in granted

(* Nobody works on a job that has no row.                                     *)
RowsExist ==
    /\ \A e \in Executors : pc[e] # "idle" => status[at[e]] # "absent"
    /\ \A w \in Workers : \A b \in batch[w] : status[b[1]] # "absent"

(* A store that serialises transactions never stops between check and UPDATE. *)
NoSplitTransaction ==
    SerialTx => \A e \in Executors : pc[e] \notin {"reset_commit", "record_commit"}

Core ==
    /\ TypeOK
    /\ CountsBounded
    /\ StepInPayload
    /\ RetryTarget
    /\ GrantPrecedesRecord
    /\ RowsExist
    /\ FulfilledWasGranted

IInv == Core /\ NoSplitTransaction
=============================================================================
