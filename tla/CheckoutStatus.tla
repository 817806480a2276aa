--------------------------- MODULE CheckoutStatus ---------------------------
(* The page a customer comes back to from Stripe. It asks the backend every   *)
(* few seconds what has become of the payment, while Stripe's event, the      *)
(* worker, an administrator and the polls themselves execute the fulfillment  *)
(* job, several at once if they happen to. Fulfillment has an execution in    *)
(* detail; here it is one step that ends, with its outcome recorded or not,   *)
(* and the store serialises its transactions.                                 *)
EXTENDS Naturals

CONSTANTS
    MaxRetries,   \* the retry budget of the job
    MaxErrors     \* bound: store errors in the webhook

CheckoutAssumption == {MaxRetries, MaxErrors} \subseteq Nat

VARIABLES
    ckJob,        \* the job's status
    ckRetries,    \* its retry_count
    ckDue,        \* its available_at has passed
    ckOther,      \* a retrier before its reset: "idle", "listed" or "resetting"; bound: one at a time
    ckHeld,       \* the retry_count it has read
    ckRunning,    \* executions of the worker, of a replay, and of polls nobody waits for
    ckEvent,      \* Stripe's event: "none", "due", "executing", "executed", "done"
    ckLinked,     \* the payment record names the job
    ckErrors,     \* store errors so far
    ckUrl,        \* the address the page is open at: "none", "paid", "cancelled", "bare"
    ckPoll,       \* its polling: "off", "never", "calling", "pausing", "stopped"
    ckCall,       \* its request: "none", "sent", "looked", "executing", "executed", or the answer
    ckSeen,       \* the retry_count the request has read
    ckShown,      \* payload.status
    ckError,      \* the page shows an error
    ckLoading,    \* isLoading
    ckTimer       \* the timer of twenty-five seconds: "off", "set", "fired"

jobVars  == <<ckJob, ckRetries, ckDue>>
runVars  == <<ckOther, ckHeld, ckRunning>>
hookVars == <<ckEvent, ckLinked, ckErrors>>
callVars == <<ckCall, ckSeen>>
pageVars == <<ckUrl, ckPoll, ckShown, ckError, ckLoading, ckTimer>>
checkoutVars == <<jobVars, runVars, hookVars, callVars, pageVars>>

Settled == {"fulfilled", "failed_terminal"}
Final   == {"fulfilled", "failed"}
Answers == Final \cup {"pending", "processing", "retrying", "error"}

Init ==
    /\ ckJob = "none" /\ ckRetries = 0 /\ ckDue = TRUE
    /\ ckOther = "idle" /\ ckHeld = 0 /\ ckRunning = 0
    /\ ckEvent = "none" /\ ckLinked = FALSE /\ ckErrors = 0
    /\ ckCall = "none" /\ ckSeen = 0
    /\ ckUrl = "none" /\ ckPoll = "off"
    /\ ckShown = "none" /\ ckError = FALSE /\ ckLoading = TRUE /\ ckTimer = "off"

-----------------------------------------------------------------------------
(* The job.                                                                   *)

(* Variants for checking: every transition is allowed; one retry more.        *)
canTransition_Any(from, to) == TRUE
Verdict_OneMore(result) ==
    CASE result = "ok" -> "fulfilled"
      [] result = "retryable" /\ ckRetries <= MaxRetries -> "failed_retryable"
      [] OTHER -> "failed_terminal"

\* A settled job stays as it is: a later verdict, or a reset, is rejected.
canTransition(from, to) == from \notin Settled \/ from = to

\* Whoever retries the job makes it paid_unfulfilled, with the retry_count of the copy it
\* has read before; the job may have moved on meanwhile.
Resettable == canTransition(ckJob, "paid_unfulfilled")
Reset(count) == ckJob' = "paid_unfulfilled" /\ ckRetries' = count /\ ckDue' = TRUE

\* The worker lists what is due and has not used up its budget.
WorkerLists ==
    /\ ckOther = "idle" /\ ckJob = "failed_retryable" /\ ckDue /\ ckRetries < MaxRetries
    /\ ckOther' = "listed" /\ ckHeld' = ckRetries
    /\ UNCHANGED <<jobVars, ckRunning, hookVars, callVars, pageVars>>

\* It claims the job, unless another was faster.
WorkerClaims ==
    /\ ckOther = "listed"
    /\ IF ckJob = "failed_retryable"
         THEN /\ Reset(ckRetries)
              /\ ckOther' = "resetting" /\ UNCHANGED ckHeld
         ELSE /\ ckOther' = "idle" /\ ckHeld' = 0
              /\ UNCHANGED jobVars
    /\ UNCHANGED <<ckRunning, hookVars, callVars, pageVars>>

\* handleAdminReplayFulfillmentJob, due or not.
AdminLooks ==
    /\ ckOther = "idle" /\ ckJob = "failed_retryable"
    /\ ckOther' = "resetting" /\ ckHeld' = ckRetries
    /\ UNCHANGED <<jobVars, ckRunning, hookVars, callVars, pageVars>>

\* retryPaymentFulfillmentJob: an execution begins, or the transition is refused or fails.
OtherResets ==
    /\ ckOther = "resetting"
    /\ ckOther' = "idle" /\ ckHeld' = 0
    /\ \/ Resettable /\ Reset(ckHeld) /\ ckRunning' = ckRunning + 1
       \/ UNCHANGED <<jobVars, ckRunning>>
    /\ UNCHANGED <<hookVars, callVars, pageVars>>

DelayElapses ==
    /\ ckJob = "failed_retryable" /\ ~ckDue /\ ckDue' = TRUE
    /\ UNCHANGED <<ckJob, ckRetries, runVars, hookVars, callVars, pageVars>>

\* applyProxyResult.
Verdict(result) ==
    CASE result = "ok" -> "fulfilled"
      [] result = "retryable" /\ ckRetries < MaxRetries -> "failed_retryable"
      [] OTHER -> "failed_terminal"

Settle(result) ==
    LET to == Verdict(result) IN
    /\ canTransition(ckJob, to)
    /\ ckJob' = to /\ ckDue' = (to # "failed_retryable")
    /\ ckRetries' = IF to = "failed_retryable" THEN ckRetries + 1 ELSE ckRetries

\* The outcome is recorded, or it is not: the job has settled, the store fails, or the
\* request that the execution belongs to is gone. The caller is told of no error.
Settles == UNCHANGED jobVars \/ \E result \in {"ok", "retryable", "terminal"} : Settle(result)

\* An execution that nobody waits for ends.
RunEnds ==
    /\ ckRunning > 0 /\ ckRunning' = ckRunning - 1
    /\ Settles
    /\ UNCHANGED <<ckOther, ckHeld, hookVars, callVars, pageVars>>

-----------------------------------------------------------------------------
(* The event.                                                                 *)

\* The customer pays; Stripe will tell the backend, and go on telling it until it
\* is answered.
Pay ==
    /\ ckEvent = "none" /\ ckEvent' = "due"
    /\ UNCHANGED <<jobVars, runVars, ckLinked, ckErrors, callVars, pageVars>>

\* handleStripeWebhook creates the job or loads it, and executes it unless it is settled.
EventArrives ==
    /\ ckEvent = "due"
    /\ ckJob' = IF ckJob = "none" THEN "paid_unfulfilled" ELSE ckJob
    /\ ckEvent' = IF ckJob \in Settled THEN "executed" ELSE "executing"
    /\ UNCHANGED <<ckRetries, ckDue, runVars, ckLinked, ckErrors, callVars, pageVars>>

HookEnds ==
    /\ ckEvent = "executing" /\ ckEvent' = "executed"
    /\ Settles
    /\ UNCHANGED <<runVars, ckLinked, ckErrors, callVars, pageVars>>

(* Variant for checking: the record is only completed for a fulfilled job.    *)
HookMarks_Fulfilled ==
    /\ ckEvent = "executed" /\ ckEvent' = "done"
    /\ ckLinked' = (ckJob = "fulfilled")
    /\ UNCHANGED <<jobVars, runVars, ckErrors, callVars, pageVars>>

\* markCheckoutSessionCompleted, whatever has become of the job.
HookMarks ==
    /\ ckEvent = "executed" /\ ckEvent' = "done"
    /\ ckLinked' = TRUE
    /\ UNCHANGED <<jobVars, runVars, ckErrors, callVars, pageVars>>

\* A store error on the way: the webhook answers 500 and Stripe sends the event again.
HookFails ==
    /\ ckEvent = "executed" /\ ckErrors < MaxErrors
    /\ ckEvent' = "due" /\ ckErrors' = ckErrors + 1
    /\ UNCHANGED <<jobVars, runVars, ckLinked, callVars, pageVars>>

-----------------------------------------------------------------------------
(* The endpoint.                                                              *)

\* deriveCheckoutStatus. Until the webhook has completed the record it names no job.
Derive(job, linked) ==
    CASE ~linked -> "pending"
      [] linked /\ job = "fulfilled" -> "fulfilled"
      [] linked /\ job = "failed_terminal" -> "failed"
      [] linked /\ job = "failed_retryable" -> "retrying"
      [] OTHER -> "processing"

\* A job whose delay is over is to be executed before the answer.
Look ==
    /\ ckCall = "sent"
    /\ IF ckLinked /\ ckJob = "failed_retryable" /\ ckDue
         THEN ckCall' = "looked" /\ ckSeen' = ckRetries
         ELSE ckCall' = Derive(ckJob, ckLinked) /\ UNCHANGED ckSeen
    /\ UNCHANGED <<jobVars, runVars, hookVars, pageVars>>

\* The reset is a transaction of its own; the job may be settled by then.
PollResets ==
    /\ ckCall = "looked" /\ ckSeen' = 0
    /\ IF Resettable THEN Reset(ckSeen) /\ ckCall' = "executing"
                     ELSE ckCall' = "error" /\ UNCHANGED jobVars
    /\ UNCHANGED <<runVars, hookVars, pageVars>>

PollEnds ==
    /\ ckCall = "executing" /\ ckCall' = "executed"
    /\ Settles
    /\ UNCHANGED <<runVars, hookVars, ckSeen, pageVars>>

\* The job is read again for the answer.
PollAnswers ==
    /\ ckCall = "executed" /\ ckCall' = Derive(ckJob, ckLinked)
    /\ UNCHANGED <<jobVars, runVars, hookVars, ckSeen, pageVars>>

\* What the request had begun goes on without it, if it is not cancelled with it.
Abandon ==
    /\ ckSeen' = 0
    /\ ckRunning' = IF ckCall = "executing" THEN ckRunning + 1 ELSE ckRunning
    /\ IF ckCall = "looked" /\ ckOther = "idle"
         THEN ckOther' = "resetting" /\ ckHeld' = ckSeen
         ELSE UNCHANGED <<ckOther, ckHeld>>

\* The store fails, or the connection breaks.
CallFails ==
    /\ ckCall \in {"sent", "looked", "executing", "executed"}
    /\ ckCall' = "error" /\ Abandon
    /\ UNCHANGED <<jobVars, hookVars, pageVars>>

-----------------------------------------------------------------------------
(* The page.                                                                  *)

\* The address Stripe gives after a payment, with its session, is polled for; the one it
\* gives after a cancellation, and any other ("bare"), are not, nor is any without a login.
OpenPage(url) ==
    /\ ckPoll = "off"
    /\ ckUrl' = url /\ ckLoading' = FALSE
    /\ IF url = "paid" THEN ckPoll' = "calling" /\ ckCall' = "sent" /\ ckTimer' = "set"
                       ELSE ckPoll' = "never" /\ UNCHANGED <<ckCall, ckTimer>>
    /\ UNCHANGED <<jobVars, runVars, hookVars, ckSeen, ckShown, ckError>>

(* Variants for checking: an answer that is not final ends the polling; a     *)
(* failed job does not.                                                       *)
AnswerArrives_Once ==
    /\ ckPoll = "calling" /\ ckCall \in Answers \ {"error"}
    /\ ckShown' = ckCall /\ ckError' = FALSE /\ ckCall' = "none"
    /\ ckPoll' = "stopped" /\ ckLoading' = FALSE
    /\ ckTimer' = IF ckTimer = "set" THEN "off" ELSE ckTimer
    /\ UNCHANGED <<jobVars, runVars, hookVars, ckSeen, ckUrl>>
AnswerArrives_ForEver ==
    /\ ckPoll = "calling" /\ ckCall \in Answers \ {"error"}
    /\ ckShown' = ckCall /\ ckError' = FALSE /\ ckCall' = "none"
    /\ ckPoll' = IF ckCall = "fulfilled" THEN "stopped" ELSE "pausing"
    /\ UNCHANGED <<jobVars, runVars, hookVars, ckSeen, ckUrl, ckLoading, ckTimer>>

\* An answer: a final status ends the polling and the timer, any other is followed
\* by a pause of two and a half seconds.
AnswerArrives ==
    /\ ckPoll = "calling" /\ ckCall \in Answers \ {"error"}
    /\ ckShown' = ckCall /\ ckError' = FALSE /\ ckCall' = "none"
    /\ IF ckCall \in Final
         THEN /\ ckPoll' = "stopped" /\ ckLoading' = FALSE
              /\ ckTimer' = IF ckTimer = "set" THEN "off" ELSE ckTimer
         ELSE ckPoll' = "pausing" /\ ckLoading' = TRUE /\ UNCHANGED ckTimer
    /\ UNCHANGED <<jobVars, runVars, hookVars, ckSeen, ckUrl>>

\* An error ends the polling; the timer runs on.
ErrorArrives ==
    /\ ckPoll = "calling" /\ ckCall = "error"
    /\ ckPoll' = "stopped" /\ ckCall' = "none"
    /\ ckError' = TRUE /\ ckLoading' = FALSE
    /\ UNCHANGED <<jobVars, runVars, hookVars, ckSeen, ckUrl, ckShown, ckTimer>>

PauseEnds ==
    /\ ckPoll = "pausing"
    /\ ckPoll' = "calling" /\ ckCall' = "sent"
    /\ UNCHANGED <<jobVars, runVars, hookVars, ckSeen, ckUrl, ckShown, ckError, ckLoading, ckTimer>>

TimerFires ==
    /\ ckTimer = "set"
    /\ ckTimer' = "fired" /\ ckLoading' = FALSE
    /\ UNCHANGED <<jobVars, runVars, hookVars, callVars, ckUrl, ckPoll, ckShown, ckError>>

\* The customer leaves the page, or loads it again.
ClosePage ==
    /\ ckPoll # "off"
    /\ ckCall' = "none" /\ Abandon
    /\ ckUrl' = "none" /\ ckPoll' = "off" /\ ckTimer' = "off"
    /\ ckShown' = "none" /\ ckError' = FALSE /\ ckLoading' = TRUE
    /\ UNCHANGED <<jobVars, hookVars>>

\* What the page says, by the address, the status, the timer and the error.
Title == CASE ckUrl = "cancelled" -> "cancelled"
           [] ckUrl # "cancelled" /\ ckShown = "fulfilled" -> "confirmed"
           [] ckUrl # "cancelled" /\ ckShown = "failed" -> "failed"
           [] OTHER -> "confirming"
Description == CASE ckUrl = "cancelled" -> "cancelled"
                 [] ckUrl # "cancelled" /\ ckShown \in Final -> ckShown
                 [] ckUrl # "cancelled" /\ ckShown \notin Final /\ ckTimer = "fired" -> "late"
                 [] ckUrl # "cancelled" /\ ckShown \notin Final /\ ckTimer # "fired" /\ ckError
                      -> "error"
                 [] OTHER -> "refreshes"

Hook == EventArrives \/ HookMarks \/ HookFails
OtherGoesOn == WorkerClaims \/ OtherResets
ExecutionEnds == RunEnds \/ HookEnds \/ PollEnds
CallEnds == Look \/ PollResets \/ PollAnswers \/ CallFails
PageMovesOn == AnswerArrives \/ ErrorArrives \/ PauseEnds

Next ==
    \/ Pay \/ Hook \/ WorkerLists \/ AdminLooks \/ OtherGoesOn \/ DelayElapses
    \/ ExecutionEnds \/ CallEnds
    \/ \E url \in {"paid", "cancelled", "bare"} : OpenPage(url)
    \/ PageMovesOn \/ TimerFires \/ ClosePage

Spec == Init /\ [][Next]_checkoutVars

\* Stripe redelivers, the webhook's handler and whoever retries run on, delays pass,
\* executions end, a request is answered or fails, and pauses end. Nobody need begin a
\* retry: the polls alone bring a retryable job to an end.
Fairness ==
    /\ WF_checkoutVars(EventArrives) /\ WF_checkoutVars(HookMarks) /\ WF_checkoutVars(DelayElapses)
    /\ WF_checkoutVars(OtherGoesOn) /\ WF_checkoutVars(ExecutionEnds)
    /\ WF_checkoutVars(CallEnds) /\ WF_checkoutVars(PageMovesOn)
FairSpec == Spec /\ Fairness

-----------------------------------------------------------------------------
TypeOK ==
    /\ ckJob \in Settled \cup {"none", "paid_unfulfilled", "failed_retryable"}
    /\ {ckRetries, ckHeld, ckSeen} \subseteq 0..MaxRetries /\ ckDue \in BOOLEAN
    /\ ckOther \in {"idle", "listed", "resetting"} /\ ckRunning \in Nat
    /\ ckEvent \in {"none", "due", "executing", "executed", "done"} /\ ckLinked \in BOOLEAN
    /\ ckErrors \in 0..MaxErrors
    /\ ckUrl \in {"none", "paid", "cancelled", "bare"}
    /\ ckPoll \in {"off", "never", "calling", "pausing", "stopped"}
    /\ ckCall \in Answers \cup {"none", "sent", "looked", "executing", "executed"}
    /\ ckShown \in (Answers \ {"error"}) \cup {"none"}
    /\ ckError \in BOOLEAN /\ ckLoading \in BOOLEAN
    /\ ckTimer \in {"off", "set", "fired"}

\* The customer is told of an outcome only when the job has come to it, and the job stays
\* with what the customer was told, although other executions and resets may still be under
\* way, and the poll that brought the news may have executed the job itself.
TellsTheTruth ==
    /\ Title = "confirmed" => ckJob = "fulfilled"
    /\ Title = "failed" => ckJob = "failed_terminal"

\* At the address Stripe gives after a payment, a page that still promises to refresh itself
\* has a request or a pause under way: the promise ends with the polling, and only a final
\* status or an error ends it. (At an address without a session the page makes the same
\* promise and never polls.)
PromiseIsKept ==
    ckUrl = "paid" /\ Description = "refreshes" => ckPoll \in {"calling", "pausing"}

\* A paid event ends up in the payment record, whatever store errors and concurrent
\* executions come between.
PaymentIsRecorded == ckEvent = "due" ~> ckLinked

\* The job is left unsettled for good: its last execution could not record its outcome, or
\* a retrier failed after its claim. No list and no poll takes up a job in this state.
Stranded ==
    /\ ckJob = "paid_unfulfilled" /\ ckEvent = "done"
    /\ ckRunning = 0 /\ ckOther # "resetting" /\ ckCall \notin {"looked", "executing"}

\* A page that polls for a payment comes to an end, with the job's outcome or with an error,
\* unless the job is stranded: then it polls for as long as it is open.
PollingComesToAnEnd ==
    (ckEvent # "none" /\ ckPoll = "calling") ~> (ckPoll \in {"off", "stopped"} \/ Stranded)
=============================================================================
