------------------------------ MODULE MCProgress ------------------------------
(* What must eventually happen, in the pages of the portal and in three       *)
(* machines of the backend: the fulfillment worker (alone, and with a second  *)
(* one), the refresh arbiter and the scan login. They share nothing; each     *)
(* behaviour is one of a single machine, and all are explored in one run.     *)
EXTENDS Portal, TLC

CONSTANTS
    row1, k1, week, month, ann, old,
    Jobs, Instances, w1, h1,        \* jobs; workers, of which w1 is the one; the handler of notices
    r1, r2, FirstSession, nobody

ASSUME ProgressAssumption == Jobs # {} /\ w1 # h1 /\ h1 \notin Instances

VARIABLES
    ffStatus, ffRetries, ffDue, ffAcked, ffGranted, ffBatch, ffPc, ffAt, ffStep, ffCount,
    ffOutcome, ffTarget, ffNotice, ffAttempts, ffRequests, ffFaults, ffFlaky,
    raRefresh, raVstate, raVersion, raExpiry, raKnown, raSession, raHolder, raConsumed,
    raIssued, raPc, raKind, raShown, raHeld, raSeen, raOp, raGot, raTries, raFaults, raLosses,
    slRow, slLife, slIssued, slPc, slVerb, slUser, slCode, slSince, slVerdict, slMinted,
    slShown, slTimer, slFlight, slSent, slReply, slStopped, slSaved, slFaults

jobVars  == <<ffStatus, ffRetries, ffDue, ffAcked, ffGranted, ffBatch, ffPc, ffAt, ffStep, ffCount,
              ffOutcome, ffTarget, ffNotice, ffAttempts, ffRequests, ffFaults, ffFlaky>>
vaultVars == <<raRefresh, raVstate, raVersion, raExpiry, raKnown, raSession, raHolder, raConsumed,
               raIssued, raPc, raKind, raShown, raHeld, raSeen, raOp, raGot, raTries, raFaults,
               raLosses>>
scanVars == <<slRow, slLife, slIssued, slPc, slVerb, slUser, slCode, slSince, slVerdict, slMinted,
              slShown, slTimer, slFlight, slSent, slReply, slStopped, slSaved, slFaults>>

\* A single worker instance; with two jobs a batch holds one while the other runs.
One == INSTANCE Fulfillment
    WITH Workers <- {w1}, Handlers <- {h1}, Callers <- {},
         Payload <- [j \in Jobs |-> {"package"}], MaxRetries <- 2, SerialTx <- TRUE,
         MaxRequests <- 3, MaxFaults <- 0, MaxFlaky <- 4, AttemptCap <- 4,
         status <- ffStatus, retries <- ffRetries, due <- ffDue, acked <- ffAcked,
         granted <- ffGranted, batch <- ffBatch, pc <- ffPc, at <- ffAt, step <- ffStep,
         count <- ffCount, outcome <- ffOutcome, target <- ffTarget, notice <- ffNotice,
         attempts <- ffAttempts, requests <- ffRequests, faults <- ffFaults, flaky <- ffFlaky

\* Several instances, transactions split into check and write, and fewer retryable answers
\* than the budget allows.
Two == INSTANCE Fulfillment
    WITH Workers <- Instances, Handlers <- {h1}, Callers <- {},
         Payload <- [j \in Jobs |-> {"package"}], MaxRetries <- 2, SerialTx <- FALSE,
         MaxRequests <- 2, MaxFaults <- 0, MaxFlaky <- 1, AttemptCap <- 4,
         status <- ffStatus, retries <- ffRetries, due <- ffDue, acked <- ffAcked,
         granted <- ffGranted, batch <- ffBatch, pc <- ffPc, at <- ffAt, step <- ffStep,
         count <- ffCount, outcome <- ffOutcome, target <- ffTarget, notice <- ffNotice,
         attempts <- ffAttempts, requests <- ffRequests, faults <- ffFaults, flaky <- ffFlaky

\* Two requests of any kind, with a fault, a lost lock, and answers that hide a refresh.
Arbiter == INSTANCE RefreshArbiter
    WITH Requests <- {r1, r2}, Serves <- {"refresh", "ensure", "login", "sync"},
         Starts <- {"new", "legacy", "imported"}, EmailDrift <- FALSE, GatewayErrors <- TRUE,
         MaxFaults <- 1, MaxLockLoss <- 1,
         refresh <- raRefresh, vstate <- raVstate, version <- raVersion, expiry <- raExpiry,
         known <- raKnown, session <- raSession, holder <- raHolder, consumed <- raConsumed,
         issued <- raIssued, pc <- raPc, kind <- raKind, shown <- raShown, held <- raHeld,
         seen <- raSeen, op <- raOp, got <- raGot, tries <- raTries, faults <- raFaults,
         losses <- raLosses

\* One panel through two codes.
Scan == INSTANCE ScanLogin
    WITH Users <- {ann}, Requests <- {r1}, none <- None, MaxCodes <- 2, MaxFaults <- 1,
         row <- slRow, life <- slLife, issued <- slIssued, pc <- slPc, verb <- slVerb,
         user <- slUser, code <- slCode, since <- slSince, verdict <- slVerdict,
         minted <- slMinted, shown <- slShown, timer <- slTimer, flight <- slFlight,
         sent <- slSent, reply <- slReply, stopped <- slStopped, saved <- slSaved,
         faults <- slFaults

ProgressVars == <<portalVars, jobVars, vaultVars, scanVars>>

ProgressInit ==
    /\ Init
    /\ IF page = "one worker" THEN One!Init ELSE Two!Init
    /\ Arbiter!Init /\ (page # "arbiter" => ~raKnown)
    /\ Scan!Init

ProgressNext ==
    /\ Next
    /\ CASE page = "one worker" -> One!Next
         [] page = "two workers" -> Two!Next
         [] OTHER -> UNCHANGED jobVars
    /\ IF page = "arbiter" THEN Arbiter!Next ELSE UNCHANGED vaultVars
    /\ IF page = "scan" THEN Scan!Next ELSE UNCHANGED scanVars

\* The fairness each module states, asked of the machine that runs.
WorkersFair ==
    /\ \A e \in One!Executors : WF_jobVars(page = "one worker" /\ One!Execute(e))
    /\ WF_jobVars(page = "one worker" /\ (One!List(w1) \/ One!Claim(w1)))
    /\ \A j \in Jobs : WF_jobVars(page = "one worker" /\ One!BackoffElapses(j))
    /\ \A e \in Two!Executors : WF_jobVars(page = "two workers" /\ Two!Execute(e))
    /\ \A w \in Instances : WF_jobVars(page = "two workers" /\ (Two!List(w) \/ Two!Claim(w)))
    /\ \A j \in Jobs :
          /\ WF_jobVars(page = "two workers" /\ Two!BackoffElapses(j))
          /\ WF_jobVars(page = "two workers" /\ ~ffAcked[j] /\ Two!Deliver(h1, j))
ArbiterFair == \A r \in {r1, r2} : WF_vaultVars(page = "arbiter" /\ Arbiter!Step(r))
PanelFair == WF_scanVars(page = "scan" /\ Scan!Panel)
CheckoutFair ==
    /\ WF_checkoutVars(page = "checkout" /\ Checkout!EventArrives)
    /\ WF_checkoutVars(page = "checkout" /\ Checkout!HookMarks)
    /\ WF_checkoutVars(page = "checkout" /\ Checkout!DelayElapses)
    /\ WF_checkoutVars(page = "checkout" /\ Checkout!OtherGoesOn)
    /\ WF_checkoutVars(page = "checkout" /\ Checkout!ExecutionEnds)
    /\ WF_checkoutVars(page = "checkout" /\ Checkout!CallEnds)
    /\ WF_checkoutVars(page = "checkout" /\ Checkout!PageMovesOn)
HomeFair ==
    \A s \in HomeCalls :
        /\ WF_homeVars(page = "home" /\ Home!Serve(s))
        /\ WF_homeVars(page = "home" /\ Home!Arrives(s))

ProgressSpec ==
    /\ ProgressInit /\ [][ProgressNext]_ProgressVars
    /\ WorkersFair /\ ArbiterFair /\ PanelFair /\ CheckoutFair /\ HomeFair

-----------------------------------------------------------------------------
(* A single worker retries in order: a job at most MaxRetries times, each time *)
(* only after its backoff, and the persisted retry count only grows.          *)
RetriesInOrder ==
    [][page = "one worker"
           => One!RetriesBounded' /\ One!WaitsForBackoff /\ One!KeepsCount]_jobVars

(* Of two workers on a READ COMMITTED store, at most one executes a job.      *)
SingleExecutor == page = "two workers" => Two!SingleExecutor

(* With two workers every paid job settles, once the retryable answers end.   *)
EverySettles == page = "two workers" => Two!EverySettles

(* The jobs implement what a paying customer may rely on: PaymentPromise.     *)
PromiseKept == Two!PromiseKept

(* Every request that has arrived at the arbiter is answered, whatever        *)
(* crashes, lost locks or store errors do to the other.                       *)
EveryRequestAnswered == Arbiter!EveryRequestAnswered

(* The scan panel drops dead codes and, once left, comes to rest.             *)
PanelMovesOn == Scan!DeadCodeDropped /\ Scan!UnmountComesToRest
==============================================================================
