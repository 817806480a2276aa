---------------------------- MODULE ProgressProofs ----------------------------
(* Theorems about the fulfillment workers as MCProgress runs them, for any    *)
(* jobs and any number of instances: what FulfillmentProofs says of them,     *)
(* stated of the properties that are checked.                                 *)
EXTENDS MCProgress, TLAPS

\* The two machines of MCProgress, with their theorems.
OneP == INSTANCE FulfillmentProofs
    WITH Workers <- {w1}, Handlers <- {h1}, Callers <- {},
         Payload <- [j \in Jobs |-> {"package"}], MaxRetries <- 2, SerialTx <- TRUE,
         MaxRequests <- 3, MaxFaults <- 0, MaxFlaky <- 4, AttemptCap <- 4,
         status <- ffStatus, retries <- ffRetries, due <- ffDue, acked <- ffAcked,
         granted <- ffGranted, batch <- ffBatch, pc <- ffPc, at <- ffAt, step <- ffStep,
         count <- ffCount, outcome <- ffOutcome, target <- ffTarget, notice <- ffNotice,
         attempts <- ffAttempts, requests <- ffRequests, faults <- ffFaults, flaky <- ffFlaky

TwoP == INSTANCE FulfillmentProofs
    WITH Workers <- Instances, Handlers <- {h1}, Callers <- {},
         Payload <- [j \in Jobs |-> {"package"}], MaxRetries <- 2, SerialTx <- FALSE,
         MaxRequests <- 2, MaxFaults <- 0, MaxFlaky <- 1, AttemptCap <- 4,
         status <- ffStatus, retries <- ffRetries, due <- ffDue, acked <- ffAcked,
         granted <- ffGranted, batch <- ffBatch, pc <- ffPc, at <- ffAt, step <- ffStep,
         count <- ffCount, outcome <- ffOutcome, target <- ffTarget, notice <- ffNotice,
         attempts <- ffAttempts, requests <- ffRequests, faults <- ffFaults, flaky <- ffFlaky

-----------------------------------------------------------------------------
\* The machine that runs is the same throughout.
LEMMA PageStays == [ProgressNext]_ProgressVars => page' = page
BY DEF ProgressNext, ProgressVars, Next, portalVars

\* With a single worker the jobs move as Fulfillment says, or not at all.
LEMMA OneLift == ProgressSpec /\ page = "one worker" => OneP!Spec
<1>1. One!Init => OneP!Init
  BY DEF One!Init, One!Executors, One!AnyJob, OneP!Init, OneP!Executors, OneP!AnyJob
<1>2. One!Next => OneP!Next
  BY DEF One!Next, One!Initiate, One!Execute, One!Deliver, One!Poll, One!Replay, One!List,
         One!Claim, One!Abort, One!StoreError, One!BackoffElapses, One!CheckTransition,
         One!Reset, One!Call, One!Apply, One!Record, One!Finish, One!CreateOrLoadJob,
         One!GotoStep, One!FirstOf, One!StartRetry, One!ListRetryDue, One!ClaimWins,
         One!Allowed, One!MayWrite, One!WriteRow, One!Goto, One!StepsAfter, One!Verdict,
         One!Leave, One!canTransition, One!Executors, One!AnyJob, One!Final, One!StepKinds,
         One!Outcomes, One!row, One!exec, One!bounds, OneP!Next, OneP!Initiate, OneP!Execute,
         OneP!Deliver, OneP!Poll, OneP!Replay, OneP!List, OneP!Claim, OneP!Abort,
         OneP!StoreError, OneP!BackoffElapses, OneP!CheckTransition, OneP!Reset, OneP!Call,
         OneP!Apply, OneP!Record, OneP!Finish, OneP!CreateOrLoadJob, OneP!GotoStep,
         OneP!FirstOf, OneP!StartRetry, OneP!ListRetryDue, OneP!ClaimWins, OneP!Allowed,
         OneP!MayWrite, OneP!WriteRow, OneP!Goto, OneP!StepsAfter, OneP!Verdict, OneP!Leave,
         OneP!canTransition, OneP!Executors, OneP!AnyJob, OneP!Final, OneP!StepKinds,
         OneP!Outcomes, OneP!row, OneP!exec, OneP!bounds
<1>3. UNCHANGED jobVars <=> UNCHANGED OneP!vars
  BY DEF jobVars, OneP!vars, OneP!row, OneP!exec, OneP!bounds
<1>4. ProgressInit /\ page = "one worker" => One!Init
  BY DEF ProgressInit
<1>5. page = "one worker" /\ [ProgressNext]_ProgressVars =>
         (page = "one worker")' /\ [OneP!Next]_(OneP!vars)
  BY <1>2, <1>3 DEF ProgressNext, ProgressVars, Next, portalVars
<1> QED
  BY <1>1, <1>4, <1>5, PTL DEF ProgressSpec, OneP!Spec

\* The same of several; on any other page nothing happens to the jobs.
LEMMA TwoLift == ProgressSpec /\ page # "one worker" => TwoP!Spec
<1>1. Two!Init => TwoP!Init
  BY DEF Two!Init, Two!Executors, Two!AnyJob, TwoP!Init, TwoP!Executors, TwoP!AnyJob
<1>2. Two!Next => TwoP!Next
  BY DEF Two!Next, Two!Initiate, Two!Execute, Two!Deliver, Two!Poll, Two!Replay, Two!List,
         Two!Claim, Two!Abort, Two!StoreError, Two!BackoffElapses, Two!CheckTransition,
         Two!Reset, Two!Call, Two!Apply, Two!Record, Two!Finish, Two!CreateOrLoadJob,
         Two!GotoStep, Two!FirstOf, Two!StartRetry, Two!ListRetryDue, Two!ClaimWins,
         Two!Allowed, Two!MayWrite, Two!WriteRow, Two!Goto, Two!StepsAfter, Two!Verdict,
         Two!Leave, Two!canTransition, Two!Executors, Two!AnyJob, Two!Final, Two!StepKinds,
         Two!Outcomes, Two!row, Two!exec, Two!bounds, TwoP!Next, TwoP!Initiate, TwoP!Execute,
         TwoP!Deliver, TwoP!Poll, TwoP!Replay, TwoP!List, TwoP!Claim, TwoP!Abort,
         TwoP!StoreError, TwoP!BackoffElapses, TwoP!CheckTransition, TwoP!Reset, TwoP!Call,
         TwoP!Apply, TwoP!Record, TwoP!Finish, TwoP!CreateOrLoadJob, TwoP!GotoStep,
         TwoP!FirstOf, TwoP!StartRetry, TwoP!ListRetryDue, TwoP!ClaimWins, TwoP!Allowed,
         TwoP!MayWrite, TwoP!WriteRow, TwoP!Goto, TwoP!StepsAfter, TwoP!Verdict, TwoP!Leave,
         TwoP!canTransition, TwoP!Executors, TwoP!AnyJob, TwoP!Final, TwoP!StepKinds,
         TwoP!Outcomes, TwoP!row, TwoP!exec, TwoP!bounds
<1>3. UNCHANGED jobVars <=> UNCHANGED TwoP!vars
  BY DEF jobVars, TwoP!vars, TwoP!row, TwoP!exec, TwoP!bounds
<1>4. ProgressInit /\ page # "one worker" => Two!Init
  BY DEF ProgressInit
<1>5. page # "one worker" /\ [ProgressNext]_ProgressVars =>
         (page # "one worker")' /\ [TwoP!Next]_(TwoP!vars)
  BY <1>2, <1>3 DEF ProgressNext, ProgressVars, Next, portalVars
<1> QED
  BY <1>1, <1>4, <1>5, PTL DEF ProgressSpec, TwoP!Spec

\* Nothing disturbs the workers that MCProgress runs: the conditions of the theorems hold.
LEMMA NothingDisturbs ==
    /\ OneP!FulfillmentAssumption /\ OneP!Undisturbed /\ OneP!OneWorker
    /\ TwoP!FulfillmentAssumption /\ TwoP!Undisturbed
<1>1. OneP!FulfillmentAssumption
  BY ProgressAssumption DEF OneP!FulfillmentAssumption, OneP!StepKinds, OneP!CallerKinds
<1>2. TwoP!FulfillmentAssumption
  BY ProgressAssumption DEF TwoP!FulfillmentAssumption, TwoP!StepKinds, TwoP!CallerKinds
<1> QED
  BY <1>1, <1>2
     DEF OneP!Undisturbed, OneP!OneWorker, OneP!SingleProduct, TwoP!Undisturbed, TwoP!SingleProduct

-----------------------------------------------------------------------------
\* Of any number of workers on a READ COMMITTED store, at most one executes a job at a time:
\* ClaimRetryableJob lets one of them through.
THEOREM WorkersTakeTurns == ProgressSpec => []SingleExecutor
<1>1. TwoP!SingleExecutor => Two!SingleExecutor
  BY DEF TwoP!SingleExecutor, TwoP!Executors, TwoP!Processing, TwoP!Cardinality,
         Two!SingleExecutor, Two!Executors, Two!Processing, Two!Cardinality
<1>2. ProgressSpec /\ page # "one worker" => []Two!SingleExecutor
  BY <1>1, TwoLift, NothingDisturbs, TwoP!WorkersExclude, PTL
<1>3. page = "one worker" => SingleExecutor
  BY DEF SingleExecutor
<1>4. Two!SingleExecutor => SingleExecutor
  BY DEF SingleExecutor
<1>5. page = "one worker" /\ [ProgressNext]_ProgressVars => (page = "one worker")'
  BY PageStays
<1>6. page = "one worker" \/ page # "one worker"
  OBVIOUS
<1> QED
  BY <1>2, <1>3, <1>4, <1>5, <1>6, PTL DEF ProgressSpec

\* A single worker retries a job at most MaxRetries times, each time after its backoff, and
\* the retry count in the row never goes back.
THEOREM RetriesKeepOrder == ProgressSpec => RetriesInOrder
<1>1. /\ OneP!RetriesBounded => One!RetriesBounded
      /\ OneP!WaitsForBackoff => One!WaitsForBackoff
      /\ OneP!KeepsCount => One!KeepsCount
  BY DEF OneP!RetriesBounded, OneP!WaitsForBackoff, OneP!KeepsCount,
         One!RetriesBounded, One!WaitsForBackoff, One!KeepsCount
<1>2. UNCHANGED jobVars <=> UNCHANGED OneP!vars
  BY DEF jobVars, OneP!vars, OneP!row, OneP!exec, OneP!bounds
<1>3. /\ [OneP!WaitsForBackoff]_(OneP!vars) => [One!WaitsForBackoff]_jobVars
      /\ [OneP!KeepsCount]_(OneP!vars) => [One!KeepsCount]_jobVars
  BY <1>1, <1>2
<1>4. ProgressSpec /\ page = "one worker"
         => []One!RetriesBounded /\ [][One!WaitsForBackoff]_jobVars /\ [][One!KeepsCount]_jobVars
  BY <1>1, <1>3, OneLift, NothingDisturbs, OneP!OneWorkerRetriesInOrder, PTL
     DEF OneP!BackoffRespected, OneP!RetryCountGrows
<1>5. page # "one worker" /\ [ProgressNext]_ProgressVars => (page # "one worker")'
  BY PageStays
<1>6. page = "one worker" \/ page # "one worker"
  OBVIOUS
<1>7. \/ page # "one worker"
      \/ One!RetriesBounded' /\ [One!WaitsForBackoff]_jobVars /\ [One!KeepsCount]_jobVars
      => [page = "one worker" => One!RetriesBounded' /\ One!WaitsForBackoff /\ One!KeepsCount]_jobVars
  OBVIOUS
<1> QED
  BY <1>4, <1>5, <1>6, <1>7, PTL DEF ProgressSpec, RetriesInOrder

\* Whichever machine runs, the jobs implement PaymentPromise: what is owed is delivered only
\* when it was granted upstream, or given up for good.
THEOREM WorkersKeepPromises == ProgressSpec => PromiseKept
<1>1. OneP!Promise!Init => Two!Promise!Init
  BY DEF OneP!Promise!Init, OneP!PhaseOf, Two!Promise!Init, Two!PhaseOf
<1>2. [OneP!Promise!Next]_(OneP!Promise!vars) => [Two!Promise!Next]_(Two!Promise!vars)
  BY DEF OneP!Promise!Next, OneP!Promise!vars, OneP!Promise!Accept, OneP!Promise!Grant,
         OneP!Promise!Deliver, OneP!Promise!Abandon, OneP!Promise!Complete, OneP!PhaseOf,
         OneP!StepKinds, Two!Promise!Next, Two!Promise!vars, Two!Promise!Accept,
         Two!Promise!Grant, Two!Promise!Deliver, Two!Promise!Abandon, Two!Promise!Complete,
         Two!PhaseOf, Two!StepKinds
<1>3. TwoP!Promise!Init => Two!Promise!Init
  BY DEF TwoP!Promise!Init, TwoP!PhaseOf, Two!Promise!Init, Two!PhaseOf
<1>4. [TwoP!Promise!Next]_(TwoP!Promise!vars) => [Two!Promise!Next]_(Two!Promise!vars)
  BY DEF TwoP!Promise!Next, TwoP!Promise!vars, TwoP!Promise!Accept, TwoP!Promise!Grant,
         TwoP!Promise!Deliver, TwoP!Promise!Abandon, TwoP!Promise!Complete, TwoP!PhaseOf,
         TwoP!StepKinds, Two!Promise!Next, Two!Promise!vars, Two!Promise!Accept,
         Two!Promise!Grant, Two!Promise!Deliver, Two!Promise!Abandon, Two!Promise!Complete,
         Two!PhaseOf, Two!StepKinds
<1>5. ProgressSpec /\ page = "one worker" => PromiseKept
  BY <1>1, <1>2, OneLift, NothingDisturbs, OneP!WorkersKeepThePromise, PTL
     DEF PromiseKept, OneP!PromiseKept, OneP!Promise!Spec, Two!PromiseKept, Two!Promise!Spec
<1>6. ProgressSpec /\ page # "one worker" => PromiseKept
  BY <1>3, <1>4, TwoLift, NothingDisturbs, TwoP!WorkersKeepThePromise, PTL
     DEF PromiseKept, TwoP!PromiseKept, TwoP!Promise!Spec, Two!PromiseKept, Two!Promise!Spec
<1>7. page = "one worker" \/ page # "one worker"
  OBVIOUS
<1> QED
  BY <1>5, <1>6, <1>7, PTL
=============================================================================
