---------------------------- MODULE PortalProofs ----------------------------
(* Theorems about the portal, for every value of its constants. Two pages     *)
(* have a module of theorems of their own, which is taken over here; the five *)
(* others, and the composition, are proved in this one.                       *)
EXTENDS Portal, FiniteSetTheorems, TLAPS

RegisterP == INSTANCE RegisterFlowProofs
DeskP     == INSTANCE UserDeskProofs

-----------------------------------------------------------------------------
(* What the portal does is, for the two pages, what the module of their       *)
(* theorems says.                                                             *)

\* The registration page moves as its specification says, or not at all.
LEMMA RegisterLift == Spec => RegisterP!Spec
<1>1. Init => RegisterP!Init
  BY DEF Init, Register!Init, Register!Nothing, Register!Requests, Register!Unsent,
         RegisterP!Init, RegisterP!Nothing, RegisterP!Requests, RegisterP!Unsent
<1>2. Register!Next => RegisterP!Next
  BY DEF Register!Next, Register!OpenPage, Register!ProbeOptions, Register!ChallengeArrives,
         Register!RefreshChallenge, Register!DropTile, Register!TurnstileSolved,
         Register!SendCode, Register!MadeUp, Register!TypeCode, Register!Submit,
         Register!Requests, Register!Gate, Register!ShowSuccess, Register!ShowRefusal,
         Register!LoseAnswer, Register!formVars, Register!sendVars, Register!gateVars,
         Register!setVars, Register!sliderVars, Register!Nothing, Register!probeVars,
         Register!Refresh, Register!MaySubmit, Register!MoreToSend, Register!GateTurnstile, Register!GateReadsCode,
         Register!GateConsumesCode, Register!GateSlider, Register!GateAddress, Register!Upstream,
         Register!At, Register!Unlock, Register!To, Register!Pays, Register!PageIdle,
         RegisterP!Next, RegisterP!OpenPage, RegisterP!ProbeOptions, RegisterP!ChallengeArrives,
         RegisterP!RefreshChallenge, RegisterP!DropTile, RegisterP!TurnstileSolved,
         RegisterP!SendCode, RegisterP!MadeUp, RegisterP!TypeCode, RegisterP!Submit,
         RegisterP!Requests, RegisterP!Gate, RegisterP!ShowSuccess, RegisterP!ShowRefusal,
         RegisterP!LoseAnswer, RegisterP!formVars, RegisterP!sendVars, RegisterP!gateVars,
         RegisterP!setVars, RegisterP!sliderVars, RegisterP!Nothing, RegisterP!probeVars,
         RegisterP!Refresh, RegisterP!MaySubmit, RegisterP!MoreToSend, RegisterP!GateTurnstile, RegisterP!GateReadsCode,
         RegisterP!GateConsumesCode, RegisterP!GateSlider, RegisterP!GateAddress,
         RegisterP!Upstream, RegisterP!At, RegisterP!Unlock, RegisterP!To, RegisterP!Pays,
         RegisterP!PageIdle
<1>3. UNCHANGED registerVars => UNCHANGED RegisterP!registerVars
  BY DEF registerVars, RegisterP!registerVars
<1>4. [Next]_portalVars => [RegisterP!Next]_RegisterP!registerVars
  BY <1>2, <1>3 DEF Next, portalVars
<1>5. QED
  BY <1>1, <1>4, PTL DEF Spec, RegisterP!Spec

\* The same of the desk.
LEMMA DeskLift == Spec => DeskP!Spec
<1>1. Init => DeskP!Init
  BY DEF Init, Desk!Init, Desk!Roles, Desk!Forms, DeskP!Init, DeskP!Roles, DeskP!Forms
<1>2. Desk!Next => DeskP!Next
  BY DEF Desk!Next, Desk!Works, Desk!Serve, Desk!Hears, Desk!OpenPage, Desk!Reload,
         Desk!handleQuickCreate, Desk!handleAssignPackage, Desk!handleUpdateRole,
         Desk!handleBindDistributor, Desk!Forms, Desk!Deny, Desk!ReadLists, Desk!CreateUser,
         Desk!ResolveRole, Desk!CheckRole, Desk!WriteRole, Desk!ResolveBinding, Desk!CheckBinding,
         Desk!WriteBinding, Desk!ResolveAssignment, Desk!WriteAssignment, Desk!ListsArrive,
         Desk!FormArrives, Desk!Send, Desk!tableVars, Desk!Press, Desk!Roles, Desk!At, Desk!To,
         Desk!Desk, Desk!Served, Desk!hasOtherLocalAdmin, Desk!isUserBoundToDistributor,
         Desk!Answered, Desk!Gone, Desk!Request, Desk!Answers, Desk!Answer, DeskP!Next,
         DeskP!Works, DeskP!Serve, DeskP!Hears, DeskP!OpenPage, DeskP!Reload,
         DeskP!handleQuickCreate, DeskP!handleAssignPackage, DeskP!handleUpdateRole,
         DeskP!handleBindDistributor, DeskP!Forms, DeskP!Deny, DeskP!ReadLists, DeskP!CreateUser,
         DeskP!ResolveRole, DeskP!CheckRole, DeskP!WriteRole, DeskP!ResolveBinding,
         DeskP!CheckBinding, DeskP!WriteBinding, DeskP!ResolveAssignment, DeskP!WriteAssignment,
         DeskP!ListsArrive, DeskP!FormArrives, DeskP!Send, DeskP!tableVars, DeskP!Press,
         DeskP!Roles, DeskP!At, DeskP!To, DeskP!Desk, DeskP!Served, DeskP!hasOtherLocalAdmin,
         DeskP!isUserBoundToDistributor, DeskP!Answered, DeskP!Gone, DeskP!Request, DeskP!Answers,
         DeskP!Answer, Desk!Cardinality, DeskP!Cardinality
<1>3. UNCHANGED deskVars => UNCHANGED DeskP!deskVars
  BY DEF deskVars, DeskP!deskVars, DeskP!tableVars
<1>4. [Next]_portalVars => [DeskP!Next]_DeskP!deskVars
  BY <1>2, <1>3 DEF Next, portalVars
<1>5. QED
  BY <1>1, <1>4, PTL DEF Spec, DeskP!Spec

\* The answer on its way to the page is as true as what the page shows.
AnswerIsTrue ==
    /\ ckCall = "fulfilled" => ckJob = "fulfilled"
    /\ ckCall = "failed" => ckJob = "failed_terminal"

\* The same of what the page shows, wherever it is open.
ShownIsTrue ==
    /\ ckShown = "fulfilled" => ckJob = "fulfilled"
    /\ ckShown = "failed" => ckJob = "failed_terminal"

\* Only the address that Stripe gives after a payment is polled for, and only a final status
\* or an error has stopped the polling.
StoppedForCause ==
    /\ ckUrl = "paid" => ckPoll \in {"calling", "pausing", "stopped"}
    /\ ckPoll = "off" => ckUrl = "none"
    /\ ckPoll = "stopped" => ckShown \in Checkout!Final \/ ckError

CheckoutInv == Checkout!TypeOK /\ AnswerIsTrue /\ ShownIsTrue /\ StoppedForCause

-----------------------------------------------------------------------------
\* What every step does to the job: a settled one stays as it is.
JobGoesOn ==
    /\ ckJob' \in Checkout!Settled \cup {"none", "paid_unfulfilled", "failed_retryable"}
    /\ ckRetries' \in 0..MaxRetries /\ ckDue' \in BOOLEAN
    /\ ckJob \in Checkout!Settled => ckJob' = ckJob

(* A job that is left alone goes on.                                          *)
LEMMA LeftAlone ==
    ASSUME Checkout!TypeOK, UNCHANGED Checkout!jobVars PROVE JobGoesOn
<1>1. ckJob' = ckJob /\ ckRetries' = ckRetries /\ ckDue' = ckDue
  BY DEF Checkout!jobVars
<1>2. QED
  BY <1>1 DEF Checkout!TypeOK, JobGoesOn

(* A reset, whichever copy of the counter it writes, leaves a settled job     *)
(* alone.                                                                     *)
LEMMA ResetKeeps ==
    ASSUME Checkout!TypeOK, NEW count \in 0..MaxRetries,
           Checkout!Resettable, Checkout!Reset(count)
    PROVE  JobGoesOn
<1>1. ckJob \notin Checkout!Settled
  BY DEF Checkout!Resettable, Checkout!canTransition, Checkout!Settled
<1>2. QED
  BY <1>1 DEF Checkout!Reset, JobGoesOn

(* A verdict that is accepted leaves the counter in its bounds and a settled  *)
(* job as it is.                                                              *)
LEMMA SettleKeeps ==
    ASSUME Checkout!CheckoutAssumption, Checkout!TypeOK,
           NEW result \in {"ok", "retryable", "terminal"}, Checkout!Settle(result)
    PROVE  JobGoesOn
<1>1. Checkout!Verdict(result) \in Checkout!Settled \cup {"failed_retryable"}
  BY DEF Checkout!Verdict, Checkout!Settled
<1>2. Checkout!Verdict(result) = "failed_retryable" => ckRetries < MaxRetries
  BY DEF Checkout!Verdict
<1>3. /\ ckJob' = Checkout!Verdict(result)
      /\ ckDue' = (Checkout!Verdict(result) # "failed_retryable")
      /\ ckRetries' = IF Checkout!Verdict(result) = "failed_retryable" THEN ckRetries + 1
                      ELSE ckRetries
  BY DEF Checkout!Settle
<1>4. ckDue' \in BOOLEAN
  BY <1>3
<1>5. ckRetries \in Nat /\ MaxRetries \in Nat /\ ckRetries <= MaxRetries
  BY DEF Checkout!TypeOK, Checkout!CheckoutAssumption
<1>6. ckRetries' \in 0..MaxRetries
  BY <1>2, <1>3, <1>5
<1>7. ckJob \in Checkout!Settled => ckJob' = ckJob
  BY <1>3 DEF Checkout!Settle, Checkout!canTransition
<1>8. QED
  BY <1>1, <1>3, <1>4, <1>6, <1>7 DEF JobGoesOn

(* The same of the end of an execution, whatever becomes of its outcome.      *)
LEMMA SettlesKeeps ==
    ASSUME Checkout!CheckoutAssumption, Checkout!TypeOK, Checkout!Settles
    PROVE  JobGoesOn
  BY SettleKeeps, LeftAlone DEF Checkout!Settles

(* What the endpoint derives from a job is an answer, and a final one is true *)
(* of the job.                                                                *)
LEMMA DeriveTells ==
    ASSUME NEW job, NEW linked \in BOOLEAN
    PROVE  /\ Checkout!Derive(job, linked) \in Checkout!Answers \ {"error"}
           /\ Checkout!Derive(job, linked) = "fulfilled" => job = "fulfilled"
           /\ Checkout!Derive(job, linked) = "failed" => job = "failed_terminal"
  BY DEF Checkout!Derive, Checkout!Answers, Checkout!Final

(* The invariant holds at the start.                                          *)
LEMMA CheckoutInitInv == Checkout!CheckoutAssumption /\ Checkout!Init => CheckoutInv
<1> SUFFICES ASSUME Checkout!CheckoutAssumption, Checkout!Init PROVE CheckoutInv
  OBVIOUS
<1>1. 0 \in 0..MaxRetries /\ 0 \in 0..MaxErrors /\ 0 \in Nat
  BY DEF Checkout!CheckoutAssumption
<1>2. Checkout!TypeOK
  BY <1>1 DEF Checkout!Init, Checkout!TypeOK, Checkout!Settled, Checkout!Answers, Checkout!Final
<1>3. AnswerIsTrue /\ ShownIsTrue /\ StoppedForCause
  BY DEF Checkout!Init, AnswerIsTrue, ShownIsTrue, StoppedForCause
<1>4. QED
  BY <1>2, <1>3 DEF CheckoutInv

-----------------------------------------------------------------------------
(* What is true of the job stays true of it.                                  *)
LEMMA StaysTrue ==
    ASSUME CheckoutInv, JobGoesOn
    PROVE  /\ UNCHANGED ckCall => AnswerIsTrue'
           /\ UNCHANGED ckShown => ShownIsTrue'
  BY DEF CheckoutInv, JobGoesOn, AnswerIsTrue, ShownIsTrue, Checkout!Settled

(* A step of the backend leaves the page alone, and if it keeps the types of  *)
(* its own, and does not touch the request, it preserves the invariant.       *)
LEMMA BackgroundKeeps ==
    ASSUME CheckoutInv, JobGoesOn, UNCHANGED <<Checkout!callVars, Checkout!pageVars>>,
           ckOther' \in {"idle", "listed", "resetting"}, ckHeld' \in 0..MaxRetries,
           ckRunning' \in Nat,
           ckEvent' \in {"none", "due", "executing", "executed", "done"},
           ckLinked' \in BOOLEAN, ckErrors' \in 0..MaxErrors
    PROVE  CheckoutInv'
<1>1. UNCHANGED <<ckCall, ckSeen, ckUrl, ckPoll, ckShown, ckError, ckLoading, ckTimer>>
  BY DEF Checkout!callVars, Checkout!pageVars
<1>2. Checkout!TypeOK'
  BY <1>1 DEF CheckoutInv, Checkout!TypeOK, JobGoesOn
<1>3. StoppedForCause'
  BY <1>1 DEF CheckoutInv, StoppedForCause
<1>4. QED
  BY <1>1, <1>2, <1>3, StaysTrue DEF CheckoutInv

(* The steps of the job, of whoever retries it, and of the webhook.           *)
LEMMA CheckoutBackendStep ==
    ASSUME Checkout!CheckoutAssumption, CheckoutInv,
           \/ Checkout!Pay \/ Checkout!Hook \/ Checkout!WorkerLists \/ Checkout!AdminLooks
           \/ Checkout!OtherGoesOn \/ Checkout!DelayElapses \/ Checkout!RunEnds
           \/ Checkout!HookEnds
    PROVE  CheckoutInv'
<1>1. Checkout!TypeOK
  BY DEF CheckoutInv
<1>2. /\ ckOther \in {"idle", "listed", "resetting"} /\ {ckRetries, ckHeld} \subseteq 0..MaxRetries
      /\ ckRunning \in Nat
      /\ ckEvent \in {"none", "due", "executing", "executed", "done"}
      /\ ckLinked \in BOOLEAN /\ ckErrors \in 0..MaxErrors
  BY <1>1 DEF Checkout!TypeOK
<1>3. 0 \in 0..MaxRetries
  BY DEF Checkout!CheckoutAssumption
<1>4. CASE Checkout!Pay
  BY <1>1, <1>2, <1>4, LeftAlone, BackgroundKeeps DEF Checkout!Pay, Checkout!runVars
<1>5. CASE Checkout!EventArrives
  <2>1. JobGoesOn
    BY <1>1, <1>5 DEF Checkout!EventArrives, Checkout!TypeOK, JobGoesOn, Checkout!Settled
  <2>2. QED
    BY <1>2, <1>5, <2>1, BackgroundKeeps DEF Checkout!EventArrives, Checkout!runVars
<1>6. CASE Checkout!HookMarks
  BY <1>1, <1>2, <1>6, LeftAlone, BackgroundKeeps DEF Checkout!HookMarks, Checkout!runVars
<1>7. CASE Checkout!HookFails
  <2>1. ckErrors' \in 0..MaxErrors
    BY <1>2, <1>7 DEF Checkout!HookFails, Checkout!CheckoutAssumption
  <2>2. QED
    BY <1>1, <1>2, <1>7, <2>1, LeftAlone, BackgroundKeeps DEF Checkout!HookFails, Checkout!runVars
<1>8. CASE Checkout!WorkerLists \/ Checkout!AdminLooks
  <2>1. ckHeld' \in 0..MaxRetries
    BY <1>2, <1>8 DEF Checkout!WorkerLists, Checkout!AdminLooks
  <2>2. /\ ckOther' \in {"listed", "resetting"}
        /\ UNCHANGED <<Checkout!jobVars, ckRunning, Checkout!hookVars, Checkout!callVars,
                       Checkout!pageVars>>
    BY <1>8 DEF Checkout!WorkerLists, Checkout!AdminLooks
  <2>3. QED
    BY <1>1, <1>2, <2>1, <2>2, LeftAlone, BackgroundKeeps DEF Checkout!hookVars
<1>9. CASE Checkout!WorkerClaims
  <2>1. /\ ckOther' \in {"idle", "resetting"} /\ ckHeld' \in 0..MaxRetries
        /\ UNCHANGED <<ckRunning, Checkout!hookVars, Checkout!callVars, Checkout!pageVars>>
    BY <1>2, <1>3, <1>9 DEF Checkout!WorkerClaims
  <2>2. CASE ckJob = "failed_retryable"
    <3>1. Checkout!Resettable /\ Checkout!Reset(ckRetries)
      BY <1>9, <2>2 DEF Checkout!WorkerClaims, Checkout!Resettable, Checkout!canTransition,
          Checkout!Settled
    <3>2. QED
      BY <1>1, <1>2, <2>1, <3>1, ResetKeeps, BackgroundKeeps DEF Checkout!hookVars
  <2>3. CASE ckJob # "failed_retryable"
    <3>1. UNCHANGED Checkout!jobVars
      BY <1>9, <2>3 DEF Checkout!WorkerClaims
    <3>2. QED
      BY <1>1, <1>2, <2>1, <3>1, LeftAlone, BackgroundKeeps DEF Checkout!hookVars
  <2>4. QED
    BY <2>2, <2>3
<1>10. CASE Checkout!OtherResets
  <2>1. /\ ckOther' = "idle" /\ ckHeld' = 0
        /\ UNCHANGED <<Checkout!hookVars, Checkout!callVars, Checkout!pageVars>>
    BY <1>10 DEF Checkout!OtherResets
  <2>2. \/ Checkout!Resettable /\ Checkout!Reset(ckHeld) /\ ckRunning' = ckRunning + 1
        \/ UNCHANGED <<Checkout!jobVars, ckRunning>>
    BY <1>10 DEF Checkout!OtherResets
  <2>3. JobGoesOn
    BY <1>1, <1>2, <2>2, ResetKeeps, LeftAlone
  <2>4. ckRunning' \in Nat
    BY <1>2, <2>2
  <2>5. QED
    BY <1>2, <1>3, <2>1, <2>3, <2>4, BackgroundKeeps DEF Checkout!hookVars
<1>11. CASE Checkout!DelayElapses
  <2>1. JobGoesOn
    BY <1>1, <1>11 DEF Checkout!DelayElapses, Checkout!TypeOK, JobGoesOn
  <2>2. QED
    BY <1>2, <1>11, <2>1, BackgroundKeeps DEF Checkout!DelayElapses, Checkout!runVars,
        Checkout!hookVars
<1>12. CASE Checkout!RunEnds
  <2>1. ckRunning' \in Nat
    BY <1>2, <1>12 DEF Checkout!RunEnds
  <2>2. JobGoesOn
    BY <1>1, <1>12, SettlesKeeps DEF Checkout!RunEnds
  <2>3. QED
    BY <1>2, <1>12, <2>1, <2>2, BackgroundKeeps DEF Checkout!RunEnds, Checkout!hookVars
<1>13. CASE Checkout!HookEnds
  <2>1. JobGoesOn
    BY <1>1, <1>13, SettlesKeeps DEF Checkout!HookEnds
  <2>2. QED
    BY <1>2, <1>13, <2>1, BackgroundKeeps DEF Checkout!HookEnds, Checkout!runVars
<1>14. QED
  BY <1>4, <1>5, <1>6, <1>7, <1>8, <1>9, <1>10, <1>11, <1>12, <1>13
  DEF Checkout!Hook, Checkout!OtherGoesOn

(* What a request leaves behind has the types of what the others do.          *)
LEMMA AbandonKeeps ==
    ASSUME Checkout!CheckoutAssumption, Checkout!TypeOK, Checkout!Abandon
    PROVE  /\ ckOther' \in {"idle", "listed", "resetting"} /\ ckRunning' \in Nat
           /\ ckHeld' \in 0..MaxRetries /\ ckSeen' \in 0..MaxRetries
<1>1. 0 \in 0..MaxRetries /\ ckSeen' = 0
  BY DEF Checkout!CheckoutAssumption, Checkout!Abandon
<1>2. ckRunning' \in Nat
  BY DEF Checkout!Abandon, Checkout!TypeOK
<1>3. ckOther' \in {"idle", "listed", "resetting"} /\ ckHeld' \in 0..MaxRetries
  BY DEF Checkout!Abandon, Checkout!TypeOK
<1>4. QED
  BY <1>1, <1>2, <1>3

(* A request goes on or is answered: what it says is true when it leaves the  *)
(* backend.                                                                   *)
LEMMA CheckoutCallStep ==
    ASSUME Checkout!CheckoutAssumption, CheckoutInv, Checkout!PollEnds \/ Checkout!CallEnds
    PROVE  CheckoutInv'
<1>1. Checkout!TypeOK /\ StoppedForCause
  BY DEF CheckoutInv
<1>2. UNCHANGED <<Checkout!hookVars, Checkout!pageVars>>
  BY DEF Checkout!PollEnds, Checkout!CallEnds, Checkout!Look, Checkout!PollResets,
         Checkout!PollAnswers, Checkout!CallFails
<1>3. UNCHANGED <<ckEvent, ckLinked, ckErrors, ckUrl, ckPoll, ckShown, ckError, ckLoading, ckTimer>>
  BY <1>2 DEF Checkout!hookVars, Checkout!pageVars
<1>4. StoppedForCause'
  BY <1>1, <1>3 DEF StoppedForCause
\* What the request must keep to.
<1>5. ASSUME JobGoesOn, AnswerIsTrue', ckSeen' \in 0..MaxRetries,
             ckCall' \in Checkout!Answers
                 \cup {"none", "sent", "looked", "executing", "executed"},
             ckOther' \in {"idle", "listed", "resetting"}, ckHeld' \in 0..MaxRetries,
             ckRunning' \in Nat
      PROVE  CheckoutInv'
  <2>1. Checkout!TypeOK'
    BY <1>1, <1>3, <1>5 DEF Checkout!TypeOK, JobGoesOn
  <2>2. QED
    BY <1>3, <1>4, <1>5, <2>1, StaysTrue DEF CheckoutInv
<1>6. /\ ckOther \in {"idle", "listed", "resetting"} /\ ckRunning \in Nat
      /\ {ckRetries, ckHeld, ckSeen} \subseteq 0..MaxRetries /\ ckLinked \in BOOLEAN
  BY <1>1 DEF Checkout!TypeOK
<1>7. 0 \in 0..MaxRetries
  BY DEF Checkout!CheckoutAssumption
<1>8. CASE Checkout!Look
  <2>1. UNCHANGED <<Checkout!jobVars, ckOther, ckHeld, ckRunning>> /\ JobGoesOn
    BY <1>1, <1>8, LeftAlone DEF Checkout!Look, Checkout!runVars
  <2>2. CASE ckLinked /\ ckJob = "failed_retryable" /\ ckDue
    <3>1. ckCall' = "looked" /\ ckSeen' = ckRetries
      BY <1>8, <2>2 DEF Checkout!Look
    <3>2. AnswerIsTrue'
      BY <3>1 DEF AnswerIsTrue
    <3>3. QED
      BY <1>5, <1>6, <2>1, <3>1, <3>2
  <2>3. CASE ~(ckLinked /\ ckJob = "failed_retryable" /\ ckDue)
    <3>1. ckCall' = Checkout!Derive(ckJob, ckLinked) /\ ckSeen' = ckSeen
      BY <1>8, <2>3 DEF Checkout!Look
    <3>2. ckCall' \in Checkout!Answers
      BY <1>6, <3>1, DeriveTells
    <3>3. AnswerIsTrue'
      BY <1>6, <2>1, <3>1, DeriveTells DEF AnswerIsTrue, Checkout!jobVars
    <3>4. QED
      BY <1>5, <1>6, <2>1, <3>1, <3>2, <3>3
  <2>4. QED
    BY <2>2, <2>3
<1>9. CASE Checkout!PollResets
  <2>1. ckSeen' = 0 /\ ckCall' \in {"executing", "error"} /\ UNCHANGED <<ckOther, ckHeld, ckRunning>>
    BY <1>9 DEF Checkout!PollResets, Checkout!runVars
  <2>2. JobGoesOn
    BY <1>1, <1>6, <1>9, ResetKeeps, LeftAlone DEF Checkout!PollResets
  <2>3. AnswerIsTrue'
    BY <2>1 DEF AnswerIsTrue
  <2>4. QED
    BY <1>5, <1>6, <1>7, <2>1, <2>2, <2>3 DEF Checkout!Answers
<1>10. CASE Checkout!PollEnds
  <2>1. ckCall' = "executed" /\ UNCHANGED <<ckSeen, ckOther, ckHeld, ckRunning>>
    BY <1>10 DEF Checkout!PollEnds, Checkout!runVars
  <2>2. JobGoesOn
    BY <1>1, <1>10, SettlesKeeps DEF Checkout!PollEnds
  <2>3. AnswerIsTrue'
    BY <2>1 DEF AnswerIsTrue
  <2>4. QED
    BY <1>5, <1>6, <2>1, <2>2, <2>3
<1>11. CASE Checkout!PollAnswers
  <2>1. /\ ckCall' = Checkout!Derive(ckJob, ckLinked) /\ ckJob' = ckJob
        /\ UNCHANGED <<ckSeen, ckOther, ckHeld, ckRunning>>
    BY <1>11 DEF Checkout!PollAnswers, Checkout!runVars, Checkout!jobVars
  <2>2. JobGoesOn
    BY <1>1, <1>11, LeftAlone DEF Checkout!PollAnswers
  <2>3. ckCall' \in Checkout!Answers
    BY <1>6, <2>1, DeriveTells
  <2>4. AnswerIsTrue'
    BY <1>6, <2>1, DeriveTells DEF AnswerIsTrue
  <2>5. QED
    BY <1>5, <1>6, <2>1, <2>2, <2>3, <2>4
<1>12. CASE Checkout!CallFails
  <2>1. ckCall' = "error" /\ Checkout!Abandon /\ UNCHANGED Checkout!jobVars
    BY <1>12 DEF Checkout!CallFails
  <2>2. AnswerIsTrue'
    BY <2>1 DEF AnswerIsTrue
  <2>3. QED
    BY <1>1, <1>5, <2>1, <2>2, LeftAlone, AbandonKeeps DEF Checkout!Answers
<1>13. QED
  BY <1>8, <1>9, <1>10, <1>11, <1>12 DEF Checkout!CallEnds

(* The page's own steps leave the job and the webhook alone.                  *)
LEMMA CheckoutPageStep ==
    ASSUME Checkout!CheckoutAssumption, CheckoutInv,
           \/ \E url \in {"paid", "cancelled", "bare"} : Checkout!OpenPage(url)
           \/ Checkout!PageMovesOn \/ Checkout!TimerFires \/ Checkout!ClosePage
    PROVE  CheckoutInv'
<1> USE DEF CheckoutInv, AnswerIsTrue, ShownIsTrue, StoppedForCause
<1>1. UNCHANGED <<Checkout!jobVars, Checkout!hookVars>>
  BY DEF Checkout!OpenPage, Checkout!PageMovesOn, Checkout!AnswerArrives, Checkout!ErrorArrives,
      Checkout!PauseEnds, Checkout!TimerFires, Checkout!ClosePage
<1>2. CASE \E url \in {"paid", "cancelled", "bare"} : Checkout!OpenPage(url)
  <2>1. PICK url \in {"paid", "cancelled", "bare"} : Checkout!OpenPage(url)
    BY <1>2
  <2>2. Checkout!TypeOK'
    <3>1. CASE url = "paid"
      BY <1>1, <2>1, <3>1 DEF Checkout!OpenPage, Checkout!TypeOK, Checkout!jobVars,
          Checkout!hookVars, Checkout!runVars
    <3>2. CASE url # "paid"
      BY <1>1, <2>1, <3>2 DEF Checkout!OpenPage, Checkout!TypeOK, Checkout!jobVars,
          Checkout!hookVars, Checkout!runVars
    <3>3. QED
      BY <3>1, <3>2
  <2>3. /\ UNCHANGED <<ckJob, ckShown, ckError>> /\ ckUrl' = url
        /\ ckPoll' = IF url = "paid" THEN "calling" ELSE "never"
        /\ ckCall' = "sent" \/ UNCHANGED ckCall
    BY <1>1, <2>1 DEF Checkout!OpenPage, Checkout!jobVars
  <2>4. QED
    BY <2>2, <2>3
<1>3. CASE Checkout!AnswerArrives
  <2>1. /\ ckPoll = "calling" /\ ckCall \in Checkout!Answers \ {"error"} /\ ckCall' = "none"
        /\ ckShown' = ckCall /\ ckError' = FALSE /\ ckPoll' \in {"stopped", "pausing"}
        /\ ckPoll' = "stopped" => ckCall \in Checkout!Final
        /\ ckTimer' \in {ckTimer, "off"}
        /\ UNCHANGED <<Checkout!runVars, ckSeen, ckUrl>>
    BY <1>3 DEF Checkout!AnswerArrives
  <2>2. ckLoading' \in BOOLEAN
    BY <1>3 DEF Checkout!AnswerArrives, Checkout!TypeOK
  <2>3. ckTimer' \in {"off", "set", "fired"}
    BY <2>1 DEF Checkout!TypeOK
  <2>4. /\ ckPoll' \in {"off", "never", "calling", "pausing", "stopped"}
        /\ ckCall' \in Checkout!Answers
               \cup {"none", "sent", "looked", "executing", "executed"}
        /\ ckShown' \in (Checkout!Answers \ {"error"}) \cup {"none"}
        /\ ckError' \in BOOLEAN
    BY <2>1
  <2>5. UNCHANGED <<ckJob, ckRetries, ckDue, ckEvent, ckLinked, ckErrors, ckOther, ckHeld,
                    ckRunning, ckSeen, ckUrl>>
    BY <1>1, <2>1 DEF Checkout!jobVars, Checkout!hookVars, Checkout!runVars
  <2>6. Checkout!TypeOK'
    BY <2>2, <2>3, <2>4, <2>5 DEF Checkout!TypeOK
  <2>7. QED
    BY <2>1, <2>5, <2>6
<1>4. CASE Checkout!ErrorArrives
  BY <1>1, <1>4 DEF Checkout!ErrorArrives, Checkout!TypeOK, Checkout!jobVars, Checkout!hookVars,
      Checkout!runVars
<1>5. CASE Checkout!PauseEnds
  BY <1>1, <1>5 DEF Checkout!PauseEnds, Checkout!TypeOK, Checkout!jobVars, Checkout!hookVars,
      Checkout!runVars
<1>6. CASE Checkout!TimerFires
  <2>1. Checkout!TypeOK'
    BY <1>1, <1>6 DEF Checkout!TimerFires, Checkout!TypeOK, Checkout!jobVars, Checkout!hookVars,
        Checkout!runVars, Checkout!callVars
  <2>2. QED
    BY <1>1, <1>6, <2>1 DEF Checkout!TimerFires, Checkout!jobVars, Checkout!callVars
<1>7. CASE Checkout!ClosePage
  <2>1. /\ Checkout!Abandon /\ ckUrl' = "none" /\ ckPoll' = "off" /\ ckCall' = "none"
        /\ ckTimer' = "off" /\ ckShown' = "none" /\ ckError' = FALSE /\ ckLoading' = TRUE
    BY <1>7 DEF Checkout!ClosePage
  <2>2. /\ ckOther' \in {"idle", "listed", "resetting"} /\ ckRunning' \in Nat
        /\ ckHeld' \in 0..MaxRetries /\ ckSeen' \in 0..MaxRetries
    BY <2>1, AbandonKeeps
  <2>3. Checkout!TypeOK'
    BY <1>1, <2>1, <2>2 DEF Checkout!TypeOK, Checkout!jobVars, Checkout!hookVars
  <2>4. QED
    BY <2>1, <2>3
<1>8. QED
  BY <1>2, <1>3, <1>4, <1>5, <1>6, <1>7 DEF Checkout!PageMovesOn

(* Every step preserves the invariant.                                        *)
LEMMA CheckoutNextInv ==
    Checkout!CheckoutAssumption /\ CheckoutInv /\ [Checkout!Next]_Checkout!checkoutVars
        => CheckoutInv'
<1> SUFFICES ASSUME Checkout!CheckoutAssumption, CheckoutInv,
                    [Checkout!Next]_Checkout!checkoutVars
             PROVE  CheckoutInv'
  OBVIOUS
<1>1. CASE Checkout!Next
  BY <1>1, CheckoutBackendStep, CheckoutCallStep, CheckoutPageStep DEF Checkout!Next,
      Checkout!ExecutionEnds
<1>2. CASE UNCHANGED Checkout!checkoutVars
  BY <1>2 DEF Checkout!checkoutVars, Checkout!jobVars, Checkout!runVars, Checkout!hookVars,
      Checkout!callVars, Checkout!pageVars, CheckoutInv, Checkout!TypeOK, AnswerIsTrue,
      ShownIsTrue, StoppedForCause
<1>3. QED
  BY <1>1, <1>2

-----------------------------------------------------------------------------
(* The invariant holds throughout.                                            *)
LEMMA CheckoutInvariance ==
    ASSUME Checkout!CheckoutAssumption PROVE Checkout!Spec => []CheckoutInv
  BY CheckoutInitInv, CheckoutNextInv, PTL DEF Checkout!Spec

-----------------------------------------------------------------------------
(* The dashboard.                                                             *)

\* The page has and has sent nothing before it is opened, and has a range from then on.
HomeOpens ==
    IF dbPage = "closed" THEN dbData = None /\ dbCalls = [s \in HomeCalls |-> None]
                         ELSE dbRange \in Ranges

\* A load that still counts for the effect was sent for the range of now: a change of
\* the range disowns those under way.
EffectIsCurrent ==
    \A s \in HomeCalls :
        dbCalls[s] # None /\ dbCalls[s].op = "effect" /\ dbCalls[s].mine
            => dbCalls[s].range = dbRange

\* The card waits for an answer to what it has sent.
Awaits(op) == \E s \in HomeCalls : dbCalls[s] # None /\ dbCalls[s].op = op /\ dbCalls[s].mine

\* Only a card that is on the page is locked, and it awaits what each of its locks is for.
LocksAreHeld == \A op \in dbLock : Home!CardShown /\ Awaits(op)

HomeInv ==
    /\ Home!TypeOK /\ HomeOpens /\ EffectIsCurrent
    /\ Home!DataIsOfItsRange /\ LocksAreHeld

(* A request that is put under way takes a free slot, and nothing from the    *)
(* others; a request that is dropped leaves the others alone.                 *)
LEMMA HomePuts ==
    ASSUME Home!DashboardAssumption, NEW calls \in [HomeCalls -> Home!Calls \cup {None}],
           NEW op \in {"effect", "reload", "redeem", "checkout"}, NEW r \in Ranges
    PROVE  /\ Home!Put(calls, op, r) \in [HomeCalls -> Home!Calls \cup {None}]
           /\ \A s \in HomeCalls :
                 \/ Home!Put(calls, op, r)[s] = calls[s]
                 \/ /\ Home!Put(calls, op, r)[s] # None
                    /\ Home!Put(calls, op, r)[s].op = op
                    /\ Home!Put(calls, op, r)[s].range = r
           /\ Home!Free(calls) # {} =>
                 /\ \A s \in HomeCalls : calls[s] # None => Home!Put(calls, op, r)[s] = calls[s]
                 /\ \E s \in HomeCalls : /\ Home!Put(calls, op, r)[s] # None
                                         /\ Home!Put(calls, op, r)[s].op = op
                                         /\ Home!Put(calls, op, r)[s].mine
<1> DEFINE slot == CHOOSE s \in Home!Free(calls) : TRUE
           new == [op |-> op, range |-> r, mine |-> TRUE, at |-> "sent"]
<1>1. Home!Put(calls, op, r) = [calls EXCEPT ![slot] = new]
  BY DEF Home!Put
<1>2. new \in Home!Calls
  BY DEF Home!Calls
<1>3. new # None /\ new.op = op /\ new.range = r /\ new.mine
  BY <1>2 DEF Home!DashboardAssumption
<1>4. Home!Free(calls) # {} => slot \in HomeCalls /\ calls[slot] = None
  BY DEF Home!Free
<1> HIDE DEF slot, new
<1>5. Home!Put(calls, op, r) \in [HomeCalls -> Home!Calls \cup {None}]
  BY <1>1, <1>2
<1>6. \A s \in HomeCalls : Home!Put(calls, op, r)[s] = IF s = slot THEN new ELSE calls[s]
  BY <1>1
<1>7. QED
  BY <1>3, <1>4, <1>5, <1>6

(* Disowned requests stay what they are, but for being disowned.              *)
LEMMA HomeDisowns ==
    ASSUME Home!DashboardAssumption, NEW calls \in [HomeCalls -> Home!Calls \cup {None}], NEW ops
    PROVE  /\ Home!Disown(calls, ops) \in [HomeCalls -> Home!Calls \cup {None}]
           /\ \A s \in HomeCalls :
                 LET call == Home!Disown(calls, ops)[s] IN
                 /\ call = None <=> calls[s] = None
                 /\ call # None => /\ call.op = calls[s].op /\ call.range = calls[s].range
                                   /\ call.mine => calls[s].mine /\ call.op \notin ops
<1>1. SUFFICES ASSUME NEW s \in HomeCalls
               PROVE  LET call == Home!Disown(calls, ops)[s] IN
                      /\ call \in Home!Calls \cup {None}
                      /\ call = None <=> calls[s] = None
                      /\ call # None => /\ call.op = calls[s].op /\ call.range = calls[s].range
                                        /\ call.mine => calls[s].mine /\ call.op \notin ops
  BY DEF Home!Disown
<1> DEFINE mine == calls[s]
           gone == [calls[s] EXCEPT !.mine = FALSE]
<1>2. CASE mine # None /\ mine.op \in ops
  <2>1. Home!Disown(calls, ops)[s] = gone
    BY <1>2 DEF Home!Disown
  <2>2. mine \in Home!Calls
    BY <1>2
  <2>3. gone \in Home!Calls /\ gone.op = mine.op /\ gone.range = mine.range /\ gone.mine = FALSE
    BY <2>2 DEF Home!Calls
  <2>4. gone # None
    BY <2>3 DEF Home!DashboardAssumption
  <2> HIDE DEF gone
  <2>5. QED
    BY <1>2, <2>1, <2>3, <2>4
<1>3. CASE ~(mine # None /\ mine.op \in ops)
  BY <1>3 DEF Home!Disown
<1>4. QED
  BY <1>2, <1>3

\* The requests that are left were under way before, for the same, and none counts again.
Fewer(new, old) ==
    \A s \in HomeCalls :
        new[s] # None => /\ old[s] # None
                         /\ new[s].op = old[s].op /\ new[s].range = old[s].range
                         /\ new[s].mine => old[s].mine

(* Whatever a handler makes of the card, the card is there if it is locked.   *)
LEMMA HomeCard ==
    ASSUME NEW typed \in BOOLEAN, NEW lock \in SUBSET {"redeem", "checkout"},
           NEW message \in {"none", "error", "accepted"},
           Home!Card([typed |-> typed, lock |-> lock, message |-> message])
    PROVE  /\ dbTyped' \in BOOLEAN /\ dbLock' \subseteq {"redeem", "checkout"}
           /\ dbMessage' \in {"none", "error", "accepted"}
           /\ dbLock' # {} => Home!CardShown' /\ dbLock' = lock
<1>1. CASE Home!CardShown'
  BY <1>1 DEF Home!Card
<1>2. CASE ~Home!CardShown'
  BY <1>2 DEF Home!Card, Home!NoCard
<1>3. QED
  BY <1>1, <1>2

(* A card that is not shown keeps nothing: no text, no lock and no message.   *)
LEMMA HomeNoCard ==
    ASSUME Home!Card(Home!NoCard)
    PROVE  dbTyped' = FALSE /\ dbLock' = {} /\ dbMessage' = "none"
  BY DEF Home!Card, Home!NoCard

(* The parts of the invariant that only the requests and the range touch.     *)
LEMMA HomeFewer ==
    ASSUME EffectIsCurrent, Fewer(dbCalls', dbCalls), dbRange' = dbRange
    PROVE  EffectIsCurrent'
  BY DEF EffectIsCurrent, Fewer

(* The invariant holds at the start.                                          *)
LEMMA HomeInitInv == Home!DashboardAssumption /\ Home!Init => HomeInv
  BY DEF Home!Init, HomeInv, Home!TypeOK, HomeOpens, EffectIsCurrent, Home!DataIsOfItsRange,
         LocksAreHeld

(* The page is opened, and another range is chosen.                           *)
LEMMA HomeRangeStep ==
    ASSUME Home!DashboardAssumption, HomeInv, NEW r \in Ranges,
           Home!OpenPage(r) \/ Home!ChangeRange(r)
    PROVE  HomeInv'
<1> USE DEF HomeInv
<1>0. dbCalls \in [HomeCalls -> Home!Calls \cup {None}]
  BY DEF Home!TypeOK
<1>1. CASE Home!OpenPage(r)
  <2>1. /\ dbPage' = "open" /\ dbRange' = r /\ dbCalls' = Home!Put(dbCalls, "effect", r)
        /\ dbCalls = [s \in HomeCalls |-> None] /\ dbData = None
        /\ UNCHANGED <<dbLoading, dbData, dbModal, dbTyped, dbLock, dbMessage>>
    BY <1>1 DEF Home!OpenPage, Home!cardVars, HomeOpens
  <2>2. Home!TypeOK' /\ HomeOpens'
    BY <1>0, <2>1, HomePuts DEF Home!TypeOK, HomeOpens
  <2>3. EffectIsCurrent'
    BY <1>0, <2>1, HomePuts DEF EffectIsCurrent
  <2>4. ~Home!Content /\ dbLock = {}
    BY <1>1 DEF Home!OpenPage, Home!Content, LocksAreHeld, Home!CardShown
  <2>5. LocksAreHeld'
    BY <2>1, <2>4 DEF LocksAreHeld
  <2>6. Home!DataIsOfItsRange'
    BY <2>1 DEF Home!DataIsOfItsRange
  <2>7. QED
    BY <2>2, <2>3, <2>5, <2>6
<1>2. CASE Home!ChangeRange(r)
  <2> DEFINE loads == Home!Disown(dbCalls, {"effect"})
             calls == Home!Orphans(loads)
  <2>1. /\ dbPage' = "open" /\ dbRange' = r /\ dbCalls' = Home!Put(calls, "effect", r)
        /\ dbLoading' = TRUE /\ UNCHANGED <<dbData, dbModal>> /\ Home!Card(Home!NoCard)
    BY <1>2 DEF Home!ChangeRange
  <2>2. dbTyped' = FALSE /\ dbLock' = {} /\ dbMessage' = "none"
    BY <2>1, HomeNoCard
  <2>3. /\ loads \in [HomeCalls -> Home!Calls \cup {None}]
        /\ \A s \in HomeCalls : loads[s] # None => ~(loads[s].mine /\ loads[s].op = "effect")
    BY <1>0, HomeDisowns
  <2>4. /\ calls \in [HomeCalls -> Home!Calls \cup {None}]
        /\ \A s \in HomeCalls : calls[s] # None => ~(calls[s].mine /\ calls[s].op = "effect")
    BY <2>3, HomeDisowns DEF Home!Orphans
  <2> HIDE DEF loads, calls
  <2>5. Home!TypeOK' /\ HomeOpens'
    BY <2>1, <2>2, <2>4, HomePuts DEF Home!TypeOK, HomeOpens
  <2>6. EffectIsCurrent'
    BY <2>1, <2>4, HomePuts DEF EffectIsCurrent
  <2>7. Home!DataIsOfItsRange' /\ LocksAreHeld'
    BY <2>1, <2>2 DEF Home!DataIsOfItsRange, Home!Content, LocksAreHeld
  <2>8. QED
    BY <2>5, <2>6, <2>7
<1>3. QED
  BY <1>1, <1>2

(* The other buttons around the card.                                         *)
LEMMA HomePageStep ==
    ASSUME Home!DashboardAssumption, HomeInv,
           \/ Home!reload \/ Home!signOut \/ Home!OpenPurchase \/ Home!ClosePurchase
           \/ Home!TypeCode
    PROVE  HomeInv'
<1> USE DEF HomeInv
<1>0. dbCalls \in [HomeCalls -> Home!Calls \cup {None}]
  BY DEF Home!TypeOK
<1>1. Home!Content /\ dbRange \in Ranges /\ dbRange' = dbRange /\ dbData' = dbData
  BY DEF Home!reload, Home!signOut, Home!OpenPurchase, Home!ClosePurchase, Home!TypeCode,
         Home!Content, Home!CardShown, HomeOpens
<1>2. CASE Home!reload
  <2>1. /\ dbCalls' = Home!Put(dbCalls, "reload", dbRange) /\ dbLoading' = TRUE
        /\ dbLock = {} /\ UNCHANGED <<dbPage, dbModal, dbTyped, dbLock, dbMessage>>
    BY <1>2 DEF Home!reload, Home!Pressed, LocksAreHeld, Home!CardShown, Home!cardVars
  <2>2. Home!TypeOK' /\ HomeOpens'
    BY <1>0, <1>1, <2>1, HomePuts DEF Home!TypeOK, HomeOpens, Home!Content
  <2>3. EffectIsCurrent'
    BY <1>0, <1>1, <2>1, HomePuts DEF EffectIsCurrent
  <2>4. Home!DataIsOfItsRange' /\ LocksAreHeld'
    BY <2>1 DEF Home!DataIsOfItsRange, Home!Content, LocksAreHeld
  <2>5. QED
    BY <2>2, <2>3, <2>4
<1>3. CASE Home!signOut \/ Home!OpenPurchase
  <2>1. /\ dbLock = {} /\ dbLock' = {} /\ UNCHANGED <<dbLoading, dbTyped, dbMessage, dbCalls>>
        /\ dbPage' \in {dbPage, "login"} /\ dbModal' \in BOOLEAN
    BY <1>3 DEF Home!signOut, Home!OpenPurchase, LocksAreHeld, Home!CardShown, Home!cardVars,
                Home!TypeOK
  <2>2. QED
    BY <1>1, <2>1 DEF Home!TypeOK, HomeOpens, EffectIsCurrent, Home!DataIsOfItsRange,
                      Home!Content, LocksAreHeld
<1>4. CASE Home!ClosePurchase
  <2>1. /\ dbCalls' = Home!Orphans(dbCalls) /\ dbModal' = FALSE
        /\ UNCHANGED <<dbPage, dbLoading>> /\ Home!Card(Home!NoCard)
    BY <1>4 DEF Home!ClosePurchase
  <2>2. dbTyped' = FALSE /\ dbLock' = {} /\ dbMessage' = "none"
    BY <2>1, HomeNoCard
  <2>3. dbCalls' \in [HomeCalls -> Home!Calls \cup {None}] /\ Fewer(dbCalls', dbCalls)
    BY <1>0, <2>1, HomeDisowns DEF Home!Orphans, Fewer
  <2>4. Home!TypeOK' /\ HomeOpens' /\ LocksAreHeld' /\ Home!DataIsOfItsRange'
    BY <1>1, <2>1, <2>2, <2>3 DEF Home!TypeOK, HomeOpens, LocksAreHeld, Home!DataIsOfItsRange,
                                  Home!Content
  <2>5. QED
    BY <1>1, <2>3, <2>4, HomeFewer
<1>5. CASE Home!TypeCode
  BY <1>1, <1>5 DEF Home!TypeCode, Home!TypeOK, HomeOpens, EffectIsCurrent, Home!Content,
                    Home!DataIsOfItsRange, LocksAreHeld, Home!CardShown, Awaits
<1>6. QED
  BY <1>2, <1>3, <1>4, <1>5

(* The card sends a request and is locked until its answer.                   *)
LEMMA HomePressStep ==
    ASSUME Home!DashboardAssumption, HomeInv,
           Home!handlePrepaidTopUp \/ Home!handlePackagePurchase
    PROVE  HomeInv'
<1> USE DEF HomeInv
<1>0. dbCalls \in [HomeCalls -> Home!Calls \cup {None}] /\ dbTyped \in BOOLEAN
      /\ dbLock \subseteq {"redeem", "checkout"}
  BY DEF Home!TypeOK
<1>1. PICK op \in {"redeem", "checkout"}, typed \in BOOLEAN :
         /\ Home!CardShown /\ Home!Pressed(op)
         /\ UNCHANGED <<dbPage, dbRange, dbLoading, dbData, dbModal>>
         /\ Home!Card([typed |-> typed, lock |-> dbLock \cup {op}, message |-> "none"])
  <2>1. CASE Home!handlePrepaidTopUp
    BY <2>1 DEF Home!handlePrepaidTopUp
  <2>2. CASE Home!handlePackagePurchase
    BY <1>0, <2>2 DEF Home!handlePackagePurchase
  <2>3. QED
    BY <2>1, <2>2
<1>2. dbPage = "open" /\ dbRange \in Ranges /\ dbLock \cup {op} \in SUBSET {"redeem", "checkout"}
  BY <1>0, <1>1 DEF Home!CardShown, Home!Content, HomeOpens
<1>3. dbCalls' = Home!Put(dbCalls, op, dbRange) /\ Home!Free(dbCalls) # {}
  BY <1>1 DEF Home!Pressed
<1>4. /\ dbTyped' \in BOOLEAN /\ dbLock' \subseteq {"redeem", "checkout"}
      /\ dbMessage' \in {"none", "error", "accepted"}
      /\ dbLock' # {} => Home!CardShown' /\ dbLock' = dbLock \cup {op}
  BY <1>1, <1>2, HomeCard
<1>5. Home!TypeOK' /\ HomeOpens'
  BY <1>0, <1>1, <1>2, <1>3, <1>4, HomePuts DEF Home!TypeOK, HomeOpens
<1>6. EffectIsCurrent'
  BY <1>0, <1>1, <1>2, <1>3, HomePuts DEF EffectIsCurrent
<1>7. Home!DataIsOfItsRange'
  BY <1>1 DEF Home!DataIsOfItsRange, Home!Content
<1>8. LocksAreHeld'
  <2>1. SUFFICES ASSUME NEW o \in dbLock' PROVE Home!CardShown' /\ Awaits(o)'
    BY DEF LocksAreHeld
  <2>2. Home!CardShown' /\ o \in dbLock \cup {op}
    BY <1>4
  <2>3. CASE o = op
    BY <1>0, <1>2, <1>3, <2>2, <2>3, HomePuts DEF Awaits
  <2>4. CASE o \in dbLock
    <3>1. PICK s \in HomeCalls : dbCalls[s] # None /\ dbCalls[s].op = o /\ dbCalls[s].mine
      BY <2>4 DEF LocksAreHeld, Awaits
    <3>2. dbCalls'[s] = dbCalls[s]
      BY <1>0, <1>2, <1>3, <3>1 DEF Home!Put, Home!Free
    <3>3. QED
      BY <2>2, <3>1, <3>2 DEF Awaits
  <2>5. QED
    BY <2>2, <2>3, <2>4
<1>9. QED
  BY <1>5, <1>6, <1>7, <1>8

(* A request is answered, and the answer arrives: it is dropped then, and so  *)
(* is the lock that waited for it.                                            *)
LEMMA HomeDrops ==
    ASSUME Home!TypeOK, NEW s \in HomeCalls, NEW ops, Home!Arrived(s, ops)
    PROVE  /\ Home!Drop(s) \in [HomeCalls -> Home!Calls \cup {None}]
           /\ dbCalls[s] \in Home!Calls /\ dbCalls[s] # None /\ dbCalls[s].op \in ops
           /\ Home!Drop(s)[s] = None
           /\ \A t \in HomeCalls : t # s => Home!Drop(s)[t] = dbCalls[t]
  BY DEF Home!TypeOK, Home!Arrived, Home!Drop

(* An answer to a load keeps the invariant: the data it brings are those of   *)
(* the range its request was sent for.                                        *)
LEMMA HomeLoadStep ==
    ASSUME Home!DashboardAssumption, HomeInv, NEW s \in HomeCalls, Home!LoadArrives(s)
    PROVE  HomeInv'
<1> USE DEF HomeInv
<1> DEFINE call == dbCalls[s]
<1>1. /\ dbPage = "open" /\ dbCalls' = Home!Drop(s) /\ dbRange' = dbRange /\ dbModal' = dbModal
      /\ Home!Card([typed |-> dbTyped, lock |-> dbLock, message |-> dbMessage])
      /\ Home!Arrived(s, {"effect", "reload"})
  BY DEF Home!LoadArrives
<1>2. /\ dbTyped' \in BOOLEAN /\ dbLock' \subseteq {"redeem", "checkout"}
      /\ dbMessage' \in {"none", "error", "accepted"}
      /\ dbLock' # {} => Home!CardShown' /\ dbLock' = dbLock
  BY <1>1, HomeCard DEF Home!TypeOK
<1>3. /\ dbCalls' \in [HomeCalls -> Home!Calls \cup {None}]
      /\ call \in Home!Calls /\ call # None /\ call.op \in {"effect", "reload"}
      /\ dbCalls'[s] = None /\ \A t \in HomeCalls : t # s => dbCalls'[t] = dbCalls[t]
  BY <1>1, HomeDrops
<1>4. EffectIsCurrent'
  BY <1>1, <1>3, HomeFewer DEF Fewer
<1>5. LocksAreHeld'
  <2>1. SUFFICES ASSUME NEW o \in dbLock' PROVE Home!CardShown' /\ Awaits(o)'
    BY DEF LocksAreHeld
  <2>2. PICK t \in HomeCalls : dbCalls[t] # None /\ dbCalls[t].op = o /\ dbCalls[t].mine
    BY <1>2 DEF LocksAreHeld, Awaits
  <2>3. t # s
    BY <1>2, <1>3, <2>2
  <2>4. QED
    BY <1>2, <1>3, <2>2, <2>3 DEF Awaits
<1>6. CASE ~call.mine
  <2>1. UNCHANGED <<dbPage, dbLoading, dbData>>
    BY <1>6 DEF Home!LoadArrives
  <2>2. QED
    BY <1>1, <1>2, <1>3, <1>4, <1>5, <2>1
       DEF Home!TypeOK, HomeOpens, Home!DataIsOfItsRange, Home!Content
<1>7. CASE call.mine
  <2>1. /\ dbLoading' = FALSE
        /\ dbData' = CASE call.at = "ok" -> [range |-> call.range, by |-> call.op]
                       [] call.at = "failed" -> None
                       [] OTHER -> dbData
        /\ dbPage' = IF call.at = "denied" THEN "login" ELSE dbPage
    BY <1>7 DEF Home!LoadArrives
  <2>2. call.range \in Ranges /\ call.at \in {"ok", "failed", "denied"}
    BY <1>1, <1>3 DEF Home!Calls, Home!Arrived
  <2>3. Home!TypeOK' /\ HomeOpens'
    BY <1>1, <1>2, <1>3, <2>1, <2>2 DEF Home!TypeOK, HomeOpens
  <2>4. call.op = "effect" => call.range = dbRange
    BY <1>3, <1>7 DEF EffectIsCurrent
  <2>5. Home!DataIsOfItsRange'
    BY <1>1, <2>1, <2>2, <2>4 DEF Home!DataIsOfItsRange, Home!Content
  <2>6. QED
    BY <1>4, <1>5, <2>3, <2>5
<1>8. QED
  BY <1>6, <1>7

(* An answer to a redemption keeps it, and so does the reload that a success  *)
(* starts.                                                                    *)
LEMMA HomeRedeemStep ==
    ASSUME Home!DashboardAssumption, HomeInv, NEW s \in HomeCalls, Home!RedeemArrives(s)
    PROVE  HomeInv'
<1> USE DEF HomeInv
<1> DEFINE ok == dbCalls[s].at = "ok"
           left == Home!Orphans(Home!Drop(s))
<1>1. /\ dbPage = "open" /\ UNCHANGED <<dbPage, dbRange, dbData, dbModal>>
      /\ dbLoading' = (dbLoading \/ ok)
      /\ dbCalls' = IF ok THEN Home!Put(left, "reload", dbCalls[s].range) ELSE Home!Drop(s)
      /\ Home!Arrived(s, {"redeem"})
  BY DEF Home!RedeemArrives
<1>2. /\ dbTyped' \in BOOLEAN /\ dbLock' \subseteq {"redeem", "checkout"}
      /\ dbMessage' \in {"none", "error", "accepted"}
      /\ dbLock' # {} => /\ Home!CardShown'
                         /\ dbLock' = IF ~ok /\ dbCalls[s].mine THEN dbLock \ {"redeem"}
                                        ELSE dbLock
  <2>1. CASE ~dbCalls[s].mine
    BY <2>1, HomeCard DEF Home!RedeemArrives, Home!TypeOK
  <2>2. CASE dbCalls[s].mine
    <3> DEFINE typed == dbTyped /\ ~ok
               lock == IF ok THEN dbLock ELSE dbLock \ {"redeem"}
               message == IF ok THEN "accepted" ELSE "error"
    <3>1. Home!Card([typed |-> typed, lock |-> lock, message |-> message])
      BY <2>2 DEF Home!RedeemArrives
    <3>2. /\ typed \in BOOLEAN /\ lock \in SUBSET {"redeem", "checkout"}
          /\ message \in {"none", "error", "accepted"}
      BY DEF Home!TypeOK
    <3>3. lock = IF ~ok /\ dbCalls[s].mine THEN dbLock \ {"redeem"} ELSE dbLock
      BY <2>2
    <3> HIDE DEF typed, lock, message
    <3>4. QED
      BY <3>1, <3>2, <3>3, HomeCard
  <2>3. QED
    BY <2>1, <2>2
<1>3. /\ Home!Drop(s) \in [HomeCalls -> Home!Calls \cup {None}]
      /\ dbCalls[s] \in Home!Calls /\ dbCalls[s] # None /\ dbCalls[s].op = "redeem"
      /\ Home!Drop(s)[s] = None
      /\ \A t \in HomeCalls : t # s => Home!Drop(s)[t] = dbCalls[t]
  BY <1>1, HomeDrops
<1>4. dbCalls[s].range \in Ranges
  BY <1>3 DEF Home!Calls
<1>5. left \in [HomeCalls -> Home!Calls \cup {None}] /\ Fewer(left, dbCalls)
  BY <1>3, HomeDisowns DEF Home!Orphans, Fewer
<1>6. dbCalls' \in [HomeCalls -> Home!Calls \cup {None}] /\ EffectIsCurrent'
  <2>1. CASE ok
    BY <1>1, <1>4, <1>5, <2>1, HomePuts DEF EffectIsCurrent, Fewer
  <2>2. CASE ~ok
    BY <1>1, <1>3, <2>2 DEF EffectIsCurrent
  <2>3. QED
    BY <2>1, <2>2
<1>7. Home!TypeOK' /\ HomeOpens' /\ Home!DataIsOfItsRange'
  BY <1>1, <1>2, <1>6 DEF Home!TypeOK, HomeOpens, Home!DataIsOfItsRange, Home!Content
<1>8. LocksAreHeld'
  <2>1. SUFFICES ASSUME NEW o \in dbLock' PROVE Home!CardShown' /\ Awaits(o)'
    BY DEF LocksAreHeld
  <2>2. Home!CardShown' /\ dbLoading' = FALSE
    BY <1>2, <1>7 DEF Home!CardShown, Home!Content, Home!TypeOK
  <2>3. ~ok /\ dbCalls' = Home!Drop(s)
    BY <1>1, <2>2
  <2>4. PICK t \in HomeCalls : dbCalls[t] # None /\ dbCalls[t].op = o /\ dbCalls[t].mine
    BY <1>2 DEF LocksAreHeld, Awaits
  <2>5. t # s
    BY <1>2, <1>3, <2>3, <2>4
  <2>6. QED
    BY <1>3, <2>2, <2>3, <2>4, <2>5 DEF Awaits
<1>9. QED
  BY <1>6, <1>7, <1>8

(* An answer to a checkout keeps it: the page leaves for Stripe, or the card  *)
(* is free again.                                                             *)
LEMMA HomeCheckoutStep ==
    ASSUME Home!DashboardAssumption, HomeInv, NEW s \in HomeCalls, Home!CheckoutArrives(s)
    PROVE  HomeInv'
<1> USE DEF HomeInv
<1>1. /\ dbPage = "open" /\ dbCalls' = Home!Drop(s) /\ Home!Arrived(s, {"checkout"})
      /\ dbPage' \in {"open", "stripe"} /\ UNCHANGED <<dbRange, dbLoading, dbData, dbModal>>
  BY DEF Home!CheckoutArrives
<1>2. /\ dbTyped' \in BOOLEAN /\ dbLock' \subseteq {"redeem", "checkout"}
      /\ dbMessage' \in {"none", "error", "accepted"}
      /\ dbLock' # {} => /\ Home!CardShown'
                         /\ dbLock' = IF dbCalls[s].mine THEN dbLock \ {"checkout"} ELSE dbLock
  <2>1. CASE dbCalls[s].mine
    <3>1. Home!Card([typed |-> dbTyped, lock |-> dbLock \ {"checkout"}, message |-> "error"])
      BY <2>1 DEF Home!CheckoutArrives
    <3>2. dbTyped \in BOOLEAN /\ dbLock \ {"checkout"} \in SUBSET {"redeem", "checkout"}
      BY DEF Home!TypeOK
    <3>3. QED
      BY <2>1, <3>1, <3>2, HomeCard
  <2>2. CASE ~dbCalls[s].mine
    BY <2>2, HomeCard DEF Home!CheckoutArrives, Home!TypeOK
  <2>3. QED
    BY <2>1, <2>2
<1>3. /\ dbCalls' \in [HomeCalls -> Home!Calls \cup {None}]
      /\ dbCalls[s] # None /\ dbCalls[s].op = "checkout"
      /\ dbCalls'[s] = None /\ \A t \in HomeCalls : t # s => dbCalls'[t] = dbCalls[t]
  BY <1>1, HomeDrops
<1>4. EffectIsCurrent'
  BY <1>1, <1>3, HomeFewer DEF Fewer
<1>5. LocksAreHeld'
  <2>1. SUFFICES ASSUME NEW o \in dbLock' PROVE Home!CardShown' /\ Awaits(o)'
    BY DEF LocksAreHeld
  <2>2. PICK t \in HomeCalls : dbCalls[t] # None /\ dbCalls[t].op = o /\ dbCalls[t].mine
    BY <1>2 DEF LocksAreHeld, Awaits
  <2>3. t # s
    BY <1>2, <1>3, <2>2
  <2>4. QED
    BY <1>2, <1>3, <2>2, <2>3 DEF Awaits
<1>6. Home!TypeOK' /\ HomeOpens' /\ Home!DataIsOfItsRange'
  BY <1>1, <1>2, <1>3 DEF Home!TypeOK, HomeOpens, Home!DataIsOfItsRange, Home!Content
<1>7. QED
  BY <1>4, <1>5, <1>6

(* Serving a request changes nothing but how it was answered.                 *)
LEMMA HomeServeStep ==
    ASSUME Home!DashboardAssumption, HomeInv, NEW s \in HomeCalls, Home!Serve(s)
    PROVE  HomeInv'
<1> USE DEF HomeInv
<1>1. PICK answer \in {"ok", "failed", "denied"} : dbCalls' = [dbCalls EXCEPT ![s].at = answer]
  BY DEF Home!Serve
<1>2. /\ dbCalls[s] # None /\ dbCalls[s] \in Home!Calls
      /\ UNCHANGED <<dbPage, dbRange, dbLoading, dbData, dbModal, dbTyped, dbLock, dbMessage>>
  BY DEF Home!Serve, Home!cardVars, Home!TypeOK
<1> DEFINE new == [dbCalls[s] EXCEPT !.at = answer]
<1>3. new \in Home!Calls /\ new.op = dbCalls[s].op /\ new.range = dbCalls[s].range
      /\ new.mine = dbCalls[s].mine
  BY <1>2 DEF Home!Calls
<1>4. new # None
  BY <1>3 DEF Home!DashboardAssumption
<1>5. dbCalls' = [dbCalls EXCEPT ![s] = new]
  BY <1>1
<1> HIDE DEF new
<1>6. dbCalls' \in [HomeCalls -> Home!Calls \cup {None}] /\ Fewer(dbCalls', dbCalls)
  BY <1>2, <1>3, <1>4, <1>5 DEF Home!TypeOK, Fewer
<1>7. Home!TypeOK' /\ HomeOpens' /\ Home!DataIsOfItsRange'
  BY <1>2, <1>6 DEF Home!TypeOK, HomeOpens, Home!DataIsOfItsRange, Home!Content
<1>8. LocksAreHeld'
  <2>1. SUFFICES ASSUME NEW o \in dbLock PROVE Home!CardShown' /\ Awaits(o)'
    BY <1>2 DEF LocksAreHeld
  <2>2. Home!CardShown /\ Home!CardShown' = Home!CardShown
    BY <1>2 DEF LocksAreHeld, Home!CardShown, Home!Content
  <2>3. PICK t \in HomeCalls : dbCalls[t] # None /\ dbCalls[t].op = o /\ dbCalls[t].mine
    BY DEF LocksAreHeld, Awaits
  <2>4. dbCalls'[t] # None /\ dbCalls'[t].op = o /\ dbCalls'[t].mine
    BY <1>3, <1>4, <1>5, <2>3 DEF Home!TypeOK
  <2>5. QED
    BY <2>2, <2>4 DEF Awaits
<1>9. QED
  BY <1>2, <1>6, <1>7, <1>8, HomeFewer

(* Every step preserves the invariant.                                        *)
LEMMA HomeNextInv ==
    ASSUME Home!DashboardAssumption, HomeInv, [Home!Next]_Home!dashboardVars PROVE HomeInv'
<1>1. CASE Home!Next
  BY <1>1, HomeRangeStep, HomePageStep, HomePressStep, HomeServeStep, HomeLoadStep,
     HomeRedeemStep, HomeCheckoutStep DEF Home!Next, Home!Arrives
<1>2. CASE UNCHANGED Home!dashboardVars
  BY <1>2 DEF Home!dashboardVars, Home!cardVars, HomeInv, Home!TypeOK, HomeOpens,
     EffectIsCurrent, Home!DataIsOfItsRange, Home!Content, LocksAreHeld, Awaits, Home!CardShown
<1>3. QED
  BY <1>1, <1>2

(* The invariant of the dashboard holds of every behaviour of the page alone. *)
LEMMA HomeInvariance == ASSUME Home!DashboardAssumption PROVE Home!Spec => []HomeInv
<1>1. HomeInv /\ [Home!Next]_Home!dashboardVars => HomeInv'
  BY HomeNextInv
<1>2. QED
  BY <1>1, HomeInitInv, PTL DEF Home!Spec

-----------------------------------------------------------------------------
(* The page of the keys.                                                      *)

KeyStages == Keys!Changes \cup {"refused", "ensure", "list", "read", "denied", "broken"}

\* The requests are requests.
KeyCallsOK == kpCalls \in [KeyCalls -> Keys!Calls \cup {None}]

\* While a key is being created, or its secret is shown, the dialog is open; when the page is
\* gone there is none.
SecretHasDialog ==
    /\ kpPage = "open" /\ (kpCreate # "idle" \/ kpCreated) => kpModal
    /\ kpPage = "closed" => kpCreate = "idle"
    /\ kpPage # "open" => ~kpModal /\ ~kpCreated

KeysInv ==
    /\ Keys!TypeOK /\ SecretHasDialog
    /\ kpPage # "open" => kpBusy = None
    /\ Keys!LockHasRequest

\* What a step preserves, and does not do.
KeysGoOn == KeysInv' /\ Keys!SecretIsSeen

(* The requests. A new one takes a free slot, and the others stay.            *)
LEMMA KeySends ==
    ASSUME Keys!KeysAssumption, KeyCallsOK, NEW key \in Keys!KeyIds \cup {None}, NEW stage \in KeyStages,
           Keys!Send(key, stage)
    PROVE  /\ KeyCallsOK'
           /\ \E s \in KeyCalls : kpCalls'[s] # None /\ kpCalls'[s].key = key
           /\ \A s \in KeyCalls : kpCalls[s] # None => kpCalls'[s] = kpCalls[s]
<1> DEFINE free == CHOOSE s \in KeyCalls : kpCalls[s] = None
           call == [key |-> key, at |-> stage, list |-> {}]
<1>1. free \in KeyCalls /\ kpCalls[free] = None
  BY DEF Keys!Send
<1>2. call \in Keys!Calls /\ call.key = key
  BY DEF Keys!Calls, KeyStages
<1>3. kpCalls' = [kpCalls EXCEPT ![free] = call]
  BY DEF Keys!Send
<1>4. kpCalls'[free] = call
  BY <1>1, <1>3 DEF KeyCallsOK
<1>5. KeyCallsOK'
  BY <1>2, <1>3 DEF KeyCallsOK
<1>6. \A s \in KeyCalls : kpCalls[s] # None => kpCalls'[s] = kpCalls[s]
  BY <1>1, <1>3 DEF KeyCallsOK
<1>7. call # None
  BY <1>2 DEF Keys!KeysAssumption
<1>8. QED
  BY <1>1, <1>2, <1>4, <1>5, <1>6, <1>7

(* A request that moves on stays one, for the key it was for.                 *)
LEMMA KeyMovesOn ==
    ASSUME Keys!KeysAssumption, KeyCallsOK, NEW s \in KeyCalls, kpCalls[s] # None,
           NEW stage \in KeyStages, NEW list \in SUBSET Keys!KeyIds,
           \/ Keys!To(s, stage)
           \/ kpCalls' = [kpCalls EXCEPT ![s].at = stage, ![s].list = list]
    PROVE  /\ KeyCallsOK'
           /\ \A q \in KeyCalls :
                 kpCalls[q] # None => kpCalls'[q] # None /\ kpCalls'[q].key = kpCalls[q].key
<1>1. kpCalls[s] \in Keys!Calls
  BY DEF KeyCallsOK
<1> DEFINE moved == [kpCalls[s] EXCEPT !.at = stage]
           read  == [kpCalls[s] EXCEPT !.at = stage, !.list = list]
<1>2. moved \in Keys!Calls /\ moved.key = kpCalls[s].key
  BY <1>1 DEF Keys!Calls, KeyStages
<1>3. read \in Keys!Calls /\ read.key = kpCalls[s].key
  BY <1>1 DEF Keys!Calls, KeyStages
<1>4. PICK next \in {moved, read} : kpCalls' = [kpCalls EXCEPT ![s] = next]
  BY DEF Keys!To
<1>5. next \in Keys!Calls /\ next.key = kpCalls[s].key
  BY <1>2, <1>3
<1>6. next # None
  BY <1>5 DEF Keys!KeysAssumption
<1>7. KeyCallsOK'
  BY <1>4, <1>5 DEF KeyCallsOK
<1>8. kpCalls'[s] = next /\ \A q \in KeyCalls : q # s => kpCalls'[q] = kpCalls[q]
  BY <1>4 DEF KeyCallsOK
<1>9. QED
  BY <1>5, <1>6, <1>7, <1>8

(* A request that is over leaves its slot.                                    *)
LEMMA KeyDrops ==
    ASSUME KeyCallsOK, NEW s \in KeyCalls, kpCalls' = [kpCalls EXCEPT ![s] = None]
    PROVE  /\ KeyCallsOK'
           /\ \A q \in KeyCalls : q # s => kpCalls'[q] = kpCalls[q]
  BY DEF KeyCallsOK

(* While the requests for a key go on, its lock has them.                     *)
LEMMA LockStays ==
    ASSUME Keys!LockHasRequest, kpBusy' = kpBusy,
           \A q \in KeyCalls :
                 kpCalls[q] # None => kpCalls'[q] # None /\ kpCalls'[q].key = kpCalls[q].key
    PROVE  Keys!LockHasRequest'
<1>1. CASE kpBusy = None
  BY <1>1 DEF Keys!LockHasRequest
<1>2. CASE kpBusy # None
  <2>1. PICK q \in KeyCalls : kpCalls[q] # None /\ kpCalls[q].key = kpBusy
    BY <1>2 DEF Keys!LockHasRequest
  <2>2. kpCalls'[q] # None /\ kpCalls'[q].key = kpBusy'
    BY <2>1
  <2>3. QED
    BY <2>2 DEF Keys!LockHasRequest
<1>3. QED
  BY <1>1, <1>2

(* While nothing happens to the dialog, a secret in it stays in sight.        *)
LEMMA DialogStays ==
    ASSUME KeysInv, UNCHANGED <<kpPage, kpModal, kpCreate, kpCreated>>
    PROVE  SecretHasDialog' /\ Keys!SecretIsSeen
<1>1. kpCreated => kpPage = "open" /\ kpModal
  BY DEF KeysInv, SecretHasDialog, Keys!TypeOK
<1>2. SecretHasDialog'
  BY DEF KeysInv, SecretHasDialog
<1>3. QED
  BY <1>1, <1>2 DEF Keys!SecretIsSeen, Keys!SecretInSight

(* The invariant holds at the start.                                          *)
LEMMA KeysInitInv == Keys!Init => KeysInv
<1> SUFFICES ASSUME Keys!Init PROVE KeysInv
  OBVIOUS
<1>1. kpCalls = [s \in KeyCalls |-> None] /\ kpBusy = None
  BY DEF Keys!Init
<1>2. Keys!TypeOK
  BY <1>1 DEF Keys!Init, Keys!TypeOK
<1>3. SecretHasDialog
  BY DEF Keys!Init, SecretHasDialog
<1>4. Keys!LockHasRequest
  BY <1>1 DEF Keys!LockHasRequest
<1>5. QED
  BY <1>1, <1>2, <1>3, <1>4 DEF KeysInv

(* The steps of the user outside the dialog.                                  *)
LEMMA KeysRowStep ==
    ASSUME Keys!KeysAssumption, KeysInv,
           \/ \E keys \in SUBSET Keys!KeyIds : Keys!OpenPage(keys)
           \/ \E k \in Keys!KeyIds : Keys!handleToggle(k) \/ Keys!handleDelete(k)
    PROVE  KeysGoOn
<1>1. Keys!TypeOK /\ KeyCallsOK /\ SecretHasDialog /\ Keys!LockHasRequest
  BY DEF KeysInv, Keys!TypeOK, KeyCallsOK
<1>2. CASE \E keys \in SUBSET Keys!KeyIds : Keys!OpenPage(keys)
  <2>1. PICK keys \in SUBSET Keys!KeyIds : Keys!OpenPage(keys)
    BY <1>2
  <2>2. /\ kpPage = "closed" /\ kpPage' = "open" /\ kpKeys' = keys /\ Keys!Send(None, "ensure")
        /\ UNCHANGED <<kpList, kpLoading, kpError, kpBusy, kpModal, kpFilled, kpCreate, kpCreated,
                       kpSuccess>>
    BY <2>1 DEF Keys!OpenPage, Keys!listVars, Keys!dialogVars
  <2>3. kpBusy = None /\ kpCreate = "idle" /\ ~kpModal /\ ~kpCreated
    BY <1>1, <2>2 DEF KeysInv, SecretHasDialog
  <2>4. KeyCallsOK'
    BY <1>1, <2>2, KeySends DEF KeyStages
  <2>5. Keys!TypeOK'
    BY <1>1, <2>2, <2>4 DEF Keys!TypeOK, KeyCallsOK
  <2>6. SecretHasDialog' /\ Keys!SecretIsSeen /\ Keys!LockHasRequest'
    BY <2>2, <2>3 DEF SecretHasDialog, Keys!SecretIsSeen, Keys!LockHasRequest
  <2>7. QED
    BY <2>2, <2>3, <2>5, <2>6 DEF KeysGoOn, KeysInv
<1>3. CASE \E k \in Keys!KeyIds : Keys!handleToggle(k) \/ Keys!handleDelete(k)
  <2>1. PICK k \in Keys!KeyIds : Keys!handleToggle(k) \/ Keys!handleDelete(k)
    BY <1>3
  <2>2. PICK stage \in Keys!Changes :
           /\ kpPage = "open" /\ kpBusy' = k /\ Keys!Send(k, stage)
           /\ UNCHANGED <<kpPage, kpKeys, kpList, kpLoading, kpError, kpModal, kpFilled, kpCreate,
                          kpCreated, kpSuccess>>
    BY <2>1 DEF Keys!handleToggle, Keys!handleDelete, Keys!RowEnabled, Keys!Changes,
                Keys!dialogVars
  <2>3. /\ KeyCallsOK'
        /\ \E s \in KeyCalls : kpCalls'[s] # None /\ kpCalls'[s].key = k
    BY <1>1, <2>2, KeySends DEF KeyStages
  <2>4. Keys!TypeOK'
    BY <1>1, <2>2, <2>3 DEF Keys!TypeOK, KeyCallsOK
  <2>5. Keys!LockHasRequest'
    BY <2>2, <2>3 DEF Keys!LockHasRequest
  <2>6. QED
    BY <2>2, <2>4, <2>5, DialogStays DEF KeysGoOn, KeysInv
<1>4. QED
  BY <1>2, <1>3

(* The steps of the dialog.                                                   *)
LEMMA KeysDialogStep ==
    ASSUME Keys!KeysAssumption, KeysInv,
           \/ Keys!OpenDialog \/ Keys!Fill \/ Keys!handleCreateKey \/ Keys!handleCloseCreateModal
           \/ Keys!ServeCreate \/ Keys!CreateArrives
    PROVE  KeysGoOn
<1>1. /\ Keys!TypeOK /\ KeyCallsOK /\ SecretHasDialog /\ Keys!LockHasRequest
      /\ kpPage # "open" => kpBusy = None
  BY DEF KeysInv, Keys!TypeOK, KeyCallsOK
<1>2. /\ kpModal \in BOOLEAN /\ kpFilled \in BOOLEAN /\ kpSuccess \in BOOLEAN
      /\ kpCreated \in BOOLEAN /\ kpLoading \in BOOLEAN /\ kpError \in BOOLEAN
  BY <1>1 DEF Keys!TypeOK
\* What a step of the dialog must keep to when it begins no request.
<1>3. ASSUME kpKeys' \subseteq Keys!KeyIds, UNCHANGED <<kpPage, Keys!listVars, kpCalls>>,
             kpModal' \in BOOLEAN, kpFilled' \in BOOLEAN, kpSuccess' \in BOOLEAN,
             kpCreated' \in BOOLEAN,
             kpCreate' \in {"idle", "sent", "secret", "bare", "failed"},
             SecretHasDialog', Keys!SecretIsSeen
      PROVE  KeysGoOn
  <2>1. Keys!TypeOK'
    BY <1>1, <1>3 DEF Keys!TypeOK, Keys!listVars
  <2>2. Keys!LockHasRequest'
    BY <1>1, <1>3 DEF Keys!LockHasRequest, Keys!listVars
  <2>3. QED
    BY <1>1, <1>3, <2>1, <2>2 DEF KeysGoOn, KeysInv, Keys!listVars
<1>4. CASE Keys!OpenDialog
  <2>1. SecretHasDialog' /\ Keys!SecretIsSeen
    BY <1>1, <1>4 DEF Keys!OpenDialog, SecretHasDialog, Keys!SecretIsSeen, Keys!SecretInSight
  <2>2. QED
    BY <1>1, <1>2, <1>3, <1>4, <2>1 DEF Keys!OpenDialog, Keys!TypeOK
<1>5. CASE Keys!Fill
  <2>1. SecretHasDialog' /\ Keys!SecretIsSeen
    BY <1>5, DialogStays DEF Keys!Fill
  <2>2. QED
    BY <1>1, <1>2, <1>3, <1>5, <2>1 DEF Keys!Fill, Keys!TypeOK
<1>6. CASE Keys!handleCreateKey
  <2>1. SecretHasDialog' /\ Keys!SecretIsSeen
    BY <1>1, <1>6 DEF Keys!handleCreateKey, Keys!FormShown, SecretHasDialog, Keys!SecretIsSeen,
                      Keys!SecretInSight
  <2>2. QED
    BY <1>1, <1>2, <1>3, <1>6, <2>1 DEF Keys!handleCreateKey, Keys!TypeOK
<1>7. CASE Keys!ServeCreate
  <2>1. kpCreate = "sent" /\ kpCreate' \in {"secret", "bare", "failed"}
    BY <1>7 DEF Keys!ServeCreate
  <2>2. SecretHasDialog' /\ Keys!SecretIsSeen
    BY <1>1, <1>7, <2>1 DEF Keys!ServeCreate, SecretHasDialog, Keys!SecretIsSeen,
                            Keys!SecretInSight, Keys!TypeOK
  <2>3. kpKeys' \subseteq Keys!KeyIds
    BY <1>1, <1>7 DEF Keys!ServeCreate, Keys!TypeOK, Keys!KeyIds
  <2>4. QED
    BY <1>2, <1>3, <1>7, <2>1, <2>2, <2>3 DEF Keys!ServeCreate
<1>8. CASE Keys!CreateArrives
  <2>1. /\ kpCreate \in {"secret", "bare", "failed"} /\ kpCreate' = "idle"
        /\ UNCHANGED <<kpPage, kpKeys, Keys!listVars, kpModal, kpCalls>>
    BY <1>8 DEF Keys!CreateArrives
  <2>2. /\ kpCreated' \in BOOLEAN /\ kpSuccess' \in BOOLEAN /\ kpFilled' \in BOOLEAN
        /\ kpCreated => kpCreated'
        /\ kpPage = "open" /\ kpCreate = "secret" => kpCreated'
        /\ kpPage # "open" => kpCreated' = kpCreated
    BY <1>2, <1>8 DEF Keys!CreateArrives, Keys!OnPage
  <2>3. kpPage = "open" => kpModal
    BY <1>1, <2>1 DEF SecretHasDialog
  <2>4. kpPage # "open" => kpPage = "login"
    BY <1>1, <2>1 DEF SecretHasDialog, Keys!TypeOK
  <2>5. SecretHasDialog' /\ Keys!SecretIsSeen
    BY <1>1, <2>1, <2>2, <2>3, <2>4 DEF SecretHasDialog, Keys!SecretIsSeen, Keys!SecretInSight
  <2>6. QED
    BY <1>1, <1>2, <1>3, <2>1, <2>2, <2>5 DEF Keys!TypeOK
<1>9. CASE Keys!handleCloseCreateModal
  <2>1. /\ kpCreate = "idle" /\ kpCreate' = "idle" /\ kpModal' = FALSE /\ kpCreated' = FALSE
        /\ kpFilled' = FALSE /\ kpSuccess' = FALSE
        /\ UNCHANGED <<kpPage, kpKeys, kpList, kpBusy>>
    BY <1>9 DEF Keys!handleCloseCreateModal
  <2>2. \/ Keys!Send(None, "ensure") /\ Keys!LoadBegins
        \/ UNCHANGED <<kpCalls, kpLoading, kpError>>
    BY <1>9 DEF Keys!handleCloseCreateModal
  <2>3. kpLoading' \in BOOLEAN /\ kpError' \in BOOLEAN
    BY <1>2, <2>2 DEF Keys!LoadBegins
  <2>4. /\ KeyCallsOK'
        /\ \A q \in KeyCalls :
              kpCalls[q] # None => kpCalls'[q] # None /\ kpCalls'[q].key = kpCalls[q].key
    BY <1>1, <2>2, KeySends DEF KeyStages, KeyCallsOK
  <2>5. Keys!LockHasRequest'
    BY <1>1, <2>1, <2>4, LockStays
  <2>6. Keys!TypeOK'
    BY <1>1, <2>1, <2>3, <2>4 DEF Keys!TypeOK, KeyCallsOK
  <2>7. SecretHasDialog' /\ Keys!SecretIsSeen
    BY <2>1 DEF SecretHasDialog, Keys!SecretIsSeen
  <2>8. QED
    BY <1>1, <2>1, <2>5, <2>6, <2>7 DEF KeysGoOn, KeysInv
<1>10. QED
  BY <1>4, <1>5, <1>6, <1>7, <1>8, <1>9

(* The requests on their way.                                                 *)
LEMMA KeysServeStep ==
    ASSUME Keys!KeysAssumption, KeysInv, NEW s \in KeyCalls, Keys!Serves(s)
    PROVE  KeysGoOn
<1>1. /\ Keys!TypeOK /\ KeyCallsOK /\ Keys!LockHasRequest
      /\ kpPage # "open" => kpBusy = None
  BY DEF KeysInv, Keys!TypeOK, KeyCallsOK
<1>2. kpCalls[s] # None
  BY DEF Keys!Serves, Keys!ServeChange, Keys!Provision, Keys!ReadList, Keys!At
<1>3. kpKeys \subseteq Keys!KeyIds /\ {} \subseteq Keys!KeyIds
  BY <1>1 DEF Keys!TypeOK
<1>4. UNCHANGED <<kpPage, kpModal, kpFilled, kpCreate, kpCreated, kpSuccess, kpList, kpBusy>>
  BY DEF Keys!Serves, Keys!ServeChange, Keys!Provision, Keys!ReadList, Keys!Done, Keys!Carry,
         Keys!dialogVars, Keys!listVars
<1>5. kpKeys' \subseteq Keys!KeyIds
  BY <1>3 DEF Keys!Serves, Keys!ServeChange, Keys!Provision, Keys!ReadList, Keys!Done, Keys!Carry,
         Keys!KeyIds
<1>6. kpLoading' \in BOOLEAN /\ kpError' \in BOOLEAN
  BY <1>1 DEF Keys!Serves, Keys!ServeChange, Keys!Provision, Keys!ReadList, Keys!LoadBegins,
         Keys!listVars, Keys!TypeOK
<1>7. \/ \E stage \in KeyStages : Keys!To(s, stage)
      \/ \E list \in SUBSET Keys!KeyIds :
            kpCalls' = [kpCalls EXCEPT ![s].at = "read", ![s].list = list]
  BY <1>3 DEF Keys!Serves, Keys!ServeChange, Keys!Provision, Keys!ReadList, KeyStages
<1>8. /\ KeyCallsOK'
      /\ \A q \in KeyCalls :
            kpCalls[q] # None => kpCalls'[q] # None /\ kpCalls'[q].key = kpCalls[q].key
  BY <1>1, <1>2, <1>3, <1>7, KeyMovesOn DEF KeyStages
<1>9. Keys!LockHasRequest'
  BY <1>1, <1>4, <1>8, LockStays
<1>10. Keys!TypeOK'
  BY <1>1, <1>4, <1>5, <1>6, <1>8 DEF Keys!TypeOK, KeyCallsOK
<1>11. QED
  BY <1>1, <1>4, <1>9, <1>10, DialogStays DEF KeysGoOn, KeysInv

(* Their answers. A handler clears the lock, whichever row it is for by then. *)
LEMMA KeysArriveStep ==
    ASSUME Keys!KeysAssumption, KeysInv, NEW s \in KeyCalls, Keys!Arrives(s)
    PROVE  KeysGoOn
<1>1. /\ Keys!TypeOK /\ KeyCallsOK /\ SecretHasDialog /\ Keys!LockHasRequest
      /\ kpPage # "open" => kpBusy = None
  BY DEF KeysInv, Keys!TypeOK, KeyCallsOK
<1>2. kpCalls[s] # None /\ kpCalls[s] \in Keys!Calls
  BY <1>1 DEF Keys!Arrives, Keys!ListArrives, Keys!RefusalArrives, Keys!DenialArrives, Keys!At,
              KeyCallsOK
<1>3. kpCalls' = [kpCalls EXCEPT ![s] = None]
  BY DEF Keys!Arrives, Keys!ListArrives, Keys!RefusalArrives, Keys!DenialArrives, Keys!LetGo
<1>4. KeyCallsOK' /\ \A q \in KeyCalls : q # s => kpCalls'[q] = kpCalls[q]
  BY <1>1, <1>3, KeyDrops
<1>5. CASE Keys!ListArrives(s) \/ Keys!RefusalArrives(s)
  <2>1. /\ UNCHANGED <<kpPage, kpKeys, kpModal, kpFilled, kpCreate, kpCreated, kpSuccess>>
        /\ kpBusy' = IF kpCalls[s].key = None THEN kpBusy ELSE None
    BY <1>5 DEF Keys!ListArrives, Keys!RefusalArrives, Keys!LetGo, Keys!dialogVars
  <2>2. kpList' \subseteq Keys!KeyIds
    BY <1>1, <1>2, <1>5 DEF Keys!ListArrives, Keys!RefusalArrives, Keys!TypeOK, Keys!Calls
  <2>3. kpLoading' \in BOOLEAN /\ kpError' \in BOOLEAN
    BY <1>1, <1>5 DEF Keys!ListArrives, Keys!RefusalArrives, Keys!TypeOK
  <2>4. kpBusy' \in {kpBusy, None}
    BY <2>1
  <2>5. Keys!TypeOK'
    BY <1>1, <1>4, <2>1, <2>2, <2>3, <2>4 DEF Keys!TypeOK, KeyCallsOK
  <2>6. Keys!LockHasRequest'
    <3>1. CASE kpBusy' = None
      BY <3>1 DEF Keys!LockHasRequest
    <3>2. CASE kpBusy' # None
      <4>1. kpCalls[s].key = None /\ kpBusy' = kpBusy
        BY <2>1, <3>2
      <4>2. PICK q \in KeyCalls : kpCalls[q] # None /\ kpCalls[q].key = kpBusy
        BY <1>1, <3>2, <4>1 DEF Keys!LockHasRequest
      <4>3. kpCalls'[q] = kpCalls[q]
        BY <1>4, <3>2, <4>1, <4>2
      <4>4. QED
        BY <4>1, <4>2, <4>3 DEF Keys!LockHasRequest
    <3>3. QED
      BY <3>1, <3>2
  <2>7. QED
    BY <1>1, <2>1, <2>4, <2>5, <2>6, DialogStays DEF KeysGoOn, KeysInv
<1>6. CASE Keys!DenialArrives(s)
  <2>1. /\ kpPage' = "login" /\ kpKeys' = kpKeys /\ kpList' = {} /\ kpLoading' = TRUE
        /\ kpError' = FALSE /\ kpBusy' = None /\ kpModal' = FALSE /\ kpFilled' = FALSE
        /\ kpCreated' = FALSE /\ kpSuccess' = FALSE /\ kpCreate' = kpCreate
    BY <1>6 DEF Keys!DenialArrives
  <2>2. Keys!TypeOK'
    BY <1>1, <1>4, <2>1 DEF Keys!TypeOK, KeyCallsOK
  <2>3. SecretHasDialog' /\ Keys!SecretIsSeen /\ Keys!LockHasRequest'
    BY <2>1 DEF SecretHasDialog, Keys!SecretIsSeen, Keys!LockHasRequest
  <2>4. QED
    BY <2>1, <2>2, <2>3 DEF KeysGoOn, KeysInv
<1>7. QED
  BY <1>5, <1>6 DEF Keys!Arrives

(* Every step preserves the invariant, and loses no secret.                   *)
LEMMA KeysNextInv ==
    ASSUME Keys!KeysAssumption, KeysInv, [Keys!Next]_Keys!keysVars
    PROVE  KeysGoOn
<1>1. CASE Keys!Next
  <2>1. CASE \E s \in KeyCalls : Keys!Serves(s) \/ Keys!Arrives(s)
    BY <2>1, KeysServeStep, KeysArriveStep
  <2>2. CASE ~\E s \in KeyCalls : Keys!Serves(s) \/ Keys!Arrives(s)
    BY <1>1, <2>2, KeysRowStep, KeysDialogStep DEF Keys!Next
  <2>3. QED
    BY <2>1, <2>2
<1>2. CASE UNCHANGED Keys!keysVars
  <2>1. UNCHANGED <<kpPage, kpKeys, kpList, kpLoading, kpError, kpBusy, kpModal, kpFilled,
                    kpCreate, kpCreated, kpSuccess, kpCalls>>
    BY <1>2 DEF Keys!keysVars, Keys!listVars, Keys!dialogVars
  <2>2. Keys!TypeOK' /\ Keys!LockHasRequest'
    BY <2>1 DEF KeysInv, Keys!TypeOK, Keys!LockHasRequest
  <2>3. QED
    BY <2>1, <2>2, DialogStays DEF KeysGoOn, KeysInv
<1>3. QED
  BY <1>1, <1>2

(* The invariant holds throughout.                                            *)
LEMMA KeysInvariance == ASSUME Keys!KeysAssumption PROVE Keys!Spec => []KeysInv
<1>1. KeysInv /\ [Keys!Next]_Keys!keysVars => KeysInv'
  BY KeysNextInv DEF KeysGoOn
<1>2. QED
  BY <1>1, KeysInitInv, PTL DEF Keys!Spec

-----------------------------------------------------------------------------
(* The editors.                                                               *)
IsSave(s) == edCalls[s] # None /\ edCalls[s].op = "save"
Locking == edPage # None /\ edPage.save.locks

\* Nothing is shown or under way before a page is open.
EditorOpens ==
    edPage = None => ~edDialog /\ edList = {} /\ \A s \in EditorCalls : edCalls[s] = None

\* A form that is being saved is locked, and by one save.
SavesAreLocked ==
    Locking => \A s \in EditorCalls :
                   IsSave(s) => edSubmitting /\ \A t \in EditorCalls : IsSave(t) => t = s

\* Nobody has typed since a save went out that has not come to an answer.
SavesTheDraft ==
    Locking /\ edForm.text = "typed"
        => \A s \in EditorCalls : IsSave(s) /\ edCalls[s].at \in {"sent", "answered"}
                                      => edCalls[s].form = edForm

EditorInv == Editors!TypeOK /\ EditorOpens /\ SavesAreLocked /\ SavesTheDraft

\* The saves under way were so before, for the same form, and have not gone back.
SavesKept ==
    \A s \in EditorCalls :
        IsSave(s)' => /\ IsSave(s)
                      /\ edCalls'[s].at \in {"sent", "answered"}
                            => /\ edCalls[s].at \in {"sent", "answered"}
                               /\ edCalls'[s].form = edCalls[s].form

(* A set of one element at most has a cardinality of one at most.             *)
LEMMA AtMostOne ==
    ASSUME NEW S, \A x, y \in S : x = y
    PROVE  IsFiniteSet(S) /\ Cardinality(S) <= 1
<1>1. CASE S = {}
  <2>1. IsFiniteSet({}) /\ Cardinality({}) = 0
    BY FS_EmptySet
  <2>2. QED
    BY <1>1, <2>1
<1>2. CASE S # {}
  <2>1. PICK x \in S : TRUE
    BY <1>2
  <2>2. S = {x}
    BY <2>1
  <2>3. IsFiniteSet({x}) /\ Cardinality({x}) = 1
    BY FS_Singleton
  <2>4. QED
    BY <2>2, <2>3
<1>3. QED
  BY <1>1, <1>2

(* What stays true of the saves when none is added.                           *)
LEMMA EditorKeeps ==
    ASSUME EditorInv, SavesKept, edPage # None, edPage' = edPage, edSubmitting' = edSubmitting,
           edForm'.text = "typed" => edForm' = edForm
    PROVE  EditorOpens' /\ SavesAreLocked' /\ SavesTheDraft'
<1> USE DEF EditorInv
<1>1. EditorOpens'
  BY DEF EditorOpens
<1>2. Locking' = Locking
  BY DEF Locking
<1>3. SavesAreLocked'
  BY <1>2 DEF SavesAreLocked, SavesKept
<1>4. SavesTheDraft'
  BY <1>2 DEF SavesTheDraft, SavesKept
<1>5. QED
  BY <1>1, <1>3, <1>4

(* A request takes a free slot and nothing from the others.                   *)
LEMMA EditorSends ==
    ASSUME Editors!EditorAssumption, Editors!TypeOK, NEW row \in Rows \cup {None},
           NEW op \in {"load", "save", "edit", "toggle", "delete"}, Editors!Send(op, row)
    PROVE  /\ edCalls' \in [EditorCalls -> Editors!Calls \cup {None}]
           /\ \E slot \in EditorCalls :
                 /\ edCalls[slot] = None /\ edCalls'[slot] # None
                 /\ edCalls'[slot].op = op /\ (op = "save" => edCalls'[slot].form = edForm)
                 /\ \A s \in EditorCalls : s # slot => edCalls'[s] = edCalls[s]
<1> DEFINE slot == CHOOSE s \in EditorCalls : edCalls[s] = None
           new == [op |-> op, row |-> row, form |-> Editors!Remembers(op), at |-> "sent",
                   answer |-> "none", rows |-> {}]
<1>1. slot \in EditorCalls /\ edCalls[slot] = None /\ edCalls' = [edCalls EXCEPT ![slot] = new]
  BY DEF Editors!Send
<1>2. Editors!Remembers(op) \in Editors!Forms /\ (op = "save" => Editors!Remembers(op) = edForm)
  BY DEF Editors!Remembers, Editors!TypeOK, Editors!Forms, Editors!Blank
<1>3. new \in Editors!Calls
  BY <1>2 DEF Editors!Calls
<1>4. new # None /\ new.op = op /\ (op = "save" => new.form = edForm)
  BY <1>2, <1>3 DEF Editors!EditorAssumption
<1>5. edCalls \in [EditorCalls -> Editors!Calls \cup {None}]
  BY DEF Editors!TypeOK
<1> HIDE DEF slot, new
<1>6. QED
  BY <1>1, <1>3, <1>4, <1>5

(* A request that is no save adds none.                                       *)
LEMMA OthersSend ==
    ASSUME Editors!EditorAssumption, Editors!TypeOK, NEW row \in Rows \cup {None},
           NEW op \in {"load", "edit", "toggle", "delete"}, Editors!Send(op, row)
    PROVE  edCalls' \in [EditorCalls -> Editors!Calls \cup {None}] /\ SavesKept
  BY EditorSends DEF SavesKept, IsSave

(* What the policies say is said in their types.                              *)
LEMMA LocksOrNot ==
    ASSUME NEW p \in Editors!Editors PROVE p.save.locks \in BOOLEAN
<1>1. CASE p = Editors!Articles
  BY <1>1 DEF Editors!Articles, Editors!Editor, Editors!ArticlesSave
<1>2. CASE p = Editors!Categories
  BY <1>2 DEF Editors!Categories, Editors!Editor, Editors!CategoriesSave
<1>3. CASE p = Editors!DocPages
  BY <1>3 DEF Editors!DocPages, Editors!Editor, Editors!PagesSave
<1>4. CASE p = Editors!Packages
  BY <1>4 DEF Editors!Packages, Editors!Editor, Editors!PackagesSave
<1>5. CASE p = Editors!Software
  BY <1>5 DEF Editors!Software, Editors!Editor, Editors!SoftwareSave
<1>6. CASE p = Editors!Services
  BY <1>6 DEF Editors!Services, Editors!Editor, Editors!ServicesSave
<1>7. CASE p = Editors!Downloads
  BY <1>7 DEF Editors!Downloads, Editors!Editor, Editors!DownloadsSave
<1>8. QED
  BY <1>1, <1>2, <1>3, <1>4, <1>5, <1>6, <1>7 DEF Editors!Editors

(* The invariant holds at the start.                                          *)
LEMMA EditorInitInv == Editors!EditorAssumption /\ Editors!Init => EditorInv
<1> SUFFICES ASSUME Editors!Init PROVE EditorInv
  OBVIOUS
<1>1. Editors!TypeOK
  BY DEF Editors!Init, Editors!TypeOK, Editors!Forms, Editors!Blank
<1>2. EditorOpens /\ ~Locking
  BY DEF Editors!Init, EditorOpens, Locking
<1>3. QED
  BY <1>1, <1>2 DEF EditorInv, SavesAreLocked, SavesTheDraft

-----------------------------------------------------------------------------
(* A page is opened.                                                          *)
LEMMA EditorOpenStep ==
    ASSUME Editors!EditorAssumption, EditorInv, NEW p \in Editors!Editors,
           NEW rows \in SUBSET Rows, Editors!Open(p, rows)
    PROVE  EditorInv'
<1> USE DEF EditorInv
<1>1. /\ edPage = None /\ edPage' = p /\ edRows' = rows /\ Editors!Send("load", None)
      /\ UNCHANGED <<edList, edForm, edDialog, edSubmitting, edLoading, edBusy, edBlocked>>
  BY DEF Editors!Open
<1>2. edCalls' \in [EditorCalls -> Editors!Calls \cup {None}] /\ SavesKept
  BY <1>1, OthersSend
<1>3. Editors!TypeOK'
  BY <1>1, <1>2 DEF Editors!TypeOK
<1>4. \A s \in EditorCalls : ~IsSave(s)'
  BY <1>1, <1>2 DEF EditorOpens, SavesKept, IsSave
<1>5. EditorOpens'
  BY <1>1 DEF EditorOpens, Editors!EditorAssumption
<1>6. QED
  BY <1>3, <1>4, <1>5 DEF SavesAreLocked, SavesTheDraft

(* Buttons that send something other than a save.                             *)
LEMMA EditorAskStep ==
    ASSUME Editors!EditorAssumption, EditorInv,
           \/ Editors!Refresh
           \/ \E r \in Rows : Editors!Edit(r) \/ Editors!Toggle(r) \/ Editors!Delete(r)
    PROVE  EditorInv'
<1> USE DEF EditorInv
<1>1. PICK op \in {"load", "edit", "toggle", "delete"}, row \in Rows \cup {None} :
         /\ edPage # None /\ Editors!Send(op, row)
         /\ UNCHANGED <<edPage, edRows, edList, edForm, edDialog, edSubmitting, edBlocked>>
         /\ edLoading' \in {edLoading, TRUE} /\ edBusy' \in {edBusy, row}
  BY DEF Editors!Refresh, Editors!Edit, Editors!Toggle, Editors!Delete, Editors!Mark, EditorOpens
<1>2. edCalls' \in [EditorCalls -> Editors!Calls \cup {None}] /\ SavesKept
  BY <1>1, OthersSend
<1>3. Editors!TypeOK'
  BY <1>1, <1>2 DEF Editors!TypeOK
<1>4. QED
  BY <1>1, <1>2, <1>3, EditorKeeps

(* Buttons that only change the form.                                         *)
LEMMA EditorFormStep ==
    ASSUME Editors!EditorAssumption, EditorInv,
           Editors!New \/ Editors!Cross \/ Editors!Cancel
    PROVE  EditorInv'
<1> USE DEF EditorInv
<1>1. /\ edPage # None /\ edDialog' \in BOOLEAN
      /\ UNCHANGED <<edPage, edRows, edList, edSubmitting, edBusy, edBlocked, edCalls>>
      /\ edForm' \in {Editors!Blank, edForm} /\ edLoading' \in BOOLEAN
  BY DEF Editors!New, Editors!Cross, Editors!Cancel, Editors!ResetForm, EditorOpens,
         Editors!TypeOK
<1>2. Editors!TypeOK'
  BY <1>1 DEF Editors!TypeOK, Editors!Forms, Editors!Blank
<1>3. SavesKept
  BY <1>1 DEF SavesKept, IsSave
<1>4. edForm'.text = "typed" => edForm' = edForm
  BY <1>1 DEF Editors!Blank
<1>5. QED
  BY <1>1, <1>2, <1>3, <1>4, EditorKeeps

(* Typing: the form is not locked then, so that no save is under way.         *)
LEMMA EditorTypeStep ==
    ASSUME Editors!EditorAssumption, EditorInv, Editors!Type
    PROVE  EditorInv'
<1> USE DEF EditorInv
<1>1. /\ edPage # None /\ edForm' = [edForm EXCEPT !.text = "typed"]
      /\ edPage.save.locks => ~edSubmitting
      /\ UNCHANGED <<edPage, edRows, edList, edDialog, edSubmitting, edLoading, edBusy, edBlocked,
                     edCalls>>
  BY DEF Editors!Type, Editors!Open4Typing, Editors!Shown, EditorOpens
<1>2. Editors!TypeOK'
  BY <1>1 DEF Editors!TypeOK, Editors!Forms
<1>3. EditorOpens' /\ Locking' = Locking /\ \A s \in EditorCalls : IsSave(s)' = IsSave(s)
  BY <1>1 DEF EditorOpens, Locking, IsSave
<1>4. Locking => \A s \in EditorCalls : ~IsSave(s)
  BY <1>1 DEF Locking, SavesAreLocked
<1>5. QED
  BY <1>2, <1>3, <1>4 DEF SavesAreLocked, SavesTheDraft

(* The form is sent: it was not locked, so that this save is the only one.    *)
LEMMA EditorSubmitStep ==
    ASSUME Editors!EditorAssumption, EditorInv, Editors!Submit
    PROVE  EditorInv'
<1> USE DEF EditorInv
<1>1. /\ edPage # None /\ edSubmitting' = edPage.save.locks /\ Editors!Send("save", edForm.to)
      /\ edPage.save.locks => ~edSubmitting
      /\ UNCHANGED <<edPage, edRows, edList, edForm, edDialog, edLoading, edBusy, edBlocked>>
  BY DEF Editors!Submit, Editors!Open4Typing, EditorOpens
<1>2. edForm.to \in Rows \cup {None}
  BY DEF Editors!TypeOK, Editors!Forms
<1>3. edCalls' \in [EditorCalls -> Editors!Calls \cup {None}]
  BY <1>1, <1>2, EditorSends
<1>4. PICK slot \in EditorCalls :
         /\ edCalls'[slot] # None
         /\ edCalls'[slot].op = "save" /\ edCalls'[slot].form = edForm
         /\ \A s \in EditorCalls : s # slot => edCalls'[s] = edCalls[s]
  BY <1>1, <1>2, EditorSends
<1>5. edPage.save.locks \in BOOLEAN
  BY <1>1, LocksOrNot DEF Editors!TypeOK
<1>6. Editors!TypeOK'
  BY <1>1, <1>3, <1>5 DEF Editors!TypeOK
<1>7. EditorOpens' /\ Locking' = Locking
  BY <1>1 DEF EditorOpens, Locking
<1>8. Locking => \A s \in EditorCalls : IsSave(s)' => s = slot
  BY <1>1, <1>4 DEF Locking, SavesAreLocked, IsSave
<1>9. SavesAreLocked'
  BY <1>1, <1>7, <1>8 DEF SavesAreLocked, Locking
<1>10. SavesTheDraft'
  BY <1>1, <1>4, <1>7, <1>8 DEF SavesTheDraft
<1>11. QED
  BY <1>6, <1>7, <1>9, <1>10

-----------------------------------------------------------------------------
(* The backend answers: what is under way stays what it was.                  *)
LEMMA EditorServeStep ==
    ASSUME Editors!EditorAssumption, EditorInv, NEW s \in EditorCalls,
           Editors!Serve(s) \/ Editors!Refuse(s)
    PROVE  EditorInv'
<1> USE DEF EditorInv
<1>1. PICK answer \in {"ok", "denied", "failed"} : Editors!Answered(s, answer)
  BY DEF Editors!Serve, Editors!Refuse
<1>2. edCalls[s] # None /\ edCalls[s].at \in {"sent", "sent again"}
  BY DEF Editors!Serve, Editors!Refuse, Editors!Pending
<1>3. UNCHANGED <<edPage, edList, edForm, edDialog, edSubmitting, edLoading, edBusy, edBlocked>>
  BY DEF Editors!Serve, Editors!Refuse
<1>4. edCalls[s] \in Editors!Calls
  BY <1>2 DEF Editors!TypeOK
<1>5. edRows' \in SUBSET Rows
  <2>1. edRows \in SUBSET Rows
    BY DEF Editors!TypeOK
  <2>2. \A rows \in Editors!Done(edCalls[s]) : rows \in SUBSET Rows
    BY <2>1 DEF Editors!Done
  <2>3. QED
    BY <2>1, <2>2 DEF Editors!Serve, Editors!Refuse
<1> DEFINE new == [edCalls[s] EXCEPT
                      !.at = IF @ = "sent" THEN "answered" ELSE "answered again",
                      !.answer = answer,
                      !.rows = IF Editors!Lists(s) /\ answer = "ok" THEN edRows ELSE {}]
<1>6. edCalls' = [edCalls EXCEPT ![s] = new]
  BY <1>1 DEF Editors!Answered
<1>7. /\ new \in Editors!Calls /\ new.op = edCalls[s].op /\ new.form = edCalls[s].form
      /\ new.at = "answered" => edCalls[s].at = "sent"
      /\ new.at # "sent"
  BY <1>4 DEF Editors!Calls, Editors!TypeOK
<1>8. new # None
  BY <1>7 DEF Editors!EditorAssumption
<1>9. edCalls \in [EditorCalls -> Editors!Calls \cup {None}]
  BY DEF Editors!TypeOK
<1> HIDE DEF new
<1>10. edCalls' \in [EditorCalls -> Editors!Calls \cup {None}]
  BY <1>6, <1>7, <1>9
<1>11. SavesKept
  BY <1>2, <1>6, <1>7, <1>8, <1>9 DEF SavesKept, IsSave
<1>12. Editors!TypeOK'
  BY <1>3, <1>5, <1>10 DEF Editors!TypeOK
<1>13. QED
  BY <1>2, <1>3, <1>11, <1>12, EditorKeeps DEF EditorOpens

(* A request that comes to its end takes nothing from the saves.              *)
LEMMA EditorFinishes ==
    ASSUME Editors!EditorAssumption, EditorInv, NEW s \in EditorCalls, edCalls[s] # None,
           Editors!Finish(s)
    PROVE  /\ edPage # None /\ edCalls[s] \in Editors!Calls
           /\ edCalls' \in [EditorCalls -> Editors!Calls \cup {None}] /\ SavesKept
           /\ edCalls'[s] = None
<1> USE DEF EditorInv
<1>1. edCalls \in [EditorCalls -> Editors!Calls \cup {None}]
  BY DEF Editors!TypeOK
<1>2. edCalls' = [edCalls EXCEPT ![s] = None]
  BY DEF Editors!Finish
<1>3. QED
  BY <1>1, <1>2 DEF EditorOpens, SavesKept, IsSave

(* Nor does one that reads the list once more.                                *)
LEMMA EditorReadsAgain ==
    ASSUME Editors!EditorAssumption, EditorInv, NEW s \in EditorCalls, edCalls[s] # None,
           Editors!ReadAgain(s)
    PROVE  /\ edPage # None
           /\ edCalls' \in [EditorCalls -> Editors!Calls \cup {None}] /\ SavesKept
<1> USE DEF EditorInv
<1> DEFINE new == [edCalls[s] EXCEPT !.at = "sent again", !.answer = "none",
                                     !.form = Editors!Blank]
<1>1. edCalls \in [EditorCalls -> Editors!Calls \cup {None}] /\ edCalls[s] \in Editors!Calls
  BY DEF Editors!TypeOK
<1>2. edCalls' = [edCalls EXCEPT ![s] = new]
  BY DEF Editors!ReadAgain
<1>3. new \in Editors!Calls /\ new.op = edCalls[s].op /\ new.at = "sent again"
  BY <1>1 DEF Editors!Calls, Editors!Forms, Editors!Blank
<1> HIDE DEF new
<1>4. edPage # None
  BY DEF EditorOpens
<1>5. QED
  BY <1>1, <1>2, <1>3, <1>4 DEF SavesKept, IsSave

(* The list that an answer brings has rows in it.                             *)
LEMMA EditorTakesList ==
    ASSUME Editors!TypeOK, NEW s \in EditorCalls, edCalls[s] \in Editors!Calls,
           Editors!TakeList(s)
    PROVE  edList' \in SUBSET Rows /\ edBlocked' \in BOOLEAN
<1>1. edCalls[s].rows \in SUBSET Rows
  BY DEF Editors!Calls
<1>2. QED
  BY <1>1 DEF Editors!TakeList, Editors!TypeOK, Editors!Denied

(* The answer to a load or to an edit comes.                                  *)
LEMMA EditorReadStep ==
    ASSUME Editors!EditorAssumption, EditorInv, NEW s \in EditorCalls,
           Editors!LoadArrives(s) \/ Editors!EditArrives(s)
    PROVE  EditorInv'
<1> USE DEF EditorInv
<1>1. edCalls[s] # None /\ Editors!Finish(s)
  BY DEF Editors!LoadArrives, Editors!EditArrives, Editors!Arrived
<1>2. /\ edPage # None /\ edCalls[s] \in Editors!Calls
      /\ edCalls' \in [EditorCalls -> Editors!Calls \cup {None}] /\ SavesKept
  BY <1>1, EditorFinishes
<1>3. CASE Editors!LoadArrives(s)
  <2>1. edList' \in SUBSET Rows /\ edBlocked' \in BOOLEAN
    BY <1>2, <1>3, EditorTakesList DEF Editors!LoadArrives
  <2>2. UNCHANGED <<edPage, edRows, edForm, edDialog, edSubmitting, edLoading, edBusy>>
    BY <1>3 DEF Editors!LoadArrives
  <2>3. Editors!TypeOK'
    BY <1>2, <2>1, <2>2 DEF Editors!TypeOK
  <2>4. QED
    BY <1>2, <2>2, <2>3, EditorKeeps
<1>4. CASE Editors!EditArrives(s)
  <2>1. UNCHANGED <<edPage, edRows, edList, edSubmitting>> /\ edLoading' = FALSE
    BY <1>4 DEF Editors!EditArrives
  <2>2. edCalls[s].row \in Rows \cup {None}
    BY <1>2 DEF Editors!Calls
  <2>3. edForm' \in Editors!Forms /\ (edForm'.text = "typed" => edForm' = edForm)
    BY <1>4, <2>2 DEF Editors!EditArrives, Editors!Forms, Editors!TypeOK
  <2>4. edBlocked' \in BOOLEAN /\ edDialog' \in BOOLEAN
    BY <1>4 DEF Editors!EditArrives, Editors!TypeOK, Editors!Denied
  <2>5. edBusy' \in Rows \cup {None}
    BY <1>4 DEF Editors!EditArrives, Editors!Unmark, Editors!TypeOK
  <2>6. Editors!TypeOK'
    BY <1>2, <2>1, <2>3, <2>4, <2>5 DEF Editors!TypeOK
  <2>7. QED
    BY <1>2, <2>1, <2>3, <2>6, EditorKeeps
<1>5. QED
  BY <1>3, <1>4

(* A save, a publication or a deletion was done, and the list is read again.  *)
LEMMA EditorDoneStep ==
    ASSUME Editors!EditorAssumption, EditorInv, NEW s \in EditorCalls,
           Editors!Saved(s) \/ Editors!Toggled(s) \/ Editors!Deleted(s)
    PROVE  EditorInv'
<1> USE DEF EditorInv
<1>1. edCalls[s] # None /\ Editors!ReadAgain(s)
  BY DEF Editors!Saved, Editors!Toggled, Editors!Deleted, Editors!Arrived
<1>2. edPage # None /\ edCalls' \in [EditorCalls -> Editors!Calls \cup {None}] /\ SavesKept
  BY <1>1, EditorReadsAgain
<1>3. /\ UNCHANGED <<edPage, edRows, edList, edSubmitting, edBusy, edBlocked>>
      /\ edForm' \in {Editors!Blank, edForm} /\ edLoading' \in BOOLEAN /\ edDialog' \in BOOLEAN
  BY DEF Editors!Saved, Editors!Toggled, Editors!Deleted, Editors!ResetForm, Editors!TypeOK
<1>4. edForm' \in Editors!Forms /\ (edForm'.text = "typed" => edForm' = edForm)
  BY <1>3 DEF Editors!Forms, Editors!Blank, Editors!TypeOK
<1>5. Editors!TypeOK'
  BY <1>2, <1>3, <1>4 DEF Editors!TypeOK
<1>6. QED
  BY <1>2, <1>3, <1>4, <1>5, EditorKeeps

(* A save comes to its end: it was the only one, so that none is left.        *)
LEMMA EditorSaveEndStep ==
    ASSUME Editors!EditorAssumption, EditorInv, NEW s \in EditorCalls,
           Editors!NotSaved(s) \/ Editors!SaveEnds(s)
    PROVE  EditorInv'
<1> USE DEF EditorInv
<1>1. /\ edCalls[s] # None /\ edCalls[s].op = "save" /\ Editors!Finish(s)
      /\ edSubmitting' = FALSE
      /\ UNCHANGED <<edPage, edRows, edForm, edDialog, edLoading, edBusy>>
  BY DEF Editors!NotSaved, Editors!SaveEnds, Editors!Arrived
<1>2. /\ edPage # None /\ edCalls[s] \in Editors!Calls
      /\ edCalls' \in [EditorCalls -> Editors!Calls \cup {None}] /\ SavesKept
      /\ edCalls'[s] = None
  BY <1>1, EditorFinishes
<1>3. edList' \in SUBSET Rows /\ edBlocked' \in BOOLEAN
  <2>1. CASE Editors!NotSaved(s)
    BY <2>1 DEF Editors!NotSaved, Editors!Block, Editors!Denied, Editors!TypeOK
  <2>2. CASE Editors!SaveEnds(s)
    BY <1>2, <2>2, EditorTakesList DEF Editors!SaveEnds
  <2>3. QED
    BY <2>1, <2>2
<1>4. Editors!TypeOK'
  BY <1>1, <1>2, <1>3 DEF Editors!TypeOK
<1>5. Locking' => \A t \in EditorCalls : ~IsSave(t)'
  BY <1>1, <1>2 DEF SavesAreLocked, SavesKept, Locking, IsSave
<1>6. EditorOpens'
  BY <1>1, <1>2 DEF EditorOpens
<1>7. QED
  BY <1>4, <1>5, <1>6 DEF SavesAreLocked, SavesTheDraft

(* A publication or a deletion comes to its end.                              *)
LEMMA EditorRowStep ==
    ASSUME Editors!EditorAssumption, EditorInv, NEW s \in EditorCalls,
           NEW op \in {"toggle", "delete"}, Editors!RowFails(s, op) \/ Editors!RowEnds(s, op)
    PROVE  EditorInv'
<1> USE DEF EditorInv
<1>1. /\ edCalls[s] # None /\ Editors!Finish(s)
      /\ UNCHANGED <<edPage, edRows, edForm, edDialog, edSubmitting, edLoading>>
      /\ edBusy' \in Rows \cup {None}
  BY DEF Editors!RowFails, Editors!RowEnds, Editors!Arrived, Editors!Unmark, Editors!TypeOK
<1>2. /\ edPage # None /\ edCalls[s] \in Editors!Calls
      /\ edCalls' \in [EditorCalls -> Editors!Calls \cup {None}] /\ SavesKept
  BY <1>1, EditorFinishes
<1>3. edList' \in SUBSET Rows /\ edBlocked' \in BOOLEAN
  <2>1. CASE Editors!RowFails(s, op)
    BY <2>1 DEF Editors!RowFails, Editors!Block, Editors!Denied, Editors!TypeOK
  <2>2. CASE Editors!RowEnds(s, op)
    BY <1>2, <2>2, EditorTakesList DEF Editors!RowEnds
  <2>3. QED
    BY <2>1, <2>2
<1>4. Editors!TypeOK'
  BY <1>1, <1>2, <1>3 DEF Editors!TypeOK
<1>5. QED
  BY <1>1, <1>2, <1>4, EditorKeeps

(* Every step keeps the invariant.                                            *)
LEMMA EditorNextInv ==
    Editors!EditorAssumption /\ EditorInv /\ [Editors!Next]_(Editors!editorVars) => EditorInv'
<1> SUFFICES ASSUME Editors!EditorAssumption, EditorInv, [Editors!Next]_(Editors!editorVars)
             PROVE  EditorInv'
  OBVIOUS
<1>1. CASE UNCHANGED Editors!editorVars
  BY <1>1 DEF Editors!editorVars, EditorInv, Editors!TypeOK, EditorOpens, SavesAreLocked,
              SavesTheDraft, Locking, IsSave
<1>2. CASE Editors!Administrator
  BY <1>2, EditorOpenStep, EditorAskStep, EditorFormStep, EditorTypeStep, EditorSubmitStep
     DEF Editors!Administrator
<1>3. CASE \E s \in EditorCalls : Editors!Serve(s) \/ Editors!Refuse(s) \/ Editors!Arrives(s)
  BY <1>3, EditorServeStep, EditorReadStep, EditorDoneStep, EditorSaveEndStep, EditorRowStep
     DEF Editors!Arrives
<1>4. QED
  BY <1>1, <1>2, <1>3 DEF Editors!Next

(* The invariant of the editors.                                              *)
LEMMA EditorInvariance ==
    ASSUME Editors!EditorAssumption PROVE Editors!Spec => []EditorInv
  BY EditorInitInv, EditorNextInv, PTL DEF Editors!Spec

(* The two statements about saving follow from it.                            *)
LEMMA EditorInvSays == EditorInv => Editors!OneSaveAtATime /\ Editors!KeepsDraft
<1> SUFFICES ASSUME EditorInv PROVE Editors!OneSaveAtATime /\ Editors!KeepsDraft
  OBVIOUS
<1>1. Editors!OneSaveAtATime
  <2> DEFINE saves == {s \in EditorCalls : edCalls[s] # None /\ edCalls[s].op = "save"}
  <2>1. Locking => Cardinality(saves) <= 1
    BY AtMostOne DEF EditorInv, SavesAreLocked, IsSave
  <2>2. Editors!Cardinality(saves) = Cardinality(saves)
    BY DEF Editors!Cardinality, Cardinality
  <2>3. QED
    BY <2>1, <2>2 DEF Editors!OneSaveAtATime, Locking
<1>2. Editors!KeepsDraft
  BY DEF EditorInv, SavesTheDraft, Editors!KeepsDraft, Editors!Saved, Editors!Arrived, Locking,
         IsSave
<1>3. QED
  BY <1>1, <1>2

-----------------------------------------------------------------------------
(* The table of the route handlers. Each handler is built from a few words;   *)
(* what the proofs ask of it are the fields those words leave.                *)
Fields(h, verb, path, pass, auth, body, query) ==
    /\ h.verb = verb /\ h.path = path /\ h.pass = pass
    /\ h.auth = auth /\ h.body = body /\ h.query = query

(* The fields of a handler are those its constructors give it.                *)
LEMMA BuiltFields ==
    \A v, p, keys, ins :
      /\ Fields(Proxy!Buffered(v, p), v, p, "buffered", TRUE, FALSE, {})
      /\ Fields(Proxy!Streamed(v, p), v, p, "streamed", TRUE, FALSE, {})
      /\ Fields(Proxy!WithBody(Proxy!Buffered(v, p)), v, p, "buffered", TRUE, TRUE, {})
      /\ Fields(Proxy!WithBody(Proxy!Streamed(v, p)), v, p, "streamed", TRUE, TRUE, {})
      /\ Fields(Proxy!Query(Proxy!Buffered(v, p), keys), v, p, "buffered", TRUE, FALSE, keys)
      /\ Fields(Proxy!Query(Proxy!Streamed(v, p), keys), v, p, "streamed", TRUE, FALSE, keys)
      /\ Fields(Proxy!Query(Proxy!WithBody(Proxy!Streamed(v, p)), keys),
                v, p, "streamed", TRUE, TRUE, keys)
      /\ Fields(Proxy!Needs(Proxy!Buffered(v, p), ins), v, p, "buffered", TRUE, FALSE, {})
      /\ Fields(Proxy!Needs(Proxy!WithBody(Proxy!Buffered(v, p)), ins),
                v, p, "buffered", TRUE, TRUE, {})
      /\ Fields(Proxy!Needs(Proxy!Streamed(v, p), ins), v, p, "streamed", TRUE, FALSE, {})
      /\ Fields(Proxy!Needs(Proxy!Query(Proxy!Buffered(v, p), keys), ins),
                v, p, "buffered", TRUE, FALSE, keys)
      /\ Fields(Proxy!Needs(Proxy!WithBody(Proxy!Local(v, p)), ins),
                v, p, "local", TRUE, TRUE, {})
      /\ Fields(Proxy!Anonymous(Proxy!Buffered(v, p)), v, p, "buffered", FALSE, FALSE, {})
      /\ Fields(Proxy!Anonymous(Proxy!Streamed(v, p)), v, p, "streamed", FALSE, FALSE, {})
      /\ Fields(Proxy!Anonymous(Proxy!Local(v, p)), v, p, "local", FALSE, FALSE, {})
      /\ Fields(Proxy!Anonymous(Proxy!WithBody(Proxy!Buffered(v, p))),
                v, p, "buffered", FALSE, TRUE, {})
      /\ Fields(Proxy!Anonymous(Proxy!WithBody(Proxy!Streamed(v, p))),
                v, p, "streamed", FALSE, TRUE, {})
      /\ Fields(Proxy!Query(Proxy!Anonymous(Proxy!Buffered(v, p)), keys),
                v, p, "buffered", FALSE, FALSE, keys)
      /\ Fields(Proxy!Query(Proxy!Anonymous(Proxy!Streamed(v, p)), keys),
                v, p, "streamed", FALSE, FALSE, keys)
      /\ Fields(Proxy!ForClient(Proxy!WithBody(Proxy!Streamed(v, p))),
                v, p, "streamed", TRUE, TRUE, {})
      /\ Fields(Proxy!Caught(Proxy!WithBody(Proxy!Buffered(v, p))),
                v, p, "buffered", TRUE, TRUE, {})
      /\ Fields(Proxy!Caught(Proxy!Query(Proxy!Buffered(v, p), keys)),
                v, p, "buffered", TRUE, FALSE, keys)
      /\ Fields(Proxy!Unconfigured(Proxy!Anonymous(Proxy!Local(v, p))),
                v, p, "local", FALSE, FALSE, {})
      /\ Fields(Proxy!Unconfigured(Proxy!Caught(Proxy!Needs(Proxy!Streamed(v, p), ins))),
                v, p, "streamed", TRUE, FALSE, {})
  BY DEF Fields, Proxy!Buffered, Proxy!Streamed, Proxy!Local, Proxy!WithBody, Proxy!Anonymous,
         Proxy!ForClient, Proxy!Caught, Proxy!Unconfigured, Proxy!Query, Proxy!Needs

\* A handler that asks the backend asks for an endpoint that it has.
Leads(h) == h.pass # "local" => Proxy!To(h) \in Proxy!Registered(TRUE)

\* It hands on the token where the endpoint demands one, ...
HandsToken(h) == h.pass # "local" /\ Proxy!To(h) \in Proxy!Guarded => h.auth = TRUE

\* ... the body where the endpoint reads one, ...
HandsBody(h) == h.pass # "local" /\ Proxy!TakesBody(Proxy!To(h)) => h.body = TRUE

\* ... and the parameters that the endpoint reads.
HandsQuery(h) ==
    /\ Proxy!Reads(Proxy!To(h)) \subseteq h.query
    /\ Proxy!Reads(Proxy!To(h)) \in SUBSET Proxy!Keys

\* Among the handlers that answer themselves, only the tickets are a write.
OnlyTickets(h) == h.pass = "local" /\ Proxy!Writes(h) => h \in Proxy!Tickets

Fits(h) ==
    /\ Leads(h) /\ HandsToken(h) /\ HandsBody(h) /\ HandsQuery(h) /\ OnlyTickets(h)
    /\ h.pass \in {"buffered", "streamed", "local"} /\ h.auth \in BOOLEAN

(* Handlers of the documents and articles that administrators write.          *)
DocumentHandlers ==
    Proxy!AdminArticles \cup Proxy!AdminArticle
    \cup Proxy!AdminArticlePublish \cup Proxy!AdminArticleUnpublish \cup Proxy!AdminDocCategories
    \cup Proxy!AdminDocCategory \cup Proxy!AdminDocCategoryPublish
    \cup Proxy!AdminDocCategoryUnpublish \cup Proxy!AdminDocPages \cup Proxy!AdminDocPage
    \cup Proxy!AdminDocPagePublish \cup Proxy!AdminDocPageUnpublish

(* Each group of handlers fits, by the list of the paths the backend          *)
(* registers; the groups below are argued in the same way.                    *)
LEMMA DocumentHandlersFit == \A h \in DocumentHandlers : Fits(h)
<1> USE BuiltFields DEF DocumentHandlers, Fields, Proxy!AdminArticles, Proxy!AdminArticle,
        Proxy!AdminArticlePublish, Proxy!AdminArticleUnpublish, Proxy!AdminDocCategories,
        Proxy!AdminDocCategory, Proxy!AdminDocCategoryPublish, Proxy!AdminDocCategoryUnpublish,
        Proxy!AdminDocPages, Proxy!AdminDocPage, Proxy!AdminDocPagePublish,
        Proxy!AdminDocPageUnpublish
<1>1. \A h \in DocumentHandlers : Leads(h)
  BY DEF Leads, Proxy!To, Proxy!Registered, Proxy!Guarded, Proxy!Open, Proxy!SignedIn,
         Proxy!AdminOnly, Proxy!DistributorOnly, Proxy!ByGateway, Proxy!WithoutGateway,
         Proxy!Elsewhere, Proxy!On
<1>2. \A h \in DocumentHandlers : HandsToken(h)
  BY DEF HandsToken, Proxy!To, Proxy!Guarded, Proxy!Open, Proxy!SignedIn, Proxy!AdminOnly,
         Proxy!DistributorOnly, Proxy!ByGateway, Proxy!WithoutGateway, Proxy!Elsewhere, Proxy!On
<1>3. \A h \in DocumentHandlers : HandsBody(h)
  BY DEF HandsBody, Proxy!To, Proxy!TakesBody
<1>4. \A h \in DocumentHandlers : HandsQuery(h)
  BY DEF HandsQuery, Proxy!To, Proxy!Reads, Proxy!Keys
<1>5. \A h \in DocumentHandlers : OnlyTickets(h)
  BY DEF OnlyTickets, Proxy!Writes, Proxy!Tickets
<1>6. \A h \in DocumentHandlers :
           h.pass \in {"buffered", "streamed", "local"} /\ (h.auth = TRUE \/ h.auth = FALSE)
  OBVIOUS
<1>7. QED
  BY ONLY <1>1, <1>2, <1>3, <1>4, <1>5, <1>6 DEF Fits

(* Handlers of the administrators' software, templates and variables.         *)
SoftwareHandlers ==
    Proxy!AdminSoftwares \cup Proxy!AdminSoftware
    \cup Proxy!AdminSoftwareTags \cup Proxy!AdminSoftwareTag \cup Proxy!AdminSoftwareTemplates
    \cup Proxy!AdminTemplate \cup Proxy!AdminGlobalVars \cup Proxy!AdminGlobalVar

LEMMA SoftwareHandlersFit == \A h \in SoftwareHandlers : Fits(h)
<1> USE BuiltFields DEF SoftwareHandlers, Fields, Proxy!AdminSoftwares, Proxy!AdminSoftware,
        Proxy!AdminSoftwareTags, Proxy!AdminSoftwareTag, Proxy!AdminSoftwareTemplates,
        Proxy!AdminTemplate, Proxy!AdminGlobalVars, Proxy!AdminGlobalVar
<1>1. \A h \in SoftwareHandlers : Leads(h)
  BY DEF Leads, Proxy!To, Proxy!Registered, Proxy!Guarded, Proxy!Open, Proxy!SignedIn,
         Proxy!AdminOnly, Proxy!DistributorOnly, Proxy!ByGateway, Proxy!WithoutGateway,
         Proxy!Elsewhere, Proxy!On
<1>2. \A h \in SoftwareHandlers : HandsToken(h)
  BY DEF HandsToken, Proxy!To, Proxy!Guarded, Proxy!Open, Proxy!SignedIn, Proxy!AdminOnly,
         Proxy!DistributorOnly, Proxy!ByGateway, Proxy!WithoutGateway, Proxy!Elsewhere, Proxy!On
<1>3. \A h \in SoftwareHandlers : HandsBody(h)
  BY DEF HandsBody, Proxy!To, Proxy!TakesBody
<1>4. \A h \in SoftwareHandlers : HandsQuery(h)
  BY DEF HandsQuery, Proxy!To, Proxy!Reads, Proxy!Keys
<1>5. \A h \in SoftwareHandlers : OnlyTickets(h)
  BY DEF OnlyTickets, Proxy!Writes, Proxy!Tickets
<1>6. \A h \in SoftwareHandlers :
           h.pass \in {"buffered", "streamed", "local"} /\ (h.auth = TRUE \/ h.auth = FALSE)
  OBVIOUS
<1>7. QED
  BY ONLY <1>1, <1>2, <1>3, <1>4, <1>5, <1>6 DEF Fits

(* Handlers of downloads, services, packages and jobs.                        *)
CatalogueHandlers ==
    Proxy!AdminDownloads \cup Proxy!AdminDownload \cup Proxy!AdminServices
    \cup Proxy!AdminService \cup Proxy!AdminPackages \cup Proxy!AdminPackage
    \cup Proxy!AdminReplay

LEMMA CatalogueHandlersFit == \A h \in CatalogueHandlers : Fits(h)
<1> USE BuiltFields DEF CatalogueHandlers, Fields, Proxy!AdminDownloads, Proxy!AdminDownload,
        Proxy!AdminServices, Proxy!AdminService, Proxy!AdminPackages, Proxy!AdminPackage,
        Proxy!AdminReplay
<1>1. \A h \in CatalogueHandlers : Leads(h)
  BY DEF Leads, Proxy!To, Proxy!Registered, Proxy!Guarded, Proxy!Open, Proxy!SignedIn,
         Proxy!AdminOnly, Proxy!DistributorOnly, Proxy!ByGateway, Proxy!WithoutGateway,
         Proxy!Elsewhere, Proxy!On
<1>2. \A h \in CatalogueHandlers : HandsToken(h)
  BY DEF HandsToken, Proxy!To, Proxy!Guarded, Proxy!Open, Proxy!SignedIn, Proxy!AdminOnly,
         Proxy!DistributorOnly, Proxy!ByGateway, Proxy!WithoutGateway, Proxy!Elsewhere, Proxy!On
<1>3. \A h \in CatalogueHandlers : HandsBody(h)
  BY DEF HandsBody, Proxy!To, Proxy!TakesBody
<1>4. \A h \in CatalogueHandlers : HandsQuery(h)
  BY DEF HandsQuery, Proxy!To, Proxy!Reads, Proxy!Keys
<1>5. \A h \in CatalogueHandlers : OnlyTickets(h)
  BY DEF OnlyTickets, Proxy!Writes, Proxy!Tickets
<1>6. \A h \in CatalogueHandlers :
           h.pass \in {"buffered", "streamed", "local"} /\ (h.auth = TRUE \/ h.auth = FALSE)
  OBVIOUS
<1>7. QED
  BY ONLY <1>1, <1>2, <1>3, <1>4, <1>5, <1>6 DEF Fits

(* Handlers of the administrators' desk and settings.                         *)
DeskHandlers ==
    Proxy!AdminGroups \cup Proxy!AdminPayments \cup Proxy!AdminUnitPrices
    \cup Proxy!AdminAssignPackage \cup Proxy!AdminQuickCreate \cup Proxy!AdminRole
    \cup Proxy!AdminDistributorStats \cup Proxy!AdminDistributorUsers \cup Proxy!AdminCacheStats
    \cup Proxy!AdminRegisterSettings

LEMMA DeskHandlersFit == \A h \in DeskHandlers : Fits(h)
<1> USE BuiltFields DEF DeskHandlers, Fields, Proxy!AdminGroups, Proxy!AdminPayments,
        Proxy!AdminUnitPrices, Proxy!AdminAssignPackage, Proxy!AdminQuickCreate, Proxy!AdminRole,
        Proxy!AdminDistributorStats, Proxy!AdminDistributorUsers, Proxy!AdminCacheStats,
        Proxy!AdminRegisterSettings
<1>1. \A h \in DeskHandlers : Leads(h)
  BY DEF Leads, Proxy!To, Proxy!Registered, Proxy!Guarded, Proxy!Open, Proxy!SignedIn,
         Proxy!AdminOnly, Proxy!DistributorOnly, Proxy!ByGateway, Proxy!WithoutGateway,
         Proxy!Elsewhere, Proxy!On
<1>2. \A h \in DeskHandlers : HandsToken(h)
  BY DEF HandsToken, Proxy!To, Proxy!Guarded, Proxy!Open, Proxy!SignedIn, Proxy!AdminOnly,
         Proxy!DistributorOnly, Proxy!ByGateway, Proxy!WithoutGateway, Proxy!Elsewhere, Proxy!On
<1>3. \A h \in DeskHandlers : HandsBody(h)
  BY DEF HandsBody, Proxy!To, Proxy!TakesBody
<1>4. \A h \in DeskHandlers : HandsQuery(h)
  BY DEF HandsQuery, Proxy!To, Proxy!Reads, Proxy!Keys
<1>5. \A h \in DeskHandlers : OnlyTickets(h)
  BY DEF OnlyTickets, Proxy!Writes, Proxy!Tickets
<1>6. \A h \in DeskHandlers :
           h.pass \in {"buffered", "streamed", "local"} /\ (h.auth = TRUE \/ h.auth = FALSE)
  OBVIOUS
<1>7. QED
  BY ONLY <1>1, <1>2, <1>3, <1>4, <1>5, <1>6 DEF Fits

(* Handlers of distributors.                                                  *)
DistributorHandlers ==
    Proxy!DistributorAssign \cup Proxy!DistributorInvitations
    \cup Proxy!DistributorPackages \cup Proxy!DistributorStats \cup Proxy!DistributorQuickCreate
    \cup Proxy!DistributorUsers

LEMMA DistributorHandlersFit == \A h \in DistributorHandlers : Fits(h)
<1> USE BuiltFields DEF DistributorHandlers, Fields, Proxy!DistributorAssign,
        Proxy!DistributorInvitations, Proxy!DistributorPackages, Proxy!DistributorStats,
        Proxy!DistributorQuickCreate, Proxy!DistributorUsers
<1>1. \A h \in DistributorHandlers : Leads(h)
  BY DEF Leads, Proxy!To, Proxy!Registered, Proxy!Guarded, Proxy!Open, Proxy!SignedIn,
         Proxy!AdminOnly, Proxy!DistributorOnly, Proxy!ByGateway, Proxy!WithoutGateway,
         Proxy!Elsewhere, Proxy!On
<1>2. \A h \in DistributorHandlers : HandsToken(h)
  BY DEF HandsToken, Proxy!To, Proxy!Guarded, Proxy!Open, Proxy!SignedIn, Proxy!AdminOnly,
         Proxy!DistributorOnly, Proxy!ByGateway, Proxy!WithoutGateway, Proxy!Elsewhere, Proxy!On
<1>3. \A h \in DistributorHandlers : HandsBody(h)
  BY DEF HandsBody, Proxy!To, Proxy!TakesBody
<1>4. \A h \in DistributorHandlers : HandsQuery(h)
  BY DEF HandsQuery, Proxy!To, Proxy!Reads, Proxy!Keys
<1>5. \A h \in DistributorHandlers : OnlyTickets(h)
  BY DEF OnlyTickets, Proxy!Writes, Proxy!Tickets
<1>6. \A h \in DistributorHandlers :
           h.pass \in {"buffered", "streamed", "local"} /\ (h.auth = TRUE \/ h.auth = FALSE)
  OBVIOUS
<1>7. QED
  BY ONLY <1>1, <1>2, <1>3, <1>4, <1>5, <1>6 DEF Fits

(* Handlers of signing in and out.                                            *)
EntryHandlers ==
    Proxy!Login \cup Proxy!Logout \cup Proxy!AuthMe \cup Proxy!Refresh
    \cup Proxy!RegisterCaptcha \cup Proxy!RegisterOptions

LEMMA EntryHandlersFit == \A h \in EntryHandlers : Fits(h)
<1> USE BuiltFields DEF EntryHandlers, Fields, Proxy!Login, Proxy!Logout, Proxy!AuthMe,
        Proxy!Refresh, Proxy!RegisterCaptcha, Proxy!RegisterOptions
<1>1. \A h \in EntryHandlers : Leads(h)
  BY DEF Leads, Proxy!To, Proxy!Registered, Proxy!Guarded, Proxy!Open, Proxy!SignedIn,
         Proxy!AdminOnly, Proxy!DistributorOnly, Proxy!ByGateway, Proxy!WithoutGateway,
         Proxy!Elsewhere, Proxy!On
<1>2. \A h \in EntryHandlers : HandsToken(h)
  BY DEF HandsToken, Proxy!To, Proxy!Guarded, Proxy!Open, Proxy!SignedIn, Proxy!AdminOnly,
         Proxy!DistributorOnly, Proxy!ByGateway, Proxy!WithoutGateway, Proxy!Elsewhere, Proxy!On
<1>3. \A h \in EntryHandlers : HandsBody(h)
  BY DEF HandsBody, Proxy!To, Proxy!TakesBody
<1>4. \A h \in EntryHandlers : HandsQuery(h)
  BY DEF HandsQuery, Proxy!To, Proxy!Reads, Proxy!Keys
<1>5. \A h \in EntryHandlers : OnlyTickets(h)
  BY DEF OnlyTickets, Proxy!Writes, Proxy!Tickets
<1>6. \A h \in EntryHandlers :
           h.pass \in {"buffered", "streamed", "local"} /\ (h.auth = TRUE \/ h.auth = FALSE)
  OBVIOUS
<1>7. QED
  BY ONLY <1>1, <1>2, <1>3, <1>4, <1>5, <1>6 DEF Fits

(* Handlers of registration and the scan.                                     *)
RegisterHandlers ==
    Proxy!Register \cup Proxy!SendCode \cup Proxy!ScanInit
    \cup Proxy!ScanStatus

LEMMA RegisterHandlersFit == \A h \in RegisterHandlers : Fits(h)
<1> USE BuiltFields DEF RegisterHandlers, Fields, Proxy!Register, Proxy!SendCode, Proxy!ScanInit,
        Proxy!ScanStatus
<1>1. \A h \in RegisterHandlers : Leads(h)
  BY DEF Leads, Proxy!To, Proxy!Registered, Proxy!Guarded, Proxy!Open, Proxy!SignedIn,
         Proxy!AdminOnly, Proxy!DistributorOnly, Proxy!ByGateway, Proxy!WithoutGateway,
         Proxy!Elsewhere, Proxy!On
<1>2. \A h \in RegisterHandlers : HandsToken(h)
  BY DEF HandsToken, Proxy!To, Proxy!Guarded, Proxy!Open, Proxy!SignedIn, Proxy!AdminOnly,
         Proxy!DistributorOnly, Proxy!ByGateway, Proxy!WithoutGateway, Proxy!Elsewhere, Proxy!On
<1>3. \A h \in RegisterHandlers : HandsBody(h)
  BY DEF HandsBody, Proxy!To, Proxy!TakesBody
<1>4. \A h \in RegisterHandlers : HandsQuery(h)
  BY DEF HandsQuery, Proxy!To, Proxy!Reads, Proxy!Keys
<1>5. \A h \in RegisterHandlers : OnlyTickets(h)
  BY DEF OnlyTickets, Proxy!Writes, Proxy!Tickets
<1>6. \A h \in RegisterHandlers :
           h.pass \in {"buffered", "streamed", "local"} /\ (h.auth = TRUE \/ h.auth = FALSE)
  OBVIOUS
<1>7. QED
  BY ONLY <1>1, <1>2, <1>3, <1>4, <1>5, <1>6 DEF Fits

(* Handlers of the account.                                                   *)
AccountHandlers ==
    Proxy!VerifyEmail \cup Proxy!UserMe \cup Proxy!Password
    \cup Proxy!UsersRoute

LEMMA AccountHandlersFit == \A h \in AccountHandlers : Fits(h)
<1> USE BuiltFields DEF AccountHandlers, Fields, Proxy!VerifyEmail, Proxy!UserMe, Proxy!Password,
        Proxy!UsersRoute
<1>1. \A h \in AccountHandlers : Leads(h)
  BY DEF Leads, Proxy!To, Proxy!Registered, Proxy!Guarded, Proxy!Open, Proxy!SignedIn,
         Proxy!AdminOnly, Proxy!DistributorOnly, Proxy!ByGateway, Proxy!WithoutGateway,
         Proxy!Elsewhere, Proxy!On
<1>2. \A h \in AccountHandlers : HandsToken(h)
  BY DEF HandsToken, Proxy!To, Proxy!Guarded, Proxy!Open, Proxy!SignedIn, Proxy!AdminOnly,
         Proxy!DistributorOnly, Proxy!ByGateway, Proxy!WithoutGateway, Proxy!Elsewhere, Proxy!On
<1>3. \A h \in AccountHandlers : HandsBody(h)
  BY DEF HandsBody, Proxy!To, Proxy!TakesBody
<1>4. \A h \in AccountHandlers : HandsQuery(h)
  BY DEF HandsQuery, Proxy!To, Proxy!Reads, Proxy!Keys
<1>5. \A h \in AccountHandlers : OnlyTickets(h)
  BY DEF OnlyTickets, Proxy!Writes, Proxy!Tickets
<1>6. \A h \in AccountHandlers :
           h.pass \in {"buffered", "streamed", "local"} /\ (h.auth = TRUE \/ h.auth = FALSE)
  OBVIOUS
<1>7. QED
  BY ONLY <1>1, <1>2, <1>3, <1>4, <1>5, <1>6 DEF Fits

(* Handlers of API keys.                                                      *)
KeyHandlers ==
    Proxy!ApiKeys \cup Proxy!ApiKey \cup Proxy!EnsureAuto

LEMMA KeyHandlersFit == \A h \in KeyHandlers : Fits(h)
<1> USE BuiltFields DEF KeyHandlers, Fields, Proxy!ApiKeys, Proxy!ApiKey, Proxy!EnsureAuto
<1>1. \A h \in KeyHandlers : Leads(h)
  BY DEF Leads, Proxy!To, Proxy!Registered, Proxy!Guarded, Proxy!Open, Proxy!SignedIn,
         Proxy!AdminOnly, Proxy!DistributorOnly, Proxy!ByGateway, Proxy!WithoutGateway,
         Proxy!Elsewhere, Proxy!On
<1>2. \A h \in KeyHandlers : HandsToken(h)
  BY DEF HandsToken, Proxy!To, Proxy!Guarded, Proxy!Open, Proxy!SignedIn, Proxy!AdminOnly,
         Proxy!DistributorOnly, Proxy!ByGateway, Proxy!WithoutGateway, Proxy!Elsewhere, Proxy!On
<1>3. \A h \in KeyHandlers : HandsBody(h)
  BY DEF HandsBody, Proxy!To, Proxy!TakesBody
<1>4. \A h \in KeyHandlers : HandsQuery(h)
  BY DEF HandsQuery, Proxy!To, Proxy!Reads, Proxy!Keys
<1>5. \A h \in KeyHandlers : OnlyTickets(h)
  BY DEF OnlyTickets, Proxy!Writes, Proxy!Tickets
<1>6. \A h \in KeyHandlers :
           h.pass \in {"buffered", "streamed", "local"} /\ (h.auth = TRUE \/ h.auth = FALSE)
  OBVIOUS
<1>7. QED
  BY ONLY <1>1, <1>2, <1>3, <1>4, <1>5, <1>6 DEF Fits

(* Handlers of purchases and the wallet.                                      *)
PurchaseHandlers ==
    Proxy!Checkout \cup Proxy!CheckoutStatus \cup Proxy!WalletRedeem
    \cup Proxy!WalletTransactions \cup Proxy!Subscription

LEMMA PurchaseHandlersFit == \A h \in PurchaseHandlers : Fits(h)
<1> USE BuiltFields DEF PurchaseHandlers, Fields, Proxy!Checkout, Proxy!CheckoutStatus,
        Proxy!WalletRedeem, Proxy!WalletTransactions, Proxy!Subscription
<1>1. \A h \in PurchaseHandlers : Leads(h)
  BY DEF Leads, Proxy!To, Proxy!Registered, Proxy!Guarded, Proxy!Open, Proxy!SignedIn,
         Proxy!AdminOnly, Proxy!DistributorOnly, Proxy!ByGateway, Proxy!WithoutGateway,
         Proxy!Elsewhere, Proxy!On
<1>2. \A h \in PurchaseHandlers : HandsToken(h)
  BY DEF HandsToken, Proxy!To, Proxy!Guarded, Proxy!Open, Proxy!SignedIn, Proxy!AdminOnly,
         Proxy!DistributorOnly, Proxy!ByGateway, Proxy!WithoutGateway, Proxy!Elsewhere, Proxy!On
<1>3. \A h \in PurchaseHandlers : HandsBody(h)
  BY DEF HandsBody, Proxy!To, Proxy!TakesBody
<1>4. \A h \in PurchaseHandlers : HandsQuery(h)
  BY DEF HandsQuery, Proxy!To, Proxy!Reads, Proxy!Keys
<1>5. \A h \in PurchaseHandlers : OnlyTickets(h)
  BY DEF OnlyTickets, Proxy!Writes, Proxy!Tickets
<1>6. \A h \in PurchaseHandlers :
           h.pass \in {"buffered", "streamed", "local"} /\ (h.auth = TRUE \/ h.auth = FALSE)
  OBVIOUS
<1>7. QED
  BY ONLY <1>1, <1>2, <1>3, <1>4, <1>5, <1>6 DEF Fits

(* Handlers of the figures of the dashboard.                                  *)
FiguresHandlers ==
    Proxy!SubscriptionsActive \cup Proxy!SubscriptionsSummary
    \cup Proxy!DashboardAccount \cup Proxy!DashboardDetails \cup Proxy!DashboardHome
    \cup Proxy!DashboardModels

LEMMA FiguresHandlersFit == \A h \in FiguresHandlers : Fits(h)
<1> USE BuiltFields DEF FiguresHandlers, Fields, Proxy!SubscriptionsActive,
        Proxy!SubscriptionsSummary, Proxy!DashboardAccount, Proxy!DashboardDetails,
        Proxy!DashboardHome, Proxy!DashboardModels
<1>1. \A h \in FiguresHandlers : Leads(h)
  BY DEF Leads, Proxy!To, Proxy!Registered, Proxy!Guarded, Proxy!Open, Proxy!SignedIn,
         Proxy!AdminOnly, Proxy!DistributorOnly, Proxy!ByGateway, Proxy!WithoutGateway,
         Proxy!Elsewhere, Proxy!On
<1>2. \A h \in FiguresHandlers : HandsToken(h)
  BY DEF HandsToken, Proxy!To, Proxy!Guarded, Proxy!Open, Proxy!SignedIn, Proxy!AdminOnly,
         Proxy!DistributorOnly, Proxy!ByGateway, Proxy!WithoutGateway, Proxy!Elsewhere, Proxy!On
<1>3. \A h \in FiguresHandlers : HandsBody(h)
  BY DEF HandsBody, Proxy!To, Proxy!TakesBody
<1>4. \A h \in FiguresHandlers : HandsQuery(h)
  BY DEF HandsQuery, Proxy!To, Proxy!Reads, Proxy!Keys
<1>5. \A h \in FiguresHandlers : OnlyTickets(h)
  BY DEF OnlyTickets, Proxy!Writes, Proxy!Tickets
<1>6. \A h \in FiguresHandlers :
           h.pass \in {"buffered", "streamed", "local"} /\ (h.auth = TRUE \/ h.auth = FALSE)
  OBVIOUS
<1>7. QED
  BY ONLY <1>1, <1>2, <1>3, <1>4, <1>5, <1>6 DEF Fits

(* Handlers of usage and tickets.                                             *)
UsageHandlers ==
    Proxy!DashboardTrend \cup Proxy!DashboardUsage \cup Proxy!Tickets
    \cup Proxy!GroupsAvailable \cup Proxy!UsageStats

LEMMA UsageHandlersFit == \A h \in UsageHandlers : Fits(h)
<1> USE BuiltFields DEF UsageHandlers, Fields, Proxy!DashboardTrend, Proxy!DashboardUsage,
        Proxy!Tickets, Proxy!GroupsAvailable, Proxy!UsageStats
<1>1. \A h \in UsageHandlers : Leads(h)
  BY DEF Leads, Proxy!To, Proxy!Registered, Proxy!Guarded, Proxy!Open, Proxy!SignedIn,
         Proxy!AdminOnly, Proxy!DistributorOnly, Proxy!ByGateway, Proxy!WithoutGateway,
         Proxy!Elsewhere, Proxy!On
<1>2. \A h \in UsageHandlers : HandsToken(h)
  BY DEF HandsToken, Proxy!To, Proxy!Guarded, Proxy!Open, Proxy!SignedIn, Proxy!AdminOnly,
         Proxy!DistributorOnly, Proxy!ByGateway, Proxy!WithoutGateway, Proxy!Elsewhere, Proxy!On
<1>3. \A h \in UsageHandlers : HandsBody(h)
  BY DEF HandsBody, Proxy!To, Proxy!TakesBody
<1>4. \A h \in UsageHandlers : HandsQuery(h)
  BY DEF HandsQuery, Proxy!To, Proxy!Reads, Proxy!Keys
<1>5. \A h \in UsageHandlers : OnlyTickets(h)
  BY DEF OnlyTickets, Proxy!Writes, Proxy!Tickets
<1>6. \A h \in UsageHandlers :
           h.pass \in {"buffered", "streamed", "local"} /\ (h.auth = TRUE \/ h.auth = FALSE)
  OBVIOUS
<1>7. QED
  BY ONLY <1>1, <1>2, <1>3, <1>4, <1>5, <1>6 DEF Fits

(* Handlers of the synchronised configurations.                               *)
ConfigHandlers ==
    Proxy!ConfigsCompare \cup Proxy!ConfigsDefault \cup Proxy!ConfigsSoftware
    \cup Proxy!ConfigsStatus \cup Proxy!ConfigsSynced \cup Proxy!ConfigsSync

LEMMA ConfigHandlersFit == \A h \in ConfigHandlers : Fits(h)
<1> USE BuiltFields DEF ConfigHandlers, Fields, Proxy!ConfigsCompare, Proxy!ConfigsDefault,
        Proxy!ConfigsSoftware, Proxy!ConfigsStatus, Proxy!ConfigsSynced, Proxy!ConfigsSync
<1>1. \A h \in ConfigHandlers : Leads(h)
  BY DEF Leads, Proxy!To, Proxy!Registered, Proxy!Guarded, Proxy!Open, Proxy!SignedIn,
         Proxy!AdminOnly, Proxy!DistributorOnly, Proxy!ByGateway, Proxy!WithoutGateway,
         Proxy!Elsewhere, Proxy!On
<1>2. \A h \in ConfigHandlers : HandsToken(h)
  BY DEF HandsToken, Proxy!To, Proxy!Guarded, Proxy!Open, Proxy!SignedIn, Proxy!AdminOnly,
         Proxy!DistributorOnly, Proxy!ByGateway, Proxy!WithoutGateway, Proxy!Elsewhere, Proxy!On
<1>3. \A h \in ConfigHandlers : HandsBody(h)
  BY DEF HandsBody, Proxy!To, Proxy!TakesBody
<1>4. \A h \in ConfigHandlers : HandsQuery(h)
  BY DEF HandsQuery, Proxy!To, Proxy!Reads, Proxy!Keys
<1>5. \A h \in ConfigHandlers : OnlyTickets(h)
  BY DEF OnlyTickets, Proxy!Writes, Proxy!Tickets
<1>6. \A h \in ConfigHandlers :
           h.pass \in {"buffered", "streamed", "local"} /\ (h.auth = TRUE \/ h.auth = FALSE)
  OBVIOUS
<1>7. QED
  BY ONLY <1>1, <1>2, <1>3, <1>4, <1>5, <1>6 DEF Fits

(* Handlers of what everybody may read.                                       *)
ReadingHandlers ==
    Proxy!Packages \cup Proxy!PublicArticle \cup Proxy!PublicArticles
    \cup Proxy!PublicDocs \cup Proxy!PublicDoc

LEMMA ReadingHandlersFit == \A h \in ReadingHandlers : Fits(h)
<1> USE BuiltFields DEF ReadingHandlers, Fields, Proxy!Packages, Proxy!PublicArticle,
        Proxy!PublicArticles, Proxy!PublicDocs, Proxy!PublicDoc
<1>1. \A h \in ReadingHandlers : Leads(h)
  BY DEF Leads, Proxy!To, Proxy!Registered, Proxy!Guarded, Proxy!Open, Proxy!SignedIn,
         Proxy!AdminOnly, Proxy!DistributorOnly, Proxy!ByGateway, Proxy!WithoutGateway,
         Proxy!Elsewhere, Proxy!On
<1>2. \A h \in ReadingHandlers : HandsToken(h)
  BY DEF HandsToken, Proxy!To, Proxy!Guarded, Proxy!Open, Proxy!SignedIn, Proxy!AdminOnly,
         Proxy!DistributorOnly, Proxy!ByGateway, Proxy!WithoutGateway, Proxy!Elsewhere, Proxy!On
<1>3. \A h \in ReadingHandlers : HandsBody(h)
  BY DEF HandsBody, Proxy!To, Proxy!TakesBody
<1>4. \A h \in ReadingHandlers : HandsQuery(h)
  BY DEF HandsQuery, Proxy!To, Proxy!Reads, Proxy!Keys
<1>5. \A h \in ReadingHandlers : OnlyTickets(h)
  BY DEF OnlyTickets, Proxy!Writes, Proxy!Tickets
<1>6. \A h \in ReadingHandlers :
           h.pass \in {"buffered", "streamed", "local"} /\ (h.auth = TRUE \/ h.auth = FALSE)
  OBVIOUS
<1>7. QED
  BY ONLY <1>1, <1>2, <1>3, <1>4, <1>5, <1>6 DEF Fits

(* Handlers of what everybody may ask for.                                    *)
PublicHandlers ==
    Proxy!PublicVersion \cup Proxy!PublicDownloads \cup Proxy!PublicEstimate
    \cup Proxy!PublicPayment \cup Proxy!PublicServices \cup Proxy!PublicTiers
    \cup Proxy!StripeWebhook

LEMMA PublicHandlersFit == \A h \in PublicHandlers : Fits(h)
<1> USE BuiltFields DEF PublicHandlers, Fields, Proxy!PublicVersion, Proxy!PublicDownloads,
        Proxy!PublicEstimate, Proxy!PublicPayment, Proxy!PublicServices, Proxy!PublicTiers,
        Proxy!StripeWebhook
<1>1. \A h \in PublicHandlers : Leads(h)
  BY DEF Leads, Proxy!To, Proxy!Registered, Proxy!Guarded, Proxy!Open, Proxy!SignedIn,
         Proxy!AdminOnly, Proxy!DistributorOnly, Proxy!ByGateway, Proxy!WithoutGateway,
         Proxy!Elsewhere, Proxy!On
<1>2. \A h \in PublicHandlers : HandsToken(h)
  BY DEF HandsToken, Proxy!To, Proxy!Guarded, Proxy!Open, Proxy!SignedIn, Proxy!AdminOnly,
         Proxy!DistributorOnly, Proxy!ByGateway, Proxy!WithoutGateway, Proxy!Elsewhere, Proxy!On
<1>3. \A h \in PublicHandlers : HandsBody(h)
  BY DEF HandsBody, Proxy!To, Proxy!TakesBody
<1>4. \A h \in PublicHandlers : HandsQuery(h)
  BY DEF HandsQuery, Proxy!To, Proxy!Reads, Proxy!Keys
<1>5. \A h \in PublicHandlers : OnlyTickets(h)
  BY DEF OnlyTickets, Proxy!Writes, Proxy!Tickets
<1>6. \A h \in PublicHandlers :
           h.pass \in {"buffered", "streamed", "local"} /\ (h.auth = TRUE \/ h.auth = FALSE)
  OBVIOUS
<1>7. QED
  BY ONLY <1>1, <1>2, <1>3, <1>4, <1>5, <1>6 DEF Fits

(* Handlers of what the portal answers itself.                                *)
LocalHandlers ==
    Proxy!Health \cup Proxy!RuntimeConfig \cup Proxy!Progress \cup Proxy!Models

LEMMA LocalHandlersFit == \A h \in LocalHandlers : Fits(h)
<1> USE BuiltFields DEF LocalHandlers, Fields, Proxy!Health, Proxy!RuntimeConfig, Proxy!Progress,
        Proxy!Models
<1>1. \A h \in LocalHandlers : Leads(h)
  BY DEF Leads, Proxy!To, Proxy!Registered, Proxy!Guarded, Proxy!Open, Proxy!SignedIn,
         Proxy!AdminOnly, Proxy!DistributorOnly, Proxy!ByGateway, Proxy!WithoutGateway,
         Proxy!Elsewhere, Proxy!On
<1>2. \A h \in LocalHandlers : HandsToken(h)
  BY DEF HandsToken, Proxy!To, Proxy!Guarded, Proxy!Open, Proxy!SignedIn, Proxy!AdminOnly,
         Proxy!DistributorOnly, Proxy!ByGateway, Proxy!WithoutGateway, Proxy!Elsewhere, Proxy!On
<1>3. \A h \in LocalHandlers : HandsBody(h)
  BY DEF HandsBody, Proxy!To, Proxy!TakesBody
<1>4. \A h \in LocalHandlers : HandsQuery(h)
  BY DEF HandsQuery, Proxy!To, Proxy!Reads, Proxy!Keys
<1>5. \A h \in LocalHandlers : OnlyTickets(h)
  BY DEF OnlyTickets, Proxy!Writes, Proxy!Tickets
<1>6. \A h \in LocalHandlers :
           h.pass \in {"buffered", "streamed", "local"} /\ (h.auth = TRUE \/ h.auth = FALSE)
  OBVIOUS
<1>7. QED
  BY ONLY <1>1, <1>2, <1>3, <1>4, <1>5, <1>6 DEF Fits

(* Every handler of the portal fits the backend.                              *)
LEMMA HandlersFit == \A h \in Proxy!Handlers : Fits(h)
  BY DocumentHandlersFit, SoftwareHandlersFit, CatalogueHandlersFit, DeskHandlersFit,
     DistributorHandlersFit, EntryHandlersFit, RegisterHandlersFit, AccountHandlersFit,
     KeyHandlersFit, PurchaseHandlersFit, FiguresHandlersFit, UsageHandlersFit,
     ConfigHandlersFit, ReadingHandlersFit, PublicHandlersFit, LocalHandlersFit
     DEF Proxy!Handlers, DocumentHandlers, SoftwareHandlers, CatalogueHandlers, DeskHandlers,
         DistributorHandlers, EntryHandlers, RegisterHandlers, AccountHandlers, KeyHandlers,
         PurchaseHandlers, FiguresHandlers, UsageHandlers, ConfigHandlers, ReadingHandlers,
         PublicHandlers, LocalHandlers

-----------------------------------------------------------------------------
(* The route handlers at work.                                                *)

\* A call that is under way came from a handler of the portal, with a query that the
\* handler hands on.
CallFits ==
    pxPhase # "idle" =>
        /\ pxCall.handler \in Proxy!Handlers
        /\ pxCall.signed \in BOOLEAN /\ pxCall.gateway \in BOOLEAN
        /\ pxCall.query \subseteq pxCall.handler.query

\* What is sent is the handler's copy of the call.
SentIsCopied ==
    pxPhase \in {"sent", "answered", "lost"} =>
        pxCall.handler.pass # "local" /\ pxSent = Proxy!Copied(pxCall.handler)

Answers == [status : {200, 201, 400, 401, 404, 500, 502}, readable : BOOLEAN]
Replies == [status : Proxy!Statuses, json : BOOLEAN]

\* An answer that sounds good has something done behind it.
AnswerFits ==
    pxPhase = "answered" =>
        /\ pxAnswer \in Answers
        /\ pxAnswer.status \in {200, 201} => pxDone > 0

\* So does a reply, unless the portal answers for itself.
ReplyFits ==
    /\ pxPhase = "replied" => pxReply \in Replies
    /\ Proxy!SuccessIsBackends /\ Proxy!SignedStaysSigned

\* The backend acts once for a try at most, and a try follows something done only after a
\* doubtful answer.
DoneOncePerTry ==
    /\ pxDone \in Nat /\ pxTries \in 0..MaxTries /\ pxDone <= pxTries
    /\ pxPhase = "idle" => pxTries = 0
    /\ pxPhase \in {"asked", "sent"} => pxDone < pxTries
    /\ pxDone > 1 => pxDoubt
    /\ pxDone > 0 /\ ~pxDoubt =>
          \/ pxPhase = "answered" /\ pxAnswer.status < 400 /\ pxAnswer.readable
          \/ pxPhase = "replied" /\ Proxy!Succeeded(pxReply)

\* Requests have gone to the address that the process remembers.
SentWhereRemembered ==
    /\ pxFile \in Bases \cup {NoBase} /\ pxCache \in Bases \cup {NoBase, Proxy!Unread}
    /\ pxBases \subseteq Bases
    /\ IF Env # NoBase THEN pxBases \subseteq {Env}
       ELSE pxBases \subseteq {pxCache} /\ (pxCache = Proxy!Unread => pxBases = {})

ProxyInv ==
    /\ pxPhase \in Proxy!Phases /\ (pxPhase = "idle" <=> pxCall = None)
    /\ CallFits /\ SentIsCopied /\ AnswerFits /\ ReplyFits /\ DoneOncePerTry
    /\ SentWhereRemembered

(* The invariant holds at the start.                                          *)
LEMMA ProxyInitInv == Proxy!ProxyAssumption /\ Proxy!Init => ProxyInv
<1> SUFFICES ASSUME Proxy!ProxyAssumption, Proxy!Init PROVE ProxyInv
  OBVIOUS
<1>1. pxPhase = "idle" /\ pxCall = None
  BY DEF Proxy!Init
<1>2. CallFits /\ SentIsCopied /\ AnswerFits /\ ReplyFits
  BY <1>1 DEF CallFits, SentIsCopied, AnswerFits, ReplyFits, Proxy!SuccessIsBackends,
              Proxy!SignedStaysSigned
<1>3. DoneOncePerTry
  <2>1. pxDone = 0 /\ pxTries = 0
    BY DEF Proxy!Init
  <2>2. QED
    BY <1>1, <2>1 DEF DoneOncePerTry, Proxy!ProxyAssumption
<1>4. SentWhereRemembered
  BY DEF Proxy!Init, SentWhereRemembered
<1>5. QED
  BY <1>1, <1>2, <1>3, <1>4 DEF ProxyInv, Proxy!Phases

(* The configuration file is replaced: what was read of it stays remembered.  *)
LEMMA ConfigureStep ==
    ASSUME Proxy!ProxyAssumption, ProxyInv, NEW base \in Bases \cup {NoBase},
           Proxy!Configure(base)
    PROVE  ProxyInv'
<1> USE DEF ProxyInv
<1>1. /\ pxFile' = base
      /\ UNCHANGED <<pxCache, pxCall, pxPhase, pxSent, pxAnswer, pxReply, pxDone, pxDoubt,
                     pxTries, pxBases>>
  BY DEF Proxy!Configure
<1>2. CallFits' /\ SentIsCopied' /\ AnswerFits'
  BY <1>1 DEF CallFits, SentIsCopied, AnswerFits, Proxy!Copied
<1>3. ReplyFits' /\ DoneOncePerTry'
  BY <1>1 DEF ReplyFits, DoneOncePerTry, Proxy!SuccessIsBackends, Proxy!SignedStaysSigned
<1>4. SentWhereRemembered'
  BY <1>1 DEF SentWhereRemembered
<1>5. QED
  BY <1>1, <1>2, <1>3, <1>4

(* The browser calls.                                                         *)
LEMMA AskStep ==
    ASSUME Proxy!ProxyAssumption, ProxyInv, NEW h \in Proxy!Handlers, NEW gateway \in BOOLEAN,
           Proxy!Ask(h, gateway)
    PROVE  ProxyInv'
<1> USE DEF ProxyInv
<1>1. PICK signed \in BOOLEAN, filled \in {TRUE, h.needs = {}}, asks \in {{}, Proxy!Reads(Proxy!To(h))} :
         pxCall' = [handler |-> h, gateway |-> gateway, signed |-> signed, filled |-> filled,
                    query |-> asks]
  BY DEF Proxy!Ask
<1>2. /\ pxPhase = "idle" /\ pxPhase' = "asked" /\ pxTries' = 1
      /\ UNCHANGED <<pxFile, pxCache, pxSent, pxAnswer, pxReply, pxDone, pxDoubt, pxBases>>
  BY DEF Proxy!Ask
<1>3. asks \subseteq h.query /\ asks \in SUBSET Proxy!Keys
  BY HandlersFit DEF Fits, HandsQuery
<1>4. pxCall' \in Proxy!Calls
  BY <1>1, <1>3 DEF Proxy!Calls
<1>5. pxCall' # None
  BY <1>4 DEF Proxy!ProxyAssumption
<1>6. CallFits'
  BY <1>1, <1>3 DEF CallFits
<1>7. SentIsCopied' /\ AnswerFits' /\ ReplyFits' /\ SentWhereRemembered'
  BY <1>2 DEF SentIsCopied, AnswerFits, ReplyFits, SentWhereRemembered,
              Proxy!SuccessIsBackends, Proxy!SignedStaysSigned
<1>8. DoneOncePerTry'
  <2>1. pxDone = 0
    BY <1>2 DEF DoneOncePerTry
  <2>2. QED
    BY <1>2, <2>1 DEF DoneOncePerTry, Proxy!ProxyAssumption
<1>9. QED
  BY <1>2, <1>5, <1>6, <1>7, <1>8 DEF Proxy!Phases

(* Reading the configuration file, or not, disowns no request.                *)
LEMMA ConfigRead ==
    ASSUME Proxy!ProxyAssumption, SentWhereRemembered, NEW h, Proxy!ReadConfig(h),
           UNCHANGED <<pxFile, pxBases>>
    PROVE  SentWhereRemembered'
  BY DEF SentWhereRemembered, Proxy!ReadConfig, Proxy!Remembered, Proxy!ProxyAssumption

(* The portal answers without asking the backend.                             *)
LEMMA AnswersItself ==
    ASSUME Proxy!ProxyAssumption, ProxyInv, NEW h,
           Proxy!Misconfigured(h) \/ Proxy!Incomplete(h) \/ Proxy!AnswerLocally(h)
    PROVE  ProxyInv'
<1> USE DEF ProxyInv
<1>1. /\ pxPhase = "asked" /\ pxPhase' = "replied" /\ h = pxCall.handler
      /\ Proxy!ReadConfig(h)
      /\ UNCHANGED <<pxFile, pxCall, pxSent, pxAnswer, pxDone, pxDoubt, pxTries, pxBases>>
  BY DEF Proxy!Misconfigured, Proxy!Incomplete, Proxy!AnswerLocally, Proxy!Reply
<1>2. h \in Proxy!Handlers /\ pxCall.signed \in BOOLEAN
  BY <1>1 DEF CallFits
<1>3. PICK status \in Proxy!Statuses :
         /\ pxReply' = [status |-> status, json |-> TRUE]
         /\ status = 401 => ~pxCall.signed
         /\ status < 300 => h.pass = "local"
  BY DEF Proxy!Misconfigured, Proxy!Incomplete, Proxy!AnswerLocally, Proxy!Reply, Proxy!Statuses
<1>4. CallFits' /\ SentIsCopied' /\ AnswerFits'
  BY <1>1 DEF CallFits, SentIsCopied, AnswerFits
<1>5. ReplyFits'
  <2>1. h.pass = "local" /\ Proxy!Writes(h) => h \in Proxy!Tickets
    BY <1>2, HandlersFit DEF Fits, OnlyTickets
  <2>2. QED
    BY <1>1, <1>2, <1>3, <2>1 DEF ReplyFits, Replies, Proxy!SuccessIsBackends,
                                  Proxy!SignedStaysSigned, Proxy!Succeeded
<1>6. DoneOncePerTry'
  BY <1>1 DEF DoneOncePerTry
<1>7. SentWhereRemembered'
  BY <1>1, ConfigRead
<1>8. QED
  BY <1>1, <1>4, <1>5, <1>6, <1>7 DEF Proxy!Phases

(* A request goes to the backend.                                             *)
LEMMA ForwardStep ==
    ASSUME Proxy!ProxyAssumption, ProxyInv, NEW h, Proxy!Forward(h)
    PROVE  ProxyInv'
<1> USE DEF ProxyInv
<1>1. /\ pxPhase = "asked" /\ pxPhase' = "sent" /\ h = pxCall.handler /\ h.pass # "local"
      /\ pxSent' = Proxy!Copied(h) /\ Proxy!ReadConfig(h) /\ (h.base => Proxy!Address # NoBase)
      /\ pxBases' = IF h.base THEN pxBases \cup {Proxy!Address} ELSE pxBases
      /\ UNCHANGED <<pxFile, pxCall, pxAnswer, pxReply, pxDone, pxDoubt, pxTries>>
  BY DEF Proxy!Forward, Proxy!Complete
<1>2. CallFits' /\ AnswerFits' /\ ReplyFits' /\ DoneOncePerTry'
  BY <1>1 DEF CallFits, AnswerFits, ReplyFits, DoneOncePerTry, Proxy!SuccessIsBackends,
              Proxy!SignedStaysSigned
<1>3. SentIsCopied'
  BY <1>1 DEF SentIsCopied, Proxy!Copied
<1>4. SentWhereRemembered'
  <2>1. CASE h.base
    BY <1>1, <2>1 DEF SentWhereRemembered, Proxy!ReadConfig, Proxy!Remembered, Proxy!Address,
                      Proxy!ProxyAssumption
  <2>2. CASE ~h.base
    BY <1>1, <2>2, ConfigRead
  <2>3. QED
    BY <2>1, <2>2
<1>5. QED
  BY <1>1, <1>2, <1>3, <1>4 DEF Proxy!Phases

(* The backend answers: it acts when its answer says so, and without saying so only in doubt. *)
LEMMA BackendAnswers ==
    ASSUME Proxy!ProxyAssumption, ProxyInv,
           \/ Proxy!Unknown \/ Proxy!Unauthorized \/ Proxy!Perform \/ Proxy!PerformThenFail
           \/ Proxy!Refuse
    PROVE  ProxyInv'
<1> USE DEF ProxyInv
<1>1. /\ pxPhase = "sent" /\ pxPhase' = "answered"
      /\ UNCHANGED <<pxFile, pxCache, pxCall, pxSent, pxReply, pxTries, pxBases>>
  BY DEF Proxy!Unknown, Proxy!Unauthorized, Proxy!Perform, Proxy!PerformThenFail, Proxy!Refuse,
         Proxy!Answer
<1> DEFINE says == pxAnswer'.status \in {200, 201} /\ pxAnswer'.readable
<1>2. /\ pxAnswer' \in Answers
      /\ \/ /\ pxAnswer'.status \notin {200, 201}
            /\ pxDone' = pxDone /\ pxDoubt' = pxDoubt
         \/ pxDone' = pxDone + 1 /\ ((pxDoubt => pxDoubt') /\ (says \/ pxDoubt'))
  <2>1. CASE Proxy!Unknown \/ Proxy!Unauthorized \/ Proxy!Refuse
    <3>1. pxDone' = pxDone /\ pxDoubt' = pxDoubt
      BY <2>1 DEF Proxy!Unknown, Proxy!Unauthorized, Proxy!Refuse
    <3>2. PICK status \in {400, 401, 404, 500}, readable \in BOOLEAN :
             Proxy!Answer(status, readable)
      <4>1. CASE Proxy!Unknown
        <5>1. Proxy!Answer(404, FALSE)
          BY <4>1 DEF Proxy!Unknown
        <5>2. QED
          BY <5>1, 404 \in {400, 401, 404, 500}, FALSE \in BOOLEAN, Zenon
      <4>2. CASE Proxy!Unauthorized
        <5>1. Proxy!Answer(401, TRUE)
          BY <4>2 DEF Proxy!Unauthorized
        <5>2. QED
          BY <5>1, 401 \in {400, 401, 404, 500}, TRUE \in BOOLEAN, Zenon
      <4>3. CASE Proxy!Refuse
        <5>1. PICK code \in {400, 401, 500}, whole \in BOOLEAN : Proxy!Answer(code, whole)
          BY <4>3, Zenon DEF Proxy!Refuse
        <5>2. code \in {400, 401, 404, 500}
          OBVIOUS
        <5>3. QED
          BY <5>1, <5>2
      <4>4. QED
        BY <2>1, <4>1, <4>2, <4>3
    <3>3. pxAnswer' = [status |-> status, readable |-> readable]
      BY <3>2 DEF Proxy!Answer
    <3>4. QED
      BY <3>1, <3>3 DEF Answers
  <2>2. CASE Proxy!Perform
    <3>1. PICK status \in {200, 201}, readable \in BOOLEAN :
             /\ pxAnswer' = [status |-> status, readable |-> readable]
             /\ pxDoubt' = (pxDoubt \/ ~readable)
      BY <2>2 DEF Proxy!Perform, Proxy!Answer
    <3>2. pxDone' = pxDone + 1
      BY <2>2 DEF Proxy!Perform
    <3>3. pxAnswer' \in Answers /\ pxAnswer'.status \in {200, 201}
      BY <3>1 DEF Answers
    <3>4. pxAnswer'.readable = readable
      BY <3>1
    <3>5. (pxDoubt => pxDoubt') /\ (says \/ pxDoubt')
      BY <3>1, <3>3, <3>4, Zenon
    <3>6. QED
      BY <3>2, <3>3, <3>5
  <2>3. CASE Proxy!PerformThenFail
    <3>1. PICK readable \in BOOLEAN :
             pxAnswer' = [status |-> 500, readable |-> readable]
      BY <2>3 DEF Proxy!PerformThenFail, Proxy!Answer
    <3>2. pxDone' = pxDone + 1 /\ pxDoubt' = TRUE
      BY <2>3 DEF Proxy!PerformThenFail
    <3>3. pxAnswer' \in Answers
      BY <3>1 DEF Answers
    <3>4. QED
      BY <3>2, <3>3
  <2>4. QED
    BY <2>1, <2>2, <2>3
<1>3. CallFits' /\ SentIsCopied' /\ SentWhereRemembered' /\ ReplyFits'
  BY <1>1 DEF CallFits, SentIsCopied, SentWhereRemembered, ReplyFits, Proxy!SuccessIsBackends,
              Proxy!SignedStaysSigned, Proxy!Copied
<1>4. /\ pxDone \in Nat /\ pxTries \in 0..MaxTries /\ pxDone < pxTries
      /\ pxDone > 0 => pxDoubt
  BY <1>1 DEF DoneOncePerTry
<1>5. AnswerFits'
  BY <1>1, <1>2, <1>4 DEF AnswerFits
<1>6. DoneOncePerTry'
  <2>1. pxTries' = pxTries /\ pxDone' \in {pxDone, pxDone + 1}
    BY <1>1, <1>2
  <2>2. /\ pxDone' \in Nat /\ pxTries' \in 0..MaxTries /\ pxDone' <= pxTries'
        /\ pxDone' > 1 => pxDone > 0
    BY <1>4, <2>1
  <2>3. pxDone' > 1 => pxDoubt'
    <3>1. pxDone' > 1 => pxDoubt
      BY <1>4, <2>2, Zenon
    <3>2. pxDoubt => pxDoubt'
      BY <1>2, Zenon
    <3>3. QED
      BY <3>1, <3>2, Zenon
  <2>4. pxDone' > 0 /\ ~pxDoubt' => says
    <3>1. CASE pxDone' = pxDone /\ pxDoubt' = pxDoubt
      BY <1>4, <3>1, Zenon
    <3>2. CASE says \/ pxDoubt'
      BY <3>2, Zenon
    <3>3. QED
      BY <1>2, <3>1, <3>2, Zenon
  <2>5. says => pxAnswer'.status < 400 /\ pxAnswer'.readable
    OBVIOUS
  <2> HIDE DEF says
  <2>6. pxDone' > 0 /\ ~pxDoubt' => pxAnswer'.status < 400 /\ pxAnswer'.readable
    BY <2>4, <2>5, Zenon
  <2>7. QED
    BY <1>1, <2>2, <2>3, <2>6 DEF DoneOncePerTry
<1>7. QED
  BY <1>1, <1>3, <1>5, <1>6 DEF Proxy!Phases

(* The answer is lost, whether the backend has acted or not.                  *)
LEMMA LoseStep ==
    ASSUME Proxy!ProxyAssumption, ProxyInv, Proxy!Lose
    PROVE  ProxyInv'
<1> USE DEF ProxyInv
<1>1. /\ pxPhase = "sent" /\ pxPhase' = "lost"
      /\ UNCHANGED <<pxFile, pxCache, pxCall, pxSent, pxAnswer, pxReply, pxTries, pxBases>>
  BY DEF Proxy!Lose
<1>2. CallFits' /\ SentIsCopied' /\ SentWhereRemembered' /\ ReplyFits' /\ AnswerFits'
  BY <1>1 DEF CallFits, SentIsCopied, SentWhereRemembered, ReplyFits, AnswerFits,
              Proxy!SuccessIsBackends, Proxy!SignedStaysSigned, Proxy!Copied
<1>3. DoneOncePerTry'
  <2>1. CASE UNCHANGED <<pxDone, pxDoubt>>
    BY <1>1, <2>1 DEF DoneOncePerTry, Proxy!ProxyAssumption
  <2>2. CASE pxDone' = pxDone + 1 /\ pxDoubt' = TRUE
    BY <1>1, <2>2 DEF DoneOncePerTry, Proxy!ProxyAssumption
  <2>3. QED
    BY <2>1, <2>2 DEF Proxy!Lose
<1>4. QED
  BY <1>1, <1>2, <1>3 DEF Proxy!Phases

(* The handler turns the answer, or its loss, into a reply.                   *)
LEMMA RepliesStep ==
    ASSUME Proxy!ProxyAssumption, ProxyInv, NEW h, Proxy!HandBack(h) \/ Proxy!GiveUp(h)
    PROVE  ProxyInv'
<1> USE DEF ProxyInv
<1>1. /\ pxPhase \in {"answered", "lost"} /\ pxPhase' = "replied" /\ h = pxCall.handler
      /\ UNCHANGED <<pxFile, pxCache, pxCall, pxSent, pxAnswer, pxDone, pxDoubt, pxTries,
                     pxBases>>
  BY DEF Proxy!HandBack, Proxy!GiveUp, Proxy!Reply
<1>2. CallFits' /\ SentIsCopied' /\ SentWhereRemembered' /\ AnswerFits'
  BY <1>1 DEF CallFits, SentIsCopied, SentWhereRemembered, AnswerFits
<1>3. CASE Proxy!HandBack(h)
  <2>1. /\ pxPhase = "answered"
        /\ pxAnswer \in Answers
        /\ pxAnswer.status \in {200, 201} => pxDone > 0
    BY <1>3 DEF Proxy!HandBack, AnswerFits
  <2>2. /\ pxReply' = IF h.pass = "buffered" /\ ~pxAnswer.readable
                        THEN [status |-> 502, json |-> TRUE]
                        ELSE [status |-> pxAnswer.status, json |-> pxAnswer.readable]
    BY <1>3 DEF Proxy!HandBack, Proxy!ReplyTo
  <2>3. pxCall.signed /\ pxSent.to \in Proxy!Guarded => pxSent.auth
    <3>1. /\ h \in Proxy!Handlers /\ h.pass # "local" /\ pxCall.signed \in BOOLEAN
          /\ pxSent = Proxy!Copied(h)
      BY <1>1, <2>1 DEF CallFits, SentIsCopied
    <3>2. pxSent.to = Proxy!To(h) /\ pxSent.auth = (h.auth /\ pxCall.signed)
      BY <3>1 DEF Proxy!Copied
    <3>3. Proxy!To(h) \in Proxy!Guarded => h.auth = TRUE
      BY <3>1, HandlersFit DEF Fits, HandsToken
    <3>4. QED
      BY <3>1, <3>2, <3>3
  <2>4. ReplyFits'
    <3>1. pxReply' \in Replies
      BY <2>1, <2>2 DEF Proxy!Statuses, Answers, Replies
    <3>2. pxReply'.status < 300 => pxAnswer.status \in {200, 201}
      BY <2>1, <2>2 DEF Answers
    <3>3. pxReply'.status = 401 => pxAnswer \in [status : {401}, readable : BOOLEAN]
      BY <2>1, <2>2 DEF Answers
    <3>4. QED
      BY <1>1, <2>1, <2>3, <3>1, <3>2, <3>3
         DEF ReplyFits, Proxy!SuccessIsBackends, Proxy!SignedStaysSigned, Proxy!Succeeded
  <2>5. DoneOncePerTry'
    BY <1>1, <2>1, <2>2 DEF DoneOncePerTry, Proxy!Succeeded, Answers
  <2>6. QED
    BY <1>1, <1>2, <2>4, <2>5 DEF Proxy!Phases
<1>4. CASE Proxy!GiveUp(h)
  <2>1. /\ pxPhase = "lost"
        /\ \/ pxReply' = [status |-> 502, json |-> TRUE]
           \/ pxReply' = [status |-> 500, json |-> FALSE]
    BY <1>4 DEF Proxy!GiveUp, Proxy!Reply
  <2>2. ReplyFits'
    <3>1. pxReply' \in Replies
      <4>1. CASE pxReply' = [status |-> 502, json |-> TRUE]
        BY <4>1 DEF Proxy!Statuses, Replies
      <4>2. CASE pxReply' = [status |-> 500, json |-> FALSE]
        BY <4>2 DEF Proxy!Statuses, Replies
      <4>3. QED
        BY <2>1, <4>1, <4>2
    <3>2. pxReply'.status = 502 \/ pxReply'.status = 500
      BY <2>1
    <3>3. QED
      BY <1>1, <3>1, <3>2
         DEF ReplyFits, Proxy!SuccessIsBackends, Proxy!SignedStaysSigned, Proxy!Succeeded
  <2>3. DoneOncePerTry'
    BY <1>1, <2>1 DEF DoneOncePerTry
  <2>4. QED
    BY <1>1, <1>2, <2>2, <2>3 DEF Proxy!Phases
<1>5. QED
  BY <1>3, <1>4

(* The user tries again: after something done, only because of a doubt.       *)
LEMMA RetryStep ==
    ASSUME Proxy!ProxyAssumption, ProxyInv, Proxy!Retry
    PROVE  ProxyInv'
<1> USE DEF ProxyInv
<1>1. /\ pxPhase = "replied" /\ ~Proxy!Succeeded(pxReply) /\ pxTries < MaxTries
      /\ pxPhase' = "asked" /\ pxTries' = pxTries + 1
      /\ UNCHANGED <<pxFile, pxCache, pxCall, pxDone, pxDoubt, pxBases>>
  BY DEF Proxy!Retry
<1>2. CallFits' /\ SentIsCopied' /\ SentWhereRemembered' /\ ReplyFits' /\ AnswerFits'
  BY <1>1 DEF CallFits, SentIsCopied, SentWhereRemembered, ReplyFits, AnswerFits,
              Proxy!SuccessIsBackends, Proxy!SignedStaysSigned
<1>3. DoneOncePerTry'
  BY <1>1 DEF DoneOncePerTry, Proxy!ProxyAssumption
<1>4. QED
  BY <1>1, <1>2, <1>3 DEF Proxy!Phases

(* Every step keeps the invariant.                                            *)
LEMMA ProxyNextInv ==
    Proxy!ProxyAssumption /\ ProxyInv /\ [Proxy!Next]_(Proxy!proxyVars) => ProxyInv'
<1> SUFFICES ASSUME Proxy!ProxyAssumption, ProxyInv, [Proxy!Next]_(Proxy!proxyVars)
             PROVE  ProxyInv'
  OBVIOUS
<1>1. CASE UNCHANGED Proxy!proxyVars
  BY <1>1 DEF Proxy!proxyVars, ProxyInv, CallFits, SentIsCopied, AnswerFits, ReplyFits,
              DoneOncePerTry, SentWhereRemembered, Proxy!SuccessIsBackends,
              Proxy!SignedStaysSigned, Proxy!Copied
<1>2. CASE Proxy!Next
  BY <1>2, ConfigureStep, AskStep, AnswersItself, ForwardStep, BackendAnswers, LoseStep,
     RepliesStep, RetryStep
     DEF Proxy!Next, Proxy!Step
<1>3. QED
  BY <1>1, <1>2

(* The invariant of the route handlers.                                       *)
LEMMA ProxyInvariance ==
    ASSUME Proxy!ProxyAssumption PROVE Proxy!Spec => []ProxyInv
  BY ProxyInitInv, ProxyNextInv, PTL DEF Proxy!Spec

(* What the invariant says of a request that has been sent.                   *)
LEMMA ProxyInvSays ==
    ASSUME Proxy!ProxyAssumption, ProxyInv
    PROVE  /\ Proxy!TypeOK /\ Proxy!AsAsked /\ Proxy!NoSilentDouble /\ Proxy!OneBackend
           /\ Proxy!NoDeadRoute
<1> USE DEF ProxyInv
<1> DEFINE h == pxCall.handler
<1>1. pxPhase \in {"sent", "answered"} =>
         /\ h \in Proxy!Handlers /\ pxCall.gateway \in BOOLEAN /\ h.pass # "local"
         /\ pxCall.query \subseteq h.query
         /\ pxSent.to = Proxy!To(h) /\ pxSent.body = h.body
         /\ pxSent.query = pxCall.query \cap h.query
  BY DEF CallFits, SentIsCopied, Proxy!Copied
<1>2. Proxy!TypeOK
  <2>1. pxPhase \in {"sent", "answered"} => pxSent.to \in {Proxy!To(g) : g \in Proxy!Handlers}
    BY <1>1
  <2>2. pxDone \in 0..MaxTries
    BY DEF DoneOncePerTry, Proxy!ProxyAssumption
  <2>3. QED
    BY <2>1, <2>2 DEF Proxy!TypeOK, Proxy!Targets, ReplyFits, Replies, DoneOncePerTry, SentWhereRemembered
<1>3. Proxy!AsAsked
  <2>1. h \in Proxy!Handlers /\ h.pass # "local" /\ Proxy!TakesBody(Proxy!To(h)) => h.body = TRUE
    BY HandlersFit DEF Fits, HandsBody
  <2> HIDE DEF h
  <2>2. QED
    BY <1>1, <2>1 DEF Proxy!AsAsked
<1>4. Proxy!NoDeadRoute
  <2>1. h \in Proxy!Handlers /\ h.pass # "local" => Proxy!To(h) \in Proxy!Registered(TRUE)
    BY HandlersFit DEF Fits, Leads
  <2> HIDE DEF h
  <2>2. QED
    BY <1>1, <2>1 DEF Proxy!NoDeadRoute, Proxy!Served
<1>5. Proxy!NoSilentDouble
  BY DEF DoneOncePerTry, Proxy!NoSilentDouble
<1>6. Proxy!OneBackend
  <2>1. \A x, y \in pxBases : x = y
    BY DEF SentWhereRemembered
  <2>2. Cardinality(pxBases) <= 1
    BY <2>1, AtMostOne
  <2>3. Proxy!Cardinality(pxBases) = Cardinality(pxBases)
    BY DEF Proxy!Cardinality, Cardinality
  <2>4. QED
    BY <2>2, <2>3 DEF Proxy!OneBackend
<1>7. QED
  BY <1>2, <1>3, <1>4, <1>5, <1>6

-----------------------------------------------------------------------------
(* What the portal does is, for every page, what the page does.               *)

\* Whichever page is open, the checkout page moves as its specification says, or not at all.
LEMMA CheckoutLift == Spec => Checkout!Spec
<1>1. Init => Checkout!Init
  BY DEF Init
<1>2. UNCHANGED checkoutVars => UNCHANGED Checkout!checkoutVars
  BY DEF checkoutVars, Checkout!checkoutVars, Checkout!jobVars, Checkout!runVars,
         Checkout!hookVars, Checkout!callVars, Checkout!pageVars
<1>3. [Next]_portalVars => [Checkout!Next]_Checkout!checkoutVars
  BY <1>2 DEF Next, portalVars
<1>4. QED
  BY <1>1, <1>3, PTL DEF Spec, Checkout!Spec

\* The same of the dashboard.
LEMMA HomeLift == Spec => Home!Spec
<1>1. Init => Home!Init
  BY DEF Init
<1>2. UNCHANGED homeVars => UNCHANGED Home!dashboardVars
  BY DEF homeVars, Home!dashboardVars, Home!cardVars
<1>3. [Next]_portalVars => [Home!Next]_Home!dashboardVars
  BY <1>2 DEF Next, portalVars
<1>4. QED
  BY <1>1, <1>3, PTL DEF Spec, Home!Spec

\* The same of the keys page.
LEMMA KeysLift == Spec => Keys!Spec
<1>1. Init => Keys!Init
  BY DEF Init
<1>2. UNCHANGED keysVars => UNCHANGED Keys!keysVars
  BY DEF keysVars, Keys!keysVars, Keys!listVars, Keys!dialogVars
<1>3. [Next]_portalVars => [Keys!Next]_Keys!keysVars
  BY <1>2 DEF Next, portalVars
<1>4. QED
  BY <1>1, <1>3, PTL DEF Spec, Keys!Spec

\* The same of the editors.
LEMMA EditorLift == Spec => Editors!Spec
<1>1. Init => Editors!Init
  BY DEF Init
<1>2. UNCHANGED editorVars => UNCHANGED Editors!editorVars
  BY DEF editorVars, Editors!editorVars
<1>3. [Next]_portalVars => [Editors!Next]_Editors!editorVars
  BY <1>2 DEF Next, portalVars
<1>4. QED
  BY <1>1, <1>3, PTL DEF Spec, Editors!Spec

\* The same of the route handlers.
LEMMA ProxyLift == Spec => Proxy!Spec
<1>1. Init => Proxy!Init
  BY DEF Init
<1>2. UNCHANGED proxyVars => UNCHANGED Proxy!proxyVars
  BY DEF proxyVars, Proxy!proxyVars
<1>3. [Next]_portalVars => [Proxy!Next]_Proxy!proxyVars
  BY <1>2 DEF Next, portalVars
<1>4. QED
  BY <1>1, <1>3, PTL DEF Spec, Proxy!Spec

\* The assumptions on the constants, under the names of the two theorem modules.
LEMMA PagesAssume ==
    RegisterP!RegisterAssumption /\ DeskP!DeskAssumption
<1>1. RegisterP!RegisterAssumption
  BY PortalAssumption DEF RegisterP!RegisterAssumption, Register!RegisterAssumption
<1>2. DeskP!DeskAssumption
  BY PortalAssumption DEF DeskP!DeskAssumption, Desk!DeskAssumption
<1>3. QED
  BY <1>1, <1>2

-----------------------------------------------------------------------------
(* The theorems: each states, for every value of the constants, a property of *)
(* the portal.                                                                *)

\* Every page keeps its state in its domain, whichever of them is open.
THEOREM PortalTypes == Spec => []TypeOK
<1>1. RegisterP!TypeOK => Register!TypeOK
  BY DEF RegisterP!TypeOK, RegisterP!MadeUp, RegisterP!Requests, RegisterP!Registrations,
         RegisterP!Stages, RegisterP!Checks, Register!TypeOK, Register!MadeUp,
         Register!Requests, Register!Registrations, Register!Stages, Register!Checks
<1>2. KeysInv => Keys!TypeOK
  BY DEF KeysInv
<1>3. DeskP!TypeOK => Desk!TypeOK
  BY DEF DeskP!TypeOK, DeskP!Roles, DeskP!Forms, DeskP!Calls, Desk!TypeOK, Desk!Roles,
         Desk!Forms, Desk!Calls
<1>4. CheckoutInv => Checkout!TypeOK
  BY DEF CheckoutInv
<1>5. HomeInv => Home!TypeOK
  BY DEF HomeInv
<1>6. EditorInv => Editors!TypeOK
  BY DEF EditorInv
<1>7. ProxyInv => Proxy!TypeOK
  BY PortalAssumption, ProxyInvSays
<1>8. Spec => []Checkout!TypeOK
  BY <1>4, CheckoutLift, CheckoutInvariance, PortalAssumption, PTL
<1>9. Spec => []Home!TypeOK
  BY <1>5, HomeLift, HomeInvariance, PortalAssumption, PTL
<1>10. Spec => []Editors!TypeOK
  BY <1>6, EditorLift, EditorInvariance, PortalAssumption, PTL
<1>11. Spec => []Proxy!TypeOK
  BY <1>7, ProxyLift, ProxyInvariance, PortalAssumption, PTL
<1>12. Spec => []Register!TypeOK
  BY <1>1, RegisterLift, RegisterP!RegisterTypes, PagesAssume, PTL
<1>13. Spec => []Keys!TypeOK
  BY <1>2, KeysLift, KeysInvariance, PortalAssumption, PTL
<1>14. Spec => []Desk!TypeOK
  BY <1>3, DeskLift, DeskP!DeskTypes, PagesAssume, PTL
<1>15. Init => page \in Pages
  BY DEF Init
<1>16. page \in Pages /\ [Next]_portalVars => (page \in Pages)'
  BY DEF Next, portalVars
<1>17. /\ page \in Pages /\ Proxy!TypeOK /\ Editors!TypeOK /\ Register!TypeOK /\ Checkout!TypeOK
       /\ Keys!TypeOK /\ Home!TypeOK /\ Desk!TypeOK
       => TypeOK
  BY DEF TypeOK
<1>18. QED
  BY <1>8, <1>9, <1>10, <1>11, <1>12, <1>13, <1>14, <1>15, <1>16, <1>17, PTL DEF Spec

\* A page is told of a success only when the backend succeeded (apiProxy relays the status it
\* got), and a signed-in browser is never told that it is not signed in.
THEOREM HandlersTellTheTruth == Spec => []ToldWhatHappened
<1>1. ProxyInv => ToldWhatHappened
  BY DEF ProxyInv, ReplyFits, ToldWhatHappened
<1>2. QED
  BY <1>1, ProxyLift, ProxyInvariance, PortalAssumption, PTL

\* The backend does what the page asked, does it once for every time the page asks, and is the
\* one the process settled on when it first read its configuration.
THEOREM HandlersDoAsAsked == Spec => []DoneAsAsked
<1>1. ProxyInv => DoneAsAsked
  BY PortalAssumption, ProxyInvSays DEF DoneAsAsked
<1>2. QED
  BY <1>1, ProxyLift, ProxyInvariance, PortalAssumption, PTL

\* No handler's path is missing from the backend's router.
THEOREM RoutesLead == Spec => []NoDeadRoute
<1>1. ProxyInv => NoDeadRoute
  BY PortalAssumption, ProxyInvSays DEF NoDeadRoute
<1>2. QED
  BY <1>1, ProxyLift, ProxyInvariance, PortalAssumption, PTL

\* A form that is locked while it is saved has one save under way, and the end of a save takes
\* no draft away that it does not hold.
THEOREM EditorsSaveInOrder == Spec => SavesInOrder
<1>1. EditorInv => Editors!OneSaveAtATime /\ Editors!KeepsDraft
  BY EditorInvSays
<1>2. Spec => []EditorInv
  BY EditorLift, EditorInvariance, PortalAssumption, PTL
<1>3. QED
  BY <1>1, <1>2, PTL DEF SavesInOrder

\* However the registration page retries, an attempt that is charged to an e-mail address has
\* passed every check that is on, with a challenge and a token no other attempt has paid with.
THEOREM RegistrationsPay == Spec => []EveryAttemptPays
<1>1. RegisterP!EveryAttemptPays => Register!EveryAttemptPays
  BY DEF RegisterP!EveryAttemptPays, RegisterP!Paid, RegisterP!Requests,
         Register!EveryAttemptPays, Register!Paid, Register!Requests
<1>2. QED
  BY <1>1, RegisterLift, RegisterP!AttemptsArePaid, PagesAssume, PTL DEF EveryAttemptPays

\* The checkout page tells of an outcome only when the job has come to it and stays with it;
\* and, at the address it has after a payment, it says that it will refresh by itself only
\* while its poll is on.
THEOREM CheckoutTellsTheTruth == Spec => []CheckoutIsHonest
<1>1. CheckoutInv => Checkout!PromiseIsKept
  <2>1. Checkout!Description = "refreshes" /\ ckUrl = "paid"
          => ckShown \notin Checkout!Final /\ ~ckError
    BY DEF Checkout!Description, Checkout!Final
  <2>2. QED
    BY <2>1 DEF CheckoutInv, StoppedForCause, Checkout!PromiseIsKept
<1>2. CheckoutInv => Checkout!TellsTheTruth
  BY DEF CheckoutInv, ShownIsTrue, Checkout!TellsTheTruth, Checkout!Title
<1>3. CheckoutInv => CheckoutIsHonest
  BY <1>1, <1>2 DEF CheckoutIsHonest
<1>4. QED
  BY <1>3, CheckoutLift, CheckoutInvariance, PortalAssumption, PTL

\* The secret of a new key is shown when it arrives and stays on show until its user closes
\* the dialog, unless the session is refused; and no row stays locked without a request.
THEOREM KeysAreNotLost == Spec => NoKeyLost
<1>1. UNCHANGED Keys!keysVars => UNCHANGED keysVars
  BY DEF keysVars, Keys!keysVars, Keys!listVars, Keys!dialogVars
<1>2. KeysInv /\ [Keys!Next]_Keys!keysVars
        => [Keys!SecretIsSeen /\ Keys!LockHasRequest']_keysVars
  BY <1>1, PortalAssumption, KeysNextInv DEF KeysGoOn, KeysInv
<1>3. QED
  BY <1>2, KeysLift, KeysInvariance, PortalAssumption, PTL DEF Keys!Spec, NoKeyLost

\* The dashboard shows the data of the range it names, unless a reload nothing can abort
\* brought them, and a card is locked only while a request of its own is under way.
THEOREM HomeTellsItsRange == Spec => []HomeIsConsistent
<1>1. HomeInv => HomeIsConsistent
  BY DEF HomeInv, LocksAreHeld, Awaits, Home!LockHasRequest, HomeIsConsistent
<1>2. QED
  BY <1>1, HomeLift, HomeInvariance, PortalAssumption, PTL

\* Every package a distributor gives away goes to a user bound to that distributor, and the
\* desk moves no user from one distributor to another.
THEOREM DistributorsKeepToTheirOwn == Spec => OwnUsersOnly
<1> DEFINE DeskGives ==
             \A c \in Clerks : Desk!WriteAssignment(c) /\ dkPage[c] = "distributor"
                => <<c, dkCalls[c]["assign"].user>> \in dkOnce
           TheirsGive ==
             \A c \in Clerks : DeskP!WriteAssignment(c) /\ dkPage[c] = "distributor"
                => <<c, dkCalls[c]["assign"].user>> \in dkOnce
           DeskBinds ==
             \A u \in Users : dkBound[u] # None /\ dkBound'[u] # dkBound[u]
                => \E c \in Clerks : dkPage[c] = "admin" /\ Desk!At(c, "bind", "writing")
           TheirsBind ==
             \A u \in Users : dkBound[u] # None /\ dkBound'[u] # dkBound[u]
                => \E c \in Clerks : dkPage[c] = "admin" /\ DeskP!At(c, "bind", "writing")
<1>1. UNCHANGED DeskP!deskVars => UNCHANGED Desk!deskVars
  BY DEF Desk!deskVars, Desk!tableVars, DeskP!deskVars, DeskP!tableVars
<1>2. \A c \in Clerks : Desk!WriteAssignment(c) => DeskP!WriteAssignment(c)
  BY DEF Desk!WriteAssignment, Desk!At, Desk!To, Desk!Served, Desk!tableVars, Desk!Forms,
         Desk!Answers, Desk!Answer, DeskP!Answers, DeskP!Answer,
         DeskP!WriteAssignment, DeskP!At, DeskP!To, DeskP!Served, DeskP!tableVars, DeskP!Forms
<1>3. [TheirsGive]_DeskP!deskVars => [DeskGives]_Desk!deskVars
  BY <1>1, <1>2
<1>4. [TheirsBind]_DeskP!deskVars => [DeskBinds]_Desk!deskVars
  BY <1>1 DEF Desk!At, DeskP!At
<1>5. Spec => DeskP!OwnUsersOnly
  BY DeskLift, DeskP!DistributorsGiveToTheirOwn, PagesAssume
<1>6. Spec => DeskP!NoTakeover
  BY DeskLift, DeskP!UsersStayWithTheirs, PagesAssume
<1>7. Spec => Desk!OwnUsersOnly
  BY <1>3, <1>5, PTL DEF DeskP!OwnUsersOnly, Desk!OwnUsersOnly
<1>8. Spec => Desk!NoTakeover
  BY <1>4, <1>6, PTL DEF DeskP!NoTakeover, Desk!NoTakeover
<1>9. QED
  BY <1>7, <1>8 DEF OwnUsersOnly
=============================================================================
