------------------------- MODULE RegisterFlowProofs -------------------------
(* Theorems about RegisterFlow, for any number of challenges, codes, tokens   *)
(* and registrations.                                                         *)
EXTENDS RegisterFlow, TLAPS

\* The types the argument needs.
Types ==
    /\ rgReqs \in [Requests -> Registrations]
    /\ rgChecks \subseteq {"turnstile", "slider"} /\ rgRight \in BOOLEAN
    /\ rgShown \in 0..MaxKeys /\ rgSolve \in 0..MaxKeys
    /\ rgToken \in 0..MaxTokens /\ rgTyped \in 0..MadeUp
    /\ rgWaits \in 0..MaxRequests /\ rgSends \in 0..MaxRequests
    /\ rgIssued \in [keys : 0..MaxKeys, codes : 0..MaxCodes, tokens : 0..MaxTokens]

\* Nothing is recorded or sent that has not been issued.
Known ==
    /\ rgToken <= rgIssued.tokens /\ rgShown <= rgIssued.keys /\ rgSolve <= rgIssued.keys
    /\ \A r \in Requests : rgReqs[r].token <= rgIssued.tokens /\ rgReqs[r].key <= rgIssued.keys

\* What a request has paid with is used up.
Spent ==
    \A r \in Requests : /\ "turnstile" \in rgReqs[r].paid => rgReqs[r].token \notin rgTokens
                        /\ "slider" \in rgReqs[r].paid => rgReqs[r].key \notin rgKeys

\* And no other request has paid with it.
Apart ==
    \A r, q \in Requests : r # q =>
        /\ "turnstile" \in rgReqs[r].paid \cap rgReqs[q].paid => rgReqs[r].token # rgReqs[q].token
        /\ "slider" \in rgReqs[r].paid \cap rgReqs[q].paid => rgReqs[r].key # rgReqs[q].key

\* The checks are passed in their order.
Ordered ==
    \A r \in Requests :
        /\ rgReqs[r].at \in {"code", "consume", "slider", "address"}
             => rgChecks \cap {"turnstile"} \subseteq rgReqs[r].paid
        /\ rgReqs[r].at = "address" => rgChecks \subseteq rgReqs[r].paid
        /\ "address" \in rgReqs[r].paid => rgChecks \subseteq rgReqs[r].paid

\* Before the page is open nothing has been sent, so that the checks are settled first.
Unopened == ~rgOpen => \A r \in Requests : rgReqs[r].at = "unsent" /\ rgReqs[r].paid = {}

IInv == Types /\ Known /\ Spent /\ Apart /\ Ordered /\ Unopened

-----------------------------------------------------------------------------
(* A request that moves on keeps what it was sent with.                       *)
LEMMA Moved ==
    ASSUME Types, NEW r \in Requests, NEW stage \in Stages, NEW check \in Checks,
           To(r, stage) \/ Pays(r, check, stage)
    PROVE  /\ rgReqs' \in [Requests -> Registrations]
           /\ rgReqs'[r].at = stage /\ rgReqs'[r].token = rgReqs[r].token
           /\ rgReqs'[r].key = rgReqs[r].key
           /\ rgReqs'[r].paid = rgReqs[r].paid \/ rgReqs'[r].paid = rgReqs[r].paid \cup {check}
           /\ Pays(r, check, stage) => rgReqs'[r].paid = rgReqs[r].paid \cup {check}
           /\ To(r, stage) => rgReqs'[r].paid = rgReqs[r].paid
           /\ \A q \in Requests : q # r => rgReqs'[q] = rgReqs[q]
<1>1. rgReqs[r] \in Registrations
  BY DEF Types
<1>2. CASE To(r, stage)
  <2>1. rgReqs' = [rgReqs EXCEPT ![r].at = stage]
    BY <1>2 DEF To
  <2>2. [rgReqs[r] EXCEPT !.at = stage] \in Registrations
    BY <1>1 DEF Registrations
  <2>3. rgReqs'[r] = [rgReqs[r] EXCEPT !.at = stage] /\ \A q \in Requests : q # r => rgReqs'[q] = rgReqs[q]
    BY <2>1 DEF Types
  <2>4. rgReqs' \in [Requests -> Registrations]
    BY <2>1, <2>2 DEF Types
  <2>5. rgReqs'[r].paid = rgReqs[r].paid /\ rgReqs'[r].at = stage /\ rgReqs'[r].token = rgReqs[r].token
        /\ rgReqs'[r].key = rgReqs[r].key
    BY <1>1, <2>3 DEF Registrations
  <2>6. Pays(r, check, stage) => rgReqs'[r].paid = rgReqs[r].paid \cup {check}
    <3>1. SUFFICES ASSUME Pays(r, check, stage)
                   PROVE  rgReqs'[r].paid = rgReqs[r].paid \cup {check}
      OBVIOUS
    <3>2. rgReqs' = [rgReqs EXCEPT ![r].at = stage, ![r].paid = @ \cup {check}]
      BY <3>1 DEF Pays
    <3>3. QED
      BY <1>1, <3>2 DEF Types, Registrations
  <2>7. QED
    BY <2>3, <2>4, <2>5, <2>6
<1>3. CASE Pays(r, check, stage)
  <2>1. rgReqs' = [rgReqs EXCEPT ![r].at = stage, ![r].paid = @ \cup {check}]
    BY <1>3 DEF Pays
  <2> DEFINE n == [rgReqs[r] EXCEPT !.at = stage, !.paid = @ \cup {check}]
  <2>2. n \in Registrations /\ n.paid = rgReqs[r].paid \cup {check} /\ n.at = stage
        /\ n.token = rgReqs[r].token /\ n.key = rgReqs[r].key
    BY <1>1 DEF Registrations
  <2>3. rgReqs'[r] = n /\ \A q \in Requests : q # r => rgReqs'[q] = rgReqs[q]
    BY <2>1 DEF Types
  <2>4. rgReqs' \in [Requests -> Registrations]
    BY <2>1, <2>2 DEF Types
  <2>5. To(r, stage) => rgReqs'[r].paid = rgReqs[r].paid
    <3>1. SUFFICES ASSUME To(r, stage) PROVE rgReqs'[r].paid = rgReqs[r].paid
      OBVIOUS
    <3>2. rgReqs' = [rgReqs EXCEPT ![r].at = stage]
      BY <3>1 DEF To
    <3>3. QED
      BY <1>1, <3>2 DEF Types, Registrations
  <2>6. QED
    BY <2>2, <2>3, <2>4, <2>5
<1>4. QED
  BY <1>2, <1>3

(* The invariant holds at the start.                                          *)
LEMMA InitInv == RegisterAssumption /\ Init => IInv
<1> SUFFICES ASSUME RegisterAssumption, Init PROVE IInv
  OBVIOUS
<1>1. 0 \in 0..MaxKeys /\ 0 \in 0..MaxCodes /\ 0 \in 0..MaxTokens /\ 0 \in 0..MadeUp
      /\ 0 \in 0..MaxRequests
  BY DEF RegisterAssumption, MadeUp
<1>2. Unsent \in Registrations /\ Unsent.paid = {} /\ Unsent.at = "unsent" /\ Unsent.token = 0
      /\ Unsent.key = 0
  BY <1>1 DEF Unsent, Registrations, Stages, Nothing
<1>3. \A r \in Requests : rgReqs[r] = Unsent
  BY DEF Init
<1>4. rgIssued \in [keys : 0..MaxKeys, codes : 0..MaxCodes, tokens : 0..MaxTokens]
  BY <1>1 DEF Init
<1>5. Types
  BY <1>1, <1>2, <1>4 DEF Init, Types, Nothing
<1>6. Known
  BY <1>2, <1>3 DEF Init, Known, Nothing
<1>7. Spent /\ Apart /\ Ordered /\ Unopened
  BY <1>2, <1>3 DEF Spent, Apart, Ordered, Unopened
<1>8. QED
  BY <1>5, <1>6, <1>7 DEF IInv

-----------------------------------------------------------------------------
(* The page's steps that send nothing: what they record has been issued.      *)
LEMMA PageStep ==
    ASSUME RegisterAssumption, IInv,
           \/ \E checks \in SUBSET {"turnstile", "slider"}, on \in BOOLEAN : OpenPage(checks, on)
           \/ ProbeOptions \/ ChallengeArrives \/ RefreshChallenge \/ DropTile \/ TurnstileSolved
           \/ SendCode \/ \E c \in 1..MadeUp : TypeCode(c)
           \/ \E r \in Requests : ShowSuccess(r) \/ LoseAnswer(r)
    PROVE  IInv'
<1> USE DEF IInv
<1>0. /\ MaxKeys \in Nat /\ MaxCodes \in Nat /\ MaxTokens \in Nat /\ MaxRequests \in Nat
      /\ rgIssued.keys \in 0..MaxKeys /\ rgIssued.codes \in 0..MaxCodes
      /\ rgIssued.tokens \in 0..MaxTokens
  BY DEF RegisterAssumption, Types
<1>1. CASE \E checks \in SUBSET {"turnstile", "slider"}, on \in BOOLEAN : OpenPage(checks, on)
  <2>1. /\ ~rgOpen /\ rgOpen' /\ rgChecks' \subseteq {"turnstile", "slider"}
        /\ UNCHANGED <<rgShown, rgSolve, rgRight, formVars, sendVars, rgReqs, gateVars>>
    BY <1>1 DEF OpenPage
  <2>2. QED
    BY <2>1 DEF Types, Known, Spent, Apart, Ordered, Unopened, formVars, sendVars, gateVars
<1>2. CASE ProbeOptions \/ RefreshChallenge \/ DropTile \/ \E r \in Requests : ShowSuccess(r) \/ LoseAnswer(r)
  <2>1. /\ UNCHANGED <<rgChecks, rgOpen, rgShown, formVars, rgReqs, gateVars, rgSends>>
        /\ rgSolve' \in {rgSolve, rgShown, 0} /\ rgRight' \in BOOLEAN /\ rgWaits' \in {rgWaits, 0}
    BY <1>2 DEF ProbeOptions, RefreshChallenge, Refresh, DropTile, ShowSuccess, LoseAnswer, Unlock,
                Nothing, setVars, probeVars, sliderVars, sendVars, Types
  <2>2. QED
    BY <1>0, <2>1 DEF Types, Known, Spent, Apart, Ordered, Unopened, formVars, gateVars
<1>3. CASE ChallengeArrives
  <2>1. /\ UNCHANGED <<rgChecks, rgOpen, rgSolve, rgRight, formVars, sendVars, rgReqs, rgTokens>>
        /\ \/ /\ rgIssued.keys < MaxKeys /\ rgIssued' = [rgIssued EXCEPT !.keys = @ + 1]
              /\ rgKeys' = rgKeys \cup {rgIssued.keys + 1} /\ rgShown' = rgIssued.keys + 1
           \/ rgShown' = 0 /\ UNCHANGED <<rgIssued, rgKeys>>
    BY <1>3 DEF ChallengeArrives, Nothing, setVars, probeVars
  <2>2. /\ rgIssued' \in [keys : 0..MaxKeys, codes : 0..MaxCodes, tokens : 0..MaxTokens]
        /\ rgIssued'.tokens = rgIssued.tokens /\ rgIssued.keys <= rgIssued'.keys
        /\ rgShown' \in 0..MaxKeys /\ rgShown' <= rgIssued'.keys
    BY <1>0, <2>1 DEF Types
  <2>3. Types' /\ Known'
    <3>1. \A r \in Requests : rgReqs[r].key \in Nat
      BY <1>0 DEF Types, Registrations
    <3>2. QED
      BY <1>0, <2>1, <2>2, <3>1 DEF Types, Known, formVars, sendVars
  <2>4. Spent'
    <3>1. \A r \in Requests : rgReqs[r].key # rgIssued.keys + 1
      BY <1>0 DEF Known, Types, Registrations
    <3>2. QED
      BY <2>1, <3>1 DEF Spent
  <2>5. QED
    BY <2>1, <2>3, <2>4 DEF Apart, Ordered, Unopened
<1>4. CASE TurnstileSolved
  <2>1. /\ UNCHANGED <<rgChecks, rgOpen, sliderVars, rgTyped, sendVars, rgReqs, rgKeys>>
        /\ rgIssued.tokens < MaxTokens /\ rgIssued' = [rgIssued EXCEPT !.tokens = @ + 1]
        /\ rgTokens' = rgTokens \cup {rgIssued.tokens + 1} /\ rgToken' = rgIssued.tokens + 1
    BY <1>4 DEF TurnstileSolved, setVars, probeVars
  <2>2. /\ rgIssued' \in [keys : 0..MaxKeys, codes : 0..MaxCodes, tokens : 0..MaxTokens]
        /\ rgIssued'.keys = rgIssued.keys /\ rgIssued'.tokens = rgIssued.tokens + 1
        /\ rgToken' \in 0..MaxTokens /\ rgToken' <= rgIssued'.tokens
    BY <1>0, <2>1 DEF Types
  <2>3. Types' /\ Known'
    <3>1. \A r \in Requests : rgReqs[r].token \in Nat
      BY <1>0 DEF Types, Registrations
    <3>2. QED
      BY <1>0, <2>1, <2>2, <3>1 DEF Types, Known, sliderVars, sendVars
  <2>4. Spent'
    <3>1. \A r \in Requests : rgReqs[r].token # rgIssued.tokens + 1
      BY <1>0 DEF Known, Types, Registrations
    <3>2. QED
      BY <2>1, <3>1 DEF Spent
  <2>5. QED
    BY <2>1, <2>3, <2>4 DEF Apart, Ordered, Unopened
<1>5. CASE SendCode \/ \E c \in 1..MadeUp : TypeCode(c)
  <2>1. /\ UNCHANGED <<rgChecks, rgOpen, sliderVars, rgToken, sendVars, rgReqs, rgKeys, rgTokens>>
        /\ rgTyped' \in 0..MadeUp
    BY <1>0, <1>5 DEF SendCode, TypeCode, setVars, probeVars, Types, gateVars, MadeUp
  <2>2. /\ rgIssued' \in [keys : 0..MaxKeys, codes : 0..MaxCodes, tokens : 0..MaxTokens]
        /\ rgIssued'.keys = rgIssued.keys /\ rgIssued'.tokens = rgIssued.tokens
    BY <1>0, <1>5 DEF SendCode, TypeCode, Types, gateVars
  <2>3. QED
    BY <2>1, <2>2 DEF Types, Known, Spent, Apart, Ordered, Unopened, sliderVars, sendVars
<1>6. QED
  BY <1>1, <1>2, <1>3, <1>4, <1>5
(* A registration is sent with what the page has recorded, and nothing paid.  *)
LEMMA SubmitStep ==
    ASSUME RegisterAssumption, IInv, Submit
    PROVE  IInv'
<1> USE DEF IInv
<1> DEFINE new == [token |-> rgToken, key |-> rgSolve, right |-> rgRight, code |-> rgTyped,
                   at |-> "turnstile", paid |-> {}]
<1>0. rgOpen /\ rgSends < MaxRequests /\ MaxRequests \in Nat /\ rgSends \in 0..MaxRequests
  BY DEF Submit, MaySubmit, MoreToSend, RegisterAssumption, Types
<1>1. /\ UNCHANGED <<rgChecks, rgOpen, sliderVars, formVars, gateVars>>
      /\ rgSends' = rgSends + 1 /\ rgWaits' = rgSends + 1
      /\ rgReqs' = [rgReqs EXCEPT ![rgSends + 1] = new]
  BY DEF Submit, setVars, probeVars
<1>2. rgSends + 1 \in Requests /\ rgSends + 1 \in 0..MaxRequests
  BY <1>0 DEF Requests
<1>3. new \in Registrations
  BY DEF Types, Registrations, Stages
<1>4. /\ rgReqs'[rgSends + 1] = new
      /\ \A q \in Requests : q # rgSends + 1 => rgReqs'[q] = rgReqs[q]
  BY <1>1, <1>2 DEF Types
<1>5. Types'
  BY <1>1, <1>2, <1>3 DEF Types, sliderVars, formVars, gateVars
<1>6. new.paid = {} /\ new.at = "turnstile" /\ new.token = rgToken /\ new.key = rgSolve
  OBVIOUS
<1>7. PICK n : n = new
  OBVIOUS
<1>8. /\ rgReqs'[rgSends + 1] = n /\ n.paid = {} /\ n.at = "turnstile"
      /\ n.token = rgToken /\ n.key = rgSolve
  BY <1>4, <1>6, <1>7
<1> HIDE DEF new
<1>9. \A r \in Requests : rgReqs'[r] = n \/ rgReqs'[r] = rgReqs[r]
  BY <1>4, <1>8
<1>10. Known'
  BY <1>1, <1>8, <1>9 DEF Known, sliderVars, formVars, gateVars
<1>11. Spent' /\ Apart'
  BY <1>1, <1>8, <1>9 DEF Spent, Apart, gateVars
<1>12. Ordered' /\ Unopened'
  BY <1>0, <1>1, <1>8, <1>9 DEF Ordered, Unopened
<1>13. QED
  BY <1>5, <1>10, <1>11, <1>12

(* A request that is let through, refused, or told of, pays at most once more *)
(* and keeps what it paid with from the others.                               *)
LEMMA RequestStep ==
    ASSUME RegisterAssumption, IInv, NEW r \in Requests, NEW stage \in Stages, NEW check \in Checks,
           To(r, stage) \/ Pays(r, check, stage),
           rgReqs[r].at # "unsent", stage # "unsent",
           UNCHANGED <<rgChecks, rgOpen, rgIssued, rgShown, rgSends>>,
           rgSolve' \in {rgSolve, 0}, rgRight' \in BOOLEAN, rgToken' \in {rgToken, 0},
           rgTyped' \in 0..MadeUp, rgWaits' \in {rgWaits, 0},
           rgTokens' \subseteq rgTokens, rgKeys' \subseteq rgKeys,
           Pays(r, check, stage) /\ check = "turnstile"
               => rgReqs[r].token \in rgTokens /\ rgReqs[r].token \notin rgTokens',
           Pays(r, check, stage) /\ check = "slider"
               => rgReqs[r].key \in rgKeys /\ rgReqs[r].key \notin rgKeys',
           stage \in {"code", "consume", "slider", "address"}
               => rgChecks \cap {"turnstile"} \subseteq rgReqs'[r].paid,
           stage = "address" \/ (Pays(r, check, stage) /\ check = "address")
               => rgChecks \subseteq rgReqs'[r].paid
    PROVE  IInv'
<1> USE DEF IInv
<1>1. /\ rgReqs' \in [Requests -> Registrations]
      /\ rgReqs'[r].at = stage /\ rgReqs'[r].token = rgReqs[r].token
      /\ rgReqs'[r].key = rgReqs[r].key
      /\ \A q \in Requests : q # r => rgReqs'[q] = rgReqs[q]
  BY Moved
<1>2. \/ rgReqs'[r].paid = rgReqs[r].paid
      \/ rgReqs'[r].paid = rgReqs[r].paid \cup {check} /\ Pays(r, check, stage)
  BY Moved
<1>3. Types'
  <2>1. rgSolve' \in 0..MaxKeys /\ rgToken' \in 0..MaxTokens /\ rgWaits' \in 0..MaxRequests
    BY DEF Types, RegisterAssumption
  <2>2. QED
    BY <1>1, <2>1 DEF Types
<1>4. Known'
  <2>1. 0 <= rgIssued.tokens /\ 0 <= rgIssued.keys
    BY DEF Types
  <2>2. \A q \in Requests : rgReqs'[q].token = rgReqs[q].token /\ rgReqs'[q].key = rgReqs[q].key
    BY <1>1
  <2>3. QED
    BY <2>1, <2>2 DEF Known
<1>5. Spent'
  <2>1. ASSUME NEW q \in Requests
        PROVE  /\ "turnstile" \in rgReqs'[q].paid => rgReqs'[q].token \notin rgTokens'
               /\ "slider" \in rgReqs'[q].paid => rgReqs'[q].key \notin rgKeys'
    <3>1. CASE q = r
      BY <1>1, <1>2, <3>1 DEF Spent
    <3>2. CASE q # r
      BY <1>1, <3>2 DEF Spent
    <3>3. QED
      BY <3>1, <3>2
  <2>2. QED
    BY <2>1 DEF Spent
<1>6. Apart'
  <2>1. ASSUME NEW q \in Requests, q # r
        PROVE  /\ "turnstile" \in rgReqs'[r].paid \cap rgReqs[q].paid
                    => rgReqs[r].token # rgReqs[q].token
               /\ "slider" \in rgReqs'[r].paid \cap rgReqs[q].paid => rgReqs[r].key # rgReqs[q].key
    <3>1. /\ "turnstile" \in rgReqs[q].paid => rgReqs[q].token \notin rgTokens
          /\ "slider" \in rgReqs[q].paid => rgReqs[q].key \notin rgKeys
      BY DEF Spent
    <3>2. CASE rgReqs'[r].paid = rgReqs[r].paid
      BY <2>1, <3>2 DEF Apart
    <3>3. CASE rgReqs'[r].paid = rgReqs[r].paid \cup {check} /\ Pays(r, check, stage)
      BY <2>1, <3>1, <3>3 DEF Apart
    <3>4. QED
      BY <1>2, <3>2, <3>3
  <2>2. ASSUME NEW p \in Requests, NEW q \in Requests, p # q
        PROVE  /\ "turnstile" \in rgReqs'[p].paid \cap rgReqs'[q].paid
                    => rgReqs'[p].token # rgReqs'[q].token
               /\ "slider" \in rgReqs'[p].paid \cap rgReqs'[q].paid
                    => rgReqs'[p].key # rgReqs'[q].key
    <3>1. CASE p = r
      BY <1>1, <2>1, <2>2, <3>1
    <3>2. CASE q = r
      BY <1>1, <2>1, <2>2, <3>2
    <3>3. CASE p # r /\ q # r
      BY <1>1, <2>2, <3>3 DEF Apart
    <3>4. QED
      BY <3>1, <3>2, <3>3
  <2>3. QED
    BY <2>2 DEF Apart
<1>7. Ordered'
  <2>1. /\ rgReqs'[r].at \in {"code", "consume", "slider", "address"}
             => rgChecks \cap {"turnstile"} \subseteq rgReqs'[r].paid
        /\ rgReqs'[r].at = "address" => rgChecks \subseteq rgReqs'[r].paid
    <3>1. rgReqs'[r].at = stage
      BY <1>1
    <3>2. ASSUME rgReqs'[r].at \in {"code", "consume", "slider", "address"}
          PROVE  rgChecks \cap {"turnstile"} \subseteq rgReqs'[r].paid
      BY <3>1, <3>2
    <3>3. ASSUME rgReqs'[r].at = "address"
          PROVE  rgChecks \subseteq rgReqs'[r].paid
      BY <3>1, <3>3
    <3>4. QED
      BY <3>2, <3>3, Zenon
  <2>2. "address" \in rgReqs'[r].paid => rgChecks \subseteq rgReqs'[r].paid
    BY <1>2 DEF Ordered
  <2>3. QED
    BY <1>1, <2>1, <2>2 DEF Ordered
<1>8. Unopened'
  BY DEF Unopened
<1>9. QED
  BY <1>3, <1>4, <1>5, <1>6, <1>7, <1>8

-----------------------------------------------------------------------------
(* The gate, check by check, and the refusal the page is told of.             *)
LEMMA GateStep ==
    ASSUME RegisterAssumption, IInv, NEW r \in Requests, Gate(r) \/ ShowRefusal(r)
    PROVE  IInv'
<1> USE DEF IInv
<1>1. /\ {"code", "consume", "slider", "address", "upstream", "created", "refused", "read"}
            \subseteq Stages \ {"unsent"}
      /\ Checks = {"turnstile", "code", "slider", "address"}
  BY DEF Stages, Checks
<1>2. rgChecks \subseteq {"turnstile", "slider"} /\ rgRight \in BOOLEAN /\ rgTyped \in 0..MadeUp
  BY DEF Types
<1>3. ASSUME Gate(r)
      PROVE  UNCHANGED <<rgChecks, rgOpen, rgIssued, rgShown, rgSolve, rgRight, rgToken, rgTyped,
                         rgWaits, rgSends>>
  BY <1>3 DEF Gate, GateTurnstile, GateReadsCode, GateConsumesCode, GateSlider, GateAddress,
              Upstream, PageIdle, setVars, probeVars, sliderVars, formVars, sendVars, gateVars
<1>4. CASE GateTurnstile(r)
  <2>1. /\ rgReqs[r].at = "turnstile" /\ rgTokens' = rgTokens \ {rgReqs[r].token} /\ rgKeys' = rgKeys
        /\ \/ "turnstile" \in rgChecks /\ rgReqs[r].token \in rgTokens /\ Pays(r, "turnstile", "code")
           \/ "turnstile" \notin rgChecks /\ To(r, "code")
           \/ To(r, "refused")
    BY <1>4 DEF GateTurnstile, At
  <2>2. CASE "turnstile" \in rgChecks /\ rgReqs[r].token \in rgTokens /\ Pays(r, "turnstile", "code")
    <3>1. rgReqs'[r].paid = rgReqs[r].paid \cup {"turnstile"}
      BY <1>1, <2>2, Moved
    <3>2. rgChecks \cap {"turnstile"} \subseteq rgReqs'[r].paid
      BY <3>1
    <3>3. QED
      BY <1>1, <1>2, <1>3, <1>4, <2>1, <2>2, <3>2, RequestStep DEF Gate
  <2>3. CASE "turnstile" \notin rgChecks /\ To(r, "code")
    BY <1>1, <1>2, <1>3, <1>4, <2>1, <2>3, RequestStep DEF Gate, To, Pays
  <2>4. CASE To(r, "refused")
    BY <1>1, <1>2, <1>3, <1>4, <2>1, <2>4, RequestStep DEF Gate
  <2>5. QED
    BY <2>1, <2>2, <2>3, <2>4
<1>5. CASE GateReadsCode(r) \/ GateConsumesCode(r)
  <2>1. rgReqs[r].at \in {"code", "consume"} /\ UNCHANGED <<rgKeys, rgTokens>>
    BY <1>5 DEF GateReadsCode, GateConsumesCode, At
  <2>2. rgChecks \cap {"turnstile"} \subseteq rgReqs[r].paid
    BY <2>1 DEF Ordered
  <2>3. \/ To(r, "slider") \/ To(r, "consume") \/ To(r, "refused") \/ Pays(r, "code", "slider")
    BY <1>5 DEF GateReadsCode, GateConsumesCode
  <2>4. ASSUME NEW stage \in {"slider", "consume", "refused"},
               To(r, stage) \/ Pays(r, "code", stage)
        PROVE  IInv'
    <3>1. rgChecks \cap {"turnstile"} \subseteq rgReqs'[r].paid
      BY <1>1, <2>2, <2>4, Moved
    <3>2. stage \in Stages /\ stage # "unsent" /\ stage # "address"
      BY <1>1
    <3>3. QED
      BY <1>1, <1>2, <1>3, <1>5, <2>1, <2>4, <3>1, <3>2, RequestStep DEF Gate
  <2>5. QED
    BY <2>3, <2>4
<1>6. CASE GateSlider(r)
  <2>1. /\ rgReqs[r].at = "slider" /\ rgKeys' = rgKeys \ {rgReqs[r].key} /\ rgTokens' = rgTokens
        /\ \/ "slider" \notin rgChecks /\ To(r, "address")
           \/ rgReqs[r].key \in rgKeys /\ Pays(r, "slider", "address")
           \/ To(r, "refused")
    BY <1>6 DEF GateSlider, At
  <2>2. rgChecks \cap {"turnstile"} \subseteq rgReqs[r].paid
    BY <2>1 DEF Ordered
  <2>3. CASE "slider" \notin rgChecks /\ To(r, "address")
    <3>1. rgChecks \subseteq rgReqs'[r].paid
      BY <1>1, <1>2, <2>2, <2>3, Moved
    <3>2. QED
      BY <1>1, <1>2, <1>3, <1>6, <2>1, <2>3, <3>1, RequestStep DEF Gate, To, Pays
  <2>4. CASE rgReqs[r].key \in rgKeys /\ Pays(r, "slider", "address")
    <3>1. rgReqs'[r].paid = rgReqs[r].paid \cup {"slider"}
      BY <1>1, <2>4, Moved
    <3>2. rgChecks \subseteq rgReqs'[r].paid
      BY <1>2, <2>2, <3>1
    <3>3. QED
      BY <1>1, <1>2, <1>3, <1>6, <2>1, <2>4, <3>2, RequestStep DEF Gate
  <2>5. CASE To(r, "refused")
    BY <1>1, <1>2, <1>3, <1>6, <2>1, <2>5, RequestStep DEF Gate
  <2>6. QED
    BY <2>1, <2>3, <2>4, <2>5
<1>7. CASE GateAddress(r)
  <2>1. rgReqs[r].at = "address" /\ UNCHANGED <<rgKeys, rgTokens>>
    BY <1>7 DEF GateAddress, At, gateVars
  <2>2. PICK stage \in {"upstream", "refused"} : Pays(r, "address", stage)
    BY <1>7 DEF GateAddress
  <2>3. rgChecks \subseteq rgReqs'[r].paid
    BY <1>1, <2>1, <2>2, Moved DEF Ordered
  <2>4. QED
    BY <1>1, <1>2, <1>3, <1>7, <2>1, <2>2, <2>3, RequestStep DEF Gate
<1>8. CASE Upstream(r)
  <2>1. rgReqs[r].at = "upstream" /\ UNCHANGED <<rgKeys, rgTokens>>
    BY <1>8 DEF Upstream, At, gateVars
  <2>2. To(r, "created") \/ To(r, "refused")
    BY <1>8 DEF Upstream
  <2>3. QED
    BY <1>1, <1>2, <1>3, <1>8, <2>1, <2>2, RequestStep DEF Gate
<1>9. CASE ShowRefusal(r)
  <2>1. /\ rgReqs[r].at = "refused" /\ To(r, "read")
        /\ UNCHANGED <<rgChecks, rgOpen, rgIssued, rgShown, rgSends, rgKeys, rgTokens>>
        /\ rgSolve' \in {rgSolve, 0} /\ rgToken' \in {rgToken, 0} /\ rgWaits' \in {rgWaits, 0}
    BY <1>9 DEF ShowRefusal, At, Refresh, Unlock, Nothing, setVars, probeVars, gateVars
  <2>2. rgRight' \in BOOLEAN
    BY <1>2, <1>9 DEF ShowRefusal, Refresh
  <2>3. rgTyped' \in 0..MadeUp
    BY <1>2, <1>9 DEF ShowRefusal, Nothing, MadeUp, RegisterAssumption
  <2>4. QED
    BY <1>1, <1>2, <2>1, <2>2, <2>3, RequestStep
<1>10. QED
  BY <1>4, <1>5, <1>6, <1>7, <1>8, <1>9 DEF Gate

(* Every step preserves the invariant.                                        *)
LEMMA NextInv == ASSUME RegisterAssumption, IInv, [Next]_registerVars PROVE IInv'
<1>1. CASE Next
  <2>1. CASE Submit
    BY <2>1, SubmitStep
  <2>2. CASE \E r \in Requests : Gate(r) \/ ShowRefusal(r)
    BY <2>2, GateStep
  <2>3. CASE ~Submit /\ ~\E r \in Requests : Gate(r) \/ ShowRefusal(r)
    BY <1>1, <2>3, PageStep DEF Next
  <2>4. QED
    BY <2>1, <2>2, <2>3
<1>2. CASE UNCHANGED registerVars
  BY <1>2 DEF registerVars, IInv, Types, Known, Spent, Apart, Ordered, Unopened
<1>3. QED
  BY <1>1, <1>2

-----------------------------------------------------------------------------
(* The invariant holds throughout.                                            *)
LEMMA Invariance == ASSUME RegisterAssumption PROVE Spec => []IInv
<1>1. IInv /\ [Next]_registerVars => IInv'
  BY NextInv
<1>2. QED
  BY <1>1, InitInv, PTL DEF Spec

\* Whoever is charged to an address has paid with a challenge and a token that nobody
\* else has paid with, whatever the page sends again and whichever answers are lost.
THEOREM AttemptsArePaid == ASSUME RegisterAssumption PROVE Spec => []EveryAttemptPays
<1>1. IInv => EveryAttemptPays
  <2>1. SUFFICES ASSUME IInv PROVE EveryAttemptPays
    OBVIOUS
  <2>2. \A r \in Paid("address") : r \in Requests /\ rgChecks \subseteq rgReqs[r].paid
    BY <2>1 DEF IInv, Ordered, Paid
  <2>3. QED
    BY <2>1, <2>2 DEF IInv, Apart, EveryAttemptPays, Paid
<1>2. QED
  BY <1>1, Invariance, PTL

-----------------------------------------------------------------------------
\* The rest of the types. A challenge is asked for when the page opens, by the user when
\* none is under way, and once for every refusal the page is told of; so that the requests
\* for one never outnumber the registrations by more than one.
Fetches ==
    /\ rgFetching \in Nat /\ rgWaits <= rgSends /\ rgFetching <= rgSends + 1
    /\ rgWaits # Nothing => rgFetching <= rgSends

Sent == \A r \in Requests : rgReqs[r].at = "unsent" <=> r > rgSends

Rest ==
    /\ rgKeys \subseteq 0..MaxKeys /\ rgTokens \subseteq 0..MaxTokens /\ rgCode \in 0..MaxCodes
    /\ rgCodeOn \in BOOLEAN /\ rgOpen \in BOOLEAN /\ rgProbed \in BOOLEAN
    /\ rgWantsCode \in BOOLEAN

(* A step of the gate or a refusal moves only what has been sent.             *)
LEMMA SentStep ==
    ASSUME RegisterAssumption, IInv, Sent, [Next]_registerVars
    PROVE  Sent'
<1> USE DEF IInv
<1>1. CASE Submit
  <2>1. /\ rgSends' = rgSends + 1 /\ rgSends \in 0..MaxRequests /\ rgSends < MaxRequests
        /\ MaxRequests \in Nat
    BY <1>1 DEF Submit, MaySubmit, MoreToSend, Types, RegisterAssumption
  <2>2. rgReqs' = [rgReqs EXCEPT ![rgSends + 1] =
                      [token |-> rgToken, key |-> rgSolve, right |-> rgRight, code |-> rgTyped,
                       at |-> "turnstile", paid |-> {}]]
    BY <1>1 DEF Submit
  <2>3. /\ rgReqs'[rgSends + 1].at = "turnstile"
        /\ \A r \in Requests : r # rgSends + 1 => rgReqs'[r] = rgReqs[r]
    BY <2>1, <2>2 DEF Types, Requests
  <2>4. QED
    BY <2>1, <2>3 DEF Sent, Requests
<1>2. CASE \E r \in Requests : Gate(r) \/ ShowRefusal(r)
  <2>1. PICK r \in Requests : Gate(r) \/ ShowRefusal(r)
    BY <1>2
  <2>2. PICK stage \in Stages \ {"unsent"}, check \in Checks :
           To(r, stage) \/ Pays(r, check, stage)
    BY <2>1 DEF Gate, GateTurnstile, GateReadsCode, GateConsumesCode, GateSlider, GateAddress,
                Upstream, ShowRefusal, Stages, Checks
  <2>3. rgReqs[r].at # "unsent" /\ rgSends' = rgSends
    BY <2>1 DEF Gate, GateTurnstile, GateReadsCode, GateConsumesCode, GateSlider, GateAddress,
                Upstream, ShowRefusal, At, PageIdle, sendVars, Unlock
  <2>4. rgReqs'[r].at = stage /\ \A q \in Requests : q # r => rgReqs'[q] = rgReqs[q]
    BY <2>2, Moved
  <2>5. QED
    BY <2>2, <2>3, <2>4 DEF Sent
<1>3. CASE UNCHANGED <<rgReqs, rgSends>>
  BY <1>3 DEF Sent
<1>4. QED
  BY <1>1, <1>2, <1>3 DEF Next, OpenPage, ProbeOptions, ChallengeArrives, RefreshChallenge, DropTile,
     TurnstileSolved, SendCode, TypeCode, ShowSuccess, LoseAnswer, sendVars, registerVars, Unlock

(* The requests for a challenge stay below their bound.                       *)
LEMMA FetchesStep ==
    ASSUME RegisterAssumption, IInv, Fetches, [Next]_registerVars
    PROVE  Fetches'
<1> USE DEF IInv, Nothing
<1>0. /\ rgWaits \in Nat /\ rgSends \in Nat /\ rgFetching \in Nat
      /\ rgWaits <= rgSends /\ rgFetching <= rgSends + 1
      /\ rgWaits # 0 => rgFetching <= rgSends
  BY DEF Types, Fetches, RegisterAssumption
<1>1. CASE \/ \E checks \in SUBSET {"turnstile", "slider"}, on \in BOOLEAN : OpenPage(checks, on)
           \/ RefreshChallenge
  <2>1. rgFetching' = 1 /\ rgWaits' = rgWaits /\ rgSends' = rgSends
    BY <1>1 DEF OpenPage, RefreshChallenge, Refresh, sendVars
  <2>2. QED
    BY <1>0, <2>1 DEF Fetches
<1>2. CASE ChallengeArrives
  <2>1. rgFetching > 0 /\ rgFetching' = rgFetching - 1 /\ rgWaits' = rgWaits /\ rgSends' = rgSends
    BY <1>2 DEF ChallengeArrives, sendVars
  <2>2. QED
    BY <1>0, <2>1 DEF Fetches
<1>3. CASE Submit
  <2>1. rgFetching' = rgFetching /\ rgWaits' = rgSends + 1 /\ rgSends' = rgSends + 1
    BY <1>3 DEF Submit, sliderVars
  <2>2. QED
    BY <1>0, <2>1 DEF Fetches
<1>4. CASE \E r \in Requests : ShowRefusal(r)
  <2>1. /\ rgFetching' \in {rgFetching, rgFetching + 1} /\ rgWaits' = 0 /\ rgSends' = rgSends
        /\ rgWaits # 0
    BY <1>4 DEF ShowRefusal, Refresh, Unlock, Requests
  <2>2. QED
    BY <1>0, <2>1 DEF Fetches
<1>5. CASE rgFetching' = rgFetching /\ rgWaits' \in {rgWaits, 0} /\ rgSends' = rgSends
  BY <1>0, <1>5 DEF Fetches
<1>6. QED
  BY <1>1, <1>2, <1>3, <1>4, <1>5 DEF Next, ProbeOptions, DropTile, TurnstileSolved, SendCode,
     TypeCode, Gate, GateTurnstile, GateReadsCode, GateConsumesCode, GateSlider, GateAddress,
     Upstream, PageIdle, ShowSuccess, LoseAnswer, Unlock, sliderVars, sendVars, registerVars

(* What the gate keeps, and the switches, stay what they are said to be.      *)
LEMMA RestStep ==
    ASSUME RegisterAssumption, IInv, Rest, [Next]_registerVars
    PROVE  Rest'
<1>0. /\ MaxKeys \in Nat /\ MaxCodes \in Nat /\ MaxTokens \in Nat
      /\ rgIssued.keys \in 0..MaxKeys /\ rgIssued.codes \in 0..MaxCodes
      /\ rgIssued.tokens \in 0..MaxTokens
  BY DEF RegisterAssumption, IInv, Types
<1>1. rgKeys' \subseteq 0..MaxKeys
  <2>1. \/ rgKeys' \subseteq rgKeys
        \/ rgIssued.keys < MaxKeys /\ rgKeys' = rgKeys \cup {rgIssued.keys + 1}
    BY DEF Next, OpenPage, ProbeOptions, ChallengeArrives, RefreshChallenge, DropTile,
           TurnstileSolved, SendCode, TypeCode, Submit, Gate, GateTurnstile, GateReadsCode,
           GateConsumesCode, GateSlider, GateAddress, Upstream, ShowSuccess, ShowRefusal,
           LoseAnswer, gateVars, registerVars
  <2>2. rgIssued.keys < MaxKeys => rgIssued.keys + 1 \in 0..MaxKeys
    BY <1>0
  <2>3. rgKeys \subseteq 0..MaxKeys
    BY DEF Rest
  <2>4. QED
    BY ZenonT(30), <2>1, <2>2, <2>3
<1>2. rgTokens' \subseteq 0..MaxTokens
  <2>1. \/ rgTokens' \subseteq rgTokens
        \/ rgIssued.tokens < MaxTokens /\ rgTokens' = rgTokens \cup {rgIssued.tokens + 1}
    BY DEF Next, OpenPage, ProbeOptions, ChallengeArrives, RefreshChallenge, DropTile,
           TurnstileSolved, SendCode, TypeCode, Submit, Gate, GateTurnstile, GateReadsCode,
           GateConsumesCode, GateSlider, GateAddress, Upstream, ShowSuccess, ShowRefusal,
           LoseAnswer, gateVars, registerVars
  <2>2. rgIssued.tokens < MaxTokens => rgIssued.tokens + 1 \in 0..MaxTokens
    BY <1>0
  <2>3. rgTokens \subseteq 0..MaxTokens
    BY DEF Rest
  <2>4. QED
    BY ZenonT(30), <2>1, <2>2, <2>3
<1>3. rgCode' \in 0..MaxCodes
  <2>1. \/ rgCode' \in {rgCode, Nothing}
        \/ rgIssued.codes < MaxCodes /\ rgCode' = rgIssued.codes + 1
    BY DEF Next, OpenPage, ProbeOptions, ChallengeArrives, RefreshChallenge, DropTile,
           TurnstileSolved, SendCode, TypeCode, Submit, Gate, GateTurnstile, GateReadsCode,
           GateConsumesCode, GateSlider, GateAddress, Upstream, ShowSuccess, ShowRefusal,
           LoseAnswer, gateVars, registerVars
  <2>2. rgIssued.codes < MaxCodes => rgIssued.codes + 1 \in 0..MaxCodes
    BY <1>0
  <2>3. rgCode \in 0..MaxCodes /\ Nothing \in 0..MaxCodes
    BY <1>0 DEF Rest, Nothing
  <2>4. QED
    BY <2>1, <2>2, <2>3
<1>4. /\ rgCodeOn' \in BOOLEAN /\ rgOpen' \in BOOLEAN /\ rgProbed' \in BOOLEAN
      /\ rgWantsCode' \in BOOLEAN
  <2>1. CASE \E checks \in SUBSET {"turnstile", "slider"}, on \in BOOLEAN : OpenPage(checks, on)
    BY <2>1 DEF Rest, OpenPage
  <2>2. CASE ProbeOptions
    BY <2>2 DEF Rest, ProbeOptions, setVars
  <2>3. CASE UNCHANGED <<setVars, probeVars>>
    BY <2>3 DEF Rest, setVars, probeVars
  <2>4. ASSUME NEW r \in Requests, Gate(r) \/ ShowSuccess(r) \/ ShowRefusal(r) \/ LoseAnswer(r)
        PROVE  UNCHANGED <<setVars, probeVars>>
    BY <2>4 DEF Gate, GateTurnstile, GateReadsCode, GateConsumesCode, GateSlider, GateAddress,
                Upstream, PageIdle, ShowSuccess, ShowRefusal, LoseAnswer
  <2>5. ASSUME \/ ChallengeArrives \/ RefreshChallenge \/ DropTile \/ TurnstileSolved \/ SendCode
               \/ Submit \/ UNCHANGED registerVars
               \/ \E c \in 1..MadeUp : TypeCode(c)
        PROVE  UNCHANGED <<setVars, probeVars>>
    BY <2>5 DEF ChallengeArrives, RefreshChallenge, DropTile, TurnstileSolved, SendCode, TypeCode,
                Submit, setVars, probeVars, registerVars
  <2>6. QED
    BY <2>1, <2>2, <2>3, <2>4, <2>5 DEF Next
<1>5. QED
  BY <1>1, <1>2, <1>3, <1>4 DEF Rest

\* Every variable stays in its domain: the challenges that are asked for at once, too.
THEOREM RegisterTypes == ASSUME RegisterAssumption PROVE Spec => []TypeOK
<1>1. Init => Sent /\ Fetches /\ Rest
  <2> SUFFICES ASSUME Init PROVE Sent /\ Fetches /\ Rest
    OBVIOUS
  <2>1. Sent
    BY DEF Init, Sent, Unsent, Requests
  <2>2. Fetches
    BY DEF Init, Fetches, Nothing, RegisterAssumption
  <2>3. 0 \in 0..MaxCodes
    BY DEF RegisterAssumption
  <2>4. Rest
    BY <2>3 DEF Init, Rest, Nothing
  <2>5. QED
    BY <2>1, <2>2, <2>4
<1>2. IInv /\ Sent /\ Fetches /\ Rest /\ [Next]_registerVars => Sent' /\ Fetches' /\ Rest'
  BY SentStep, FetchesStep, RestStep
<1>3. IInv /\ Sent /\ Fetches /\ Rest => TypeOK
  <2> SUFFICES ASSUME IInv, Sent, Fetches, Rest PROVE TypeOK
    OBVIOUS
  <2>1. rgFetching \in 0..MaxRequests + 1
    BY DEF IInv, Types, Fetches, RegisterAssumption
  <2>2. {rgShown, rgSolve} \cup rgKeys \subseteq 0..MaxKeys
    BY DEF IInv, Types, Rest
  <2>3. {rgCodeOn, rgOpen, rgProbed, rgWantsCode, rgRight} \subseteq BOOLEAN
    BY DEF IInv, Types, Rest
  <2>4. QED
    BY <2>1, <2>2, <2>3 DEF IInv, Types, Rest, Sent, TypeOK
<1>4. QED
  BY <1>1, <1>2, <1>3, Invariance, PTL DEF Spec
=============================================================================
