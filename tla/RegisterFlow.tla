---------------------------- MODULE RegisterFlow ----------------------------
(* The registration page and the gate it has to pass. The page collects up to *)
(* three artifacts (a Turnstile token, a slider solve, a code from an e-mail)  *)
(* and sends them; the gate checks and consumes them one after the other. An   *)
(* answer can be lost while the gate is still at work on the request, and the  *)
(* page then sends the same artifacts again.                                   *)
EXTENDS Naturals, FiniteSets

CONSTANTS
    MaxKeys,      \* slider challenges issued
    MaxCodes,     \* codes mailed
    MaxTokens,    \* Turnstile tokens handed to the page
    MaxRequests   \* registrations sent

RegisterAssumption ==
    /\ MaxKeys \in Nat /\ MaxCodes \in Nat /\ MaxTokens \in Nat
    /\ MaxRequests \in Nat \ {0}

Nothing == 0                 \* no challenge, solve, code, token or request
MadeUp  == MaxCodes + 1      \* a code the user did not get from us
Requests == 1..MaxRequests
Stages == {"unsent", "turnstile", "code", "consume", "slider", "address", "upstream",
           "created", "refused", "read"}

VARIABLES
    rgChecks,     \* what the operator has switched on: of "turnstile", "slider"
    rgCodeOn,     \* the administrator's switch for e-mail codes
    rgOpen,       \* the page is open: nobody is signed in
    rgProbed,     \* the page has asked which options are on
    rgWantsCode,  \* emailCodeRequired, as the page knows it
    rgFetching,   \* requests for a challenge under way
    rgShown,      \* slideChallenge
    rgSolve,      \* sliderSolve: the challenge it was recorded for
    rgRight,      \* the tile was dropped where it belongs
    rgToken,      \* turnstileToken
    rgTyped,      \* emailCode
    rgWaits,      \* isSubmitting: the request whose answer the page waits for
    rgSends,      \* how often the page has sent a registration
    rgReqs,       \* the registrations, and how far the gate is with each
    rgKeys,       \* the challenges the gate knows
    rgCode,       \* the code stored for the address
    rgTokens,     \* the tokens Turnstile would accept
    rgIssued      \* how many challenges, codes and tokens there have been

registerVars == <<rgChecks, rgCodeOn, rgOpen, rgProbed, rgWantsCode, rgFetching, rgShown, rgSolve,
                  rgRight, rgToken, rgTyped, rgWaits, rgSends, rgReqs, rgKeys, rgCode,
                  rgTokens, rgIssued>>
setVars   == <<rgChecks, rgCodeOn>>
probeVars == <<rgOpen, rgProbed, rgWantsCode>>
sliderVars == <<rgFetching, rgShown, rgSolve, rgRight>>
formVars  == <<rgToken, rgTyped>>
sendVars  == <<rgWaits, rgSends>>
gateVars  == <<rgKeys, rgCode, rgTokens, rgIssued>>

Checks == {"turnstile", "code", "slider", "address"}
Registrations == [token : 0..MaxTokens, key : 0..MaxKeys, right : BOOLEAN, code : 0..MadeUp,
                  at : Stages, paid : SUBSET Checks]
Unsent == [token |-> Nothing, key |-> Nothing, right |-> FALSE, code |-> Nothing,
           at |-> "unsent", paid |-> {}]

Init ==
    /\ rgChecks = {} /\ rgCodeOn = FALSE
    /\ rgOpen = FALSE /\ rgProbed = FALSE /\ rgWantsCode = FALSE
    /\ rgFetching = 0 /\ rgShown = Nothing /\ rgSolve = Nothing /\ rgRight = FALSE
    /\ rgToken = Nothing /\ rgTyped = Nothing
    /\ rgWaits = Nothing /\ rgSends = 0 /\ rgReqs = [r \in Requests |-> Unsent]
    /\ rgKeys = {} /\ rgCode = Nothing /\ rgTokens = {}
    /\ rgIssued = [keys |-> 0, codes |-> 0, tokens |-> 0]

\* The page opens: it asks for a challenge and for the options.
OpenPage(checks, codeOn) ==
    /\ ~rgOpen
    /\ rgChecks' = checks /\ rgCodeOn' = codeOn
    /\ rgOpen' = TRUE /\ rgFetching' = 1
    /\ UNCHANGED <<rgProbed, rgWantsCode, rgShown, rgSolve, rgRight, formVars, sendVars, rgReqs,
                   gateVars>>

\* The options are asked for once. The switch may be thrown before or after the
\* answer, and a failing answer leaves the code field away, so the page may be wrong.
ProbeOptions ==
    /\ rgOpen /\ ~rgProbed
    /\ rgProbed' = TRUE /\ rgWantsCode' \in BOOLEAN
    /\ UNCHANGED <<setVars, rgOpen, sliderVars, formVars, sendVars, rgReqs, gateVars>>

\* fetchRegisterCaptcha: null when the slider is off, when too many were asked
\* for, and when the request fails.
ChallengeArrives ==
    /\ rgFetching > 0
    /\ rgFetching' = rgFetching - 1
    /\ \/ /\ "slider" \in rgChecks /\ rgIssued.keys < MaxKeys
          /\ rgIssued' = [rgIssued EXCEPT !.keys = @ + 1]
          /\ rgKeys' = rgKeys \cup {rgIssued.keys + 1}
          /\ rgShown' = rgIssued.keys + 1
       \/ rgShown' = Nothing /\ UNCHANGED <<rgIssued, rgKeys>>
    /\ UNCHANGED <<setVars, probeVars, rgSolve, rgRight, formVars, sendVars, rgReqs, rgCode, rgTokens>>

\* A bound: once the last registration is sent, the user leaves the form as it is.
MoreToSend == rgSends < MaxRequests

\* refreshSlideChallenge, one at a time: the recorded solve goes at once, the old picture stays
\* until the new one is there.
Refresh == rgSolve' = Nothing /\ rgRight' = FALSE /\ rgFetching' = rgFetching + 1

RefreshChallenge ==
    /\ rgShown # Nothing /\ rgFetching = 0
    /\ Refresh
    /\ UNCHANGED <<setVars, probeVars, rgShown, formVars, sendVars, rgReqs, gateVars>>

\* The tile is dropped, at the gap or beside it; a new drag takes a solve back.
DropTile ==
    /\ MoreToSend /\ rgShown # Nothing
    /\ rgSolve' = rgShown /\ rgRight' \in BOOLEAN
    /\ UNCHANGED <<setVars, probeVars, rgFetching, rgShown, formVars, sendVars, rgReqs, gateVars>>

\* The widget hands over a token. That it can expire is left out: the gate refuses it
\* all the same.
TurnstileSolved ==
    /\ rgOpen /\ "turnstile" \in rgChecks /\ rgToken = Nothing /\ rgIssued.tokens < MaxTokens
    /\ rgIssued' = [rgIssued EXCEPT !.tokens = @ + 1]
    /\ rgTokens' = rgTokens \cup {rgIssued.tokens + 1}
    /\ rgToken' = rgIssued.tokens + 1
    /\ UNCHANGED <<setVars, probeVars, sliderVars, rgTyped, sendVars, rgReqs, rgKeys, rgCode>>

\* handleSendCode: a new code replaces the one stored for the address. The countdown
\* of sixty seconds between two of them is left out.
SendCode ==
    /\ rgWantsCode /\ rgWaits = Nothing
    /\ \/ /\ rgCodeOn /\ rgIssued.codes < MaxCodes
          /\ rgIssued' = [rgIssued EXCEPT !.codes = @ + 1]
          /\ rgCode' = rgIssued.codes + 1
       \/ UNCHANGED <<rgIssued, rgCode>>
    /\ UNCHANGED <<setVars, probeVars, sliderVars, rgToken, rgTyped, sendVars, rgReqs, rgKeys, rgTokens>>

\* The user types a code from the mailbox, or any other.
TypeCode(c) ==
    /\ MoreToSend /\ rgWantsCode
    /\ c \in 1..rgIssued.codes \cup {MadeUp}
    /\ rgTyped' = c
    /\ UNCHANGED <<setVars, probeVars, sliderVars, rgToken, sendVars, rgReqs, gateVars>>

-----------------------------------------------------------------------------
\* validateRegisterSubmit: what the page insists on is what it knows to be on.
MaySubmit ==
    /\ rgOpen /\ rgWaits = Nothing /\ MoreToSend
    /\ "turnstile" \in rgChecks => rgToken # Nothing
    /\ rgShown # Nothing => rgSolve # Nothing
    /\ rgWantsCode => rgTyped # Nothing

\* handleSubmit sends what the page has recorded.
Submit ==
    /\ MaySubmit
    /\ rgSends' = rgSends + 1 /\ rgWaits' = rgSends + 1
    /\ rgReqs' = [rgReqs EXCEPT ![rgSends + 1] =
                    [token |-> rgToken, key |-> rgSolve, right |-> rgRight, code |-> rgTyped,
                     at |-> "turnstile", paid |-> {}]]
    /\ UNCHANGED <<setVars, probeVars, sliderVars, formVars, gateVars>>

To(r, stage) == rgReqs' = [rgReqs EXCEPT ![r].at = stage]
Pays(r, check, stage) == rgReqs' = [rgReqs EXCEPT ![r].at = stage, ![r].paid = @ \cup {check}]
At(r, stage) == rgReqs[r].at = stage
PageIdle == UNCHANGED <<setVars, probeVars, sliderVars, formVars, sendVars>>

\* The gate, check by check. First the budget of the client's address, the domain
\* of the e-mail, and Turnstile, which takes a token once.
GateTurnstile(r) ==
    /\ At(r, "turnstile")
    /\ LET on == "turnstile" \in rgChecks
           good == on => rgReqs[r].token \in rgTokens
       IN  /\ rgTokens' = rgTokens \ {rgReqs[r].token}
           /\ \/ good /\ (IF on THEN Pays(r, "turnstile", "code") ELSE To(r, "code"))
              \/ To(r, "refused")
    /\ PageIdle /\ UNCHANGED <<rgKeys, rgCode, rgIssued>>

\* The stored code is read; the row is deleted in a second statement. Wrong codes
\* are counted; the last of them and a late one delete the row as well.
GateReadsCode(r) ==
    /\ At(r, "code")
    /\ CASE ~rgCodeOn -> To(r, "slider") /\ rgCode' = rgCode
         [] rgCodeOn /\ rgReqs[r].code # Nothing /\ rgReqs[r].code = rgCode ->
                \/ To(r, "consume") /\ rgCode' = rgCode
                \/ To(r, "refused") /\ rgCode' = Nothing
         [] OTHER -> /\ To(r, "refused")
                     /\ rgCode' \in IF rgReqs[r].code = Nothing THEN {rgCode} ELSE {rgCode, Nothing}
    /\ PageIdle /\ UNCHANGED <<rgKeys, rgTokens, rgIssued>>

GateConsumesCode(r) ==
    /\ At(r, "consume")
    /\ rgCode' = Nothing
    /\ Pays(r, "code", "slider")
    /\ PageIdle /\ UNCHANGED <<rgKeys, rgTokens, rgIssued>>

(* Variant for checking: a challenge that was solved is kept.                 *)
GateSlider_KeepsSolved(r) ==
    /\ At(r, "slider")
    /\ LET req == rgReqs[r] IN
         /\ rgKeys' = IF req.right THEN rgKeys ELSE rgKeys \ {req.key}
         /\ IF "slider" \notin rgChecks THEN To(r, "address")
            ELSE \/ req.key \in rgKeys /\ req.right /\ Pays(r, "slider", "address")
                 \/ To(r, "refused")
    /\ PageIdle /\ UNCHANGED <<rgCode, rgTokens, rgIssued>>

\* The challenge is gone after one try, right or wrong; it may have expired.
GateSlider(r) ==
    /\ At(r, "slider")
    /\ LET req == rgReqs[r] IN
         /\ rgKeys' = rgKeys \ {req.key}
         /\ IF "slider" \notin rgChecks THEN To(r, "address")
            ELSE \/ req.key \in rgKeys /\ req.right /\ Pays(r, "slider", "address")
                 \/ To(r, "refused")
    /\ PageIdle /\ UNCHANGED <<rgCode, rgTokens, rgIssued>>

\* The budget of the e-mail address is charged, and may be exhausted.
GateAddress(r) ==
    /\ At(r, "address")
    /\ \E stage \in {"upstream", "refused"} : Pays(r, "address", stage)
    /\ PageIdle /\ UNCHANGED gateVars

\* The user service creates the account, or refuses.
Upstream(r) ==
    /\ At(r, "upstream")
    /\ \E stage \in {"created", "refused"} : To(r, stage)
    /\ PageIdle /\ UNCHANGED gateVars

Gate(r) ==
    \/ GateTurnstile(r) \/ GateReadsCode(r) \/ GateConsumesCode(r) \/ GateSlider(r)
    \/ GateAddress(r) \/ Upstream(r)

-----------------------------------------------------------------------------
Unlock == rgWaits' = Nothing /\ UNCHANGED rgSends

\* A success leaves the recorded artifacts where they are.
ShowSuccess(r) ==
    /\ rgWaits = r /\ At(r, "created")
    /\ Unlock
    /\ UNCHANGED <<setVars, probeVars, sliderVars, formVars, rgReqs, gateVars>>

\* A refusal: the widget is reset, a fresh challenge is fetched when one is shown,
\* and the code is emptied, so that a retry starts from a clean state.
ShowRefusal(r) ==
    /\ rgWaits = r /\ At(r, "refused")
    /\ rgToken' = Nothing
    /\ IF rgShown # Nothing THEN Refresh ELSE UNCHANGED <<rgSolve, rgRight, rgFetching>>
    /\ rgTyped' = IF rgWantsCode THEN Nothing ELSE rgTyped
    /\ To(r, "read") /\ Unlock
    /\ UNCHANGED <<setVars, probeVars, rgShown, gateVars>>

\* The connection breaks; nothing is reset.
LoseAnswer(r) ==
    /\ rgWaits = r /\ Unlock
    /\ UNCHANGED <<setVars, probeVars, sliderVars, formVars, rgReqs, gateVars>>

Next ==
    \/ \E checks \in SUBSET {"turnstile", "slider"}, on \in BOOLEAN : OpenPage(checks, on)
    \/ ProbeOptions \/ ChallengeArrives \/ RefreshChallenge \/ DropTile
    \/ TurnstileSolved \/ SendCode
    \/ \E c \in 1..MadeUp : TypeCode(c)
    \/ Submit
    \/ \E r \in Requests : Gate(r) \/ ShowSuccess(r) \/ ShowRefusal(r) \/ LoseAnswer(r)

Spec == Init /\ [][Next]_registerVars

-----------------------------------------------------------------------------
Paid(check) == {r \in Requests : check \in rgReqs[r].paid}

TypeOK ==
    /\ rgChecks \subseteq {"turnstile", "slider"}
    /\ {rgCodeOn, rgOpen, rgProbed, rgWantsCode, rgRight} \subseteq BOOLEAN
    /\ {rgShown, rgSolve} \cup rgKeys \subseteq 0..MaxKeys /\ rgTokens \subseteq 0..MaxTokens
    /\ rgFetching \in 0..MaxRequests + 1
    /\ rgToken \in 0..MaxTokens /\ rgTyped \in 0..MadeUp /\ rgCode \in 0..MaxCodes
    /\ rgWaits \in 0..MaxRequests /\ rgSends \in 0..MaxRequests
    /\ rgReqs \in [Requests -> Registrations]
    /\ \A r \in Requests : rgReqs[r].at = "unsent" <=> r > rgSends
    /\ rgIssued \in [keys : 0..MaxKeys, codes : 0..MaxCodes, tokens : 0..MaxTokens]

\* "The per-email budget is consumed only after the captcha passed": every attempt
\* charged to an address has paid with a challenge and a token of its own, however
\* the page retries and whichever answers are lost.
EveryAttemptPays ==
    \A r \in Paid("address") :
        /\ rgChecks \subseteq rgReqs[r].paid
        /\ \A q \in Paid("address") \ {r} :
              /\ "slider" \in rgChecks => rgReqs[q].key # rgReqs[r].key
              /\ "turnstile" \in rgChecks => rgReqs[q].token # rgReqs[r].token

\* "The e-mail code is consumed after the slider ...: no failure of an earlier step
\* wastes a code" (register_guard.go): who has used a code up and is refused was not
\* refused for want of one of the checks.
CodeNotWasted ==
    \A r \in Paid("code") : rgReqs[r].at \in {"refused", "read"} => rgChecks \subseteq rgReqs[r].paid
=============================================================================
