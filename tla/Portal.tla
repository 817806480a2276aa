------------------------------- MODULE Portal -------------------------------
(* The portal as the browser has it: one page of it is open. The pages share  *)
(* the server's route handlers (PortalProxy, taken here as a page like the    *)
(* others: one button and what becomes of the call) and no state of their own. *)
EXTENDS Naturals

CONSTANTS
    None, NoBase, Bases, Env, MaxTries,               \* PortalProxy
    Rows,                                             \* AdminEditors
    MaxKeys, MaxCodes, MaxTokens, MaxRequests,        \* RegisterFlow
    MaxRetries, MaxErrors,                            \* CheckoutStatus
    AutoKey, Others,                                  \* KeysPage
    Ranges,                                           \* Dashboard
    Users, Clerks, MaxOpen, MaxForms,                 \* UserDesk
    EditorCalls, KeyCalls, HomeCalls,                 \* requests of a page at once
    Pages                                             \* the pages this instance opens

VARIABLES
    page,
    pxFile, pxCache, pxCall, pxPhase, pxSent, pxAnswer, pxReply, pxDone, pxDoubt, pxTries, pxBases,
    edPage, edRows, edList, edForm, edDialog, edSubmitting, edLoading, edBusy, edBlocked, edCalls,
    rgChecks, rgCodeOn, rgOpen, rgProbed, rgWantsCode, rgFetching, rgShown, rgSolve, rgRight,
    rgToken, rgTyped, rgWaits, rgSends, rgReqs, rgKeys, rgCode, rgTokens, rgIssued,
    ckJob, ckRetries, ckDue, ckOther, ckHeld, ckRunning, ckEvent, ckLinked, ckErrors, ckUrl,
    ckPoll, ckCall, ckSeen, ckShown, ckError, ckLoading, ckTimer,
    kpPage, kpKeys, kpList, kpLoading, kpError, kpBusy, kpModal, kpFilled, kpCreate, kpCreated,
    kpSuccess, kpCalls,
    dbPage, dbRange, dbLoading, dbData, dbModal, dbTyped, dbLock, dbMessage, dbCalls,
    dkRoles, dkBound, dkOnce, dkPage, dkBlocked, dkCalls, dkSent

proxyVars    == <<pxFile, pxCache, pxCall, pxPhase, pxSent, pxAnswer, pxReply, pxDone, pxDoubt,
                  pxTries, pxBases>>
editorVars   == <<edPage, edRows, edList, edForm, edDialog, edSubmitting, edLoading, edBusy,
                  edBlocked, edCalls>>
registerVars == <<rgChecks, rgCodeOn, rgOpen, rgProbed, rgWantsCode, rgFetching, rgShown, rgSolve,
                  rgRight, rgToken, rgTyped, rgWaits, rgSends, rgReqs, rgKeys, rgCode, rgTokens,
                  rgIssued>>
checkoutVars == <<ckJob, ckRetries, ckDue, ckOther, ckHeld, ckRunning, ckEvent, ckLinked, ckErrors,
                  ckUrl, ckPoll, ckCall, ckSeen, ckShown, ckError, ckLoading, ckTimer>>
keysVars     == <<kpPage, kpKeys, kpList, kpLoading, kpError, kpBusy, kpModal, kpFilled, kpCreate,
                  kpCreated, kpSuccess, kpCalls>>
homeVars     == <<dbPage, dbRange, dbLoading, dbData, dbModal, dbTyped, dbLock, dbMessage, dbCalls>>
deskVars     == <<dkRoles, dkBound, dkOnce, dkPage, dkBlocked, dkCalls, dkSent>>
portalVars   == <<page, proxyVars, editorVars, registerVars, checkoutVars, keysVars, homeVars,
                  deskVars>>

Proxy    == INSTANCE PortalProxy
Editors  == INSTANCE AdminEditors WITH Slots <- EditorCalls
Register == INSTANCE RegisterFlow
Checkout == INSTANCE CheckoutStatus
Keys     == INSTANCE KeysPage WITH Slots <- KeyCalls
Home     == INSTANCE Dashboard WITH Slots <- HomeCalls
Desk     == INSTANCE UserDesk

ASSUME PortalAssumption ==
    /\ Proxy!ProxyAssumption /\ Editors!EditorAssumption /\ Register!RegisterAssumption
    /\ Checkout!CheckoutAssumption /\ Keys!KeysAssumption /\ Home!DashboardAssumption
    /\ Desk!DeskAssumption

Init ==
    /\ page \in Pages
    /\ Proxy!Init /\ Editors!Init /\ Register!Init /\ Checkout!Init /\ Keys!Init /\ Home!Init
    /\ IF page = "desk" THEN Desk!Init ELSE Desk!Init /\ dkRoles = [u \in Users |-> "admin"]

\* The page that is open moves, and nothing else does.
Next ==
    /\ IF page = "proxy" THEN Proxy!Next ELSE UNCHANGED proxyVars
    /\ IF page = "editors" THEN Editors!Next ELSE UNCHANGED editorVars
    /\ IF page = "register" THEN Register!Next ELSE UNCHANGED registerVars
    /\ IF page = "checkout" THEN Checkout!Next ELSE UNCHANGED checkoutVars
    /\ IF page = "keys" THEN Keys!Next ELSE UNCHANGED keysVars
    /\ IF page = "home" THEN Home!Next ELSE UNCHANGED homeVars
    /\ IF page = "desk" THEN Desk!Next ELSE UNCHANGED deskVars
    /\ page' = page

Spec == Init /\ [][Next]_portalVars

-----------------------------------------------------------------------------
(* The pages' properties. A page that is not open is at its start.            *)

\* The state of every page stays in its domain, whichever of them is open.
TypeOK ==
    /\ page \in Pages
    /\ Proxy!TypeOK /\ Editors!TypeOK /\ Register!TypeOK /\ Checkout!TypeOK /\ Keys!TypeOK
    /\ Home!TypeOK /\ Desk!TypeOK

\* The route handlers. What a page is told is what happened: a success is the backend's,
\* and a signed-in browser is told that it is not signed in by the backend only, which has
\* had its token.
ToldWhatHappened == Proxy!SuccessIsBackends /\ Proxy!SignedStaysSigned

\* The backend, one for a process, does what the page asked, and does it twice only after a
\* doubtful answer.
DoneAsAsked == Proxy!AsAsked /\ Proxy!NoSilentDouble /\ Proxy!OneBackend

\* Every handler leads to an endpoint that the backend has.
NoDeadRoute == Proxy!NoDeadRoute

\* The editors: one save of a locked form at a time, and the end of a save takes away no
\* typed draft but its own.
SavesInOrder == [][Editors!OneSaveAtATime' /\ Editors!KeepsDraft]_editorVars

\* Registration: every attempt charged to an address has paid with artifacts of its own.
EveryAttemptPays == Register!EveryAttemptPays

\* Registration, as a comment of the gate has it: no failing step wastes a code.
CodeNotWasted == Register!CodeNotWasted

\* The checkout page tells only of outcomes the job has come to and stays with, and, opened
\* at the address of a payment, promises to refresh only while it does.
CheckoutIsHonest == Checkout!TellsTheTruth /\ Checkout!PromiseIsKept

\* A payment that Stripe reports is recorded, whatever errors the store makes.
PaymentIsRecorded == Checkout!PaymentIsRecorded

\* The checkout page does not poll for ever, unless the job is left unsettled for good.
PollingComesToAnEnd == Checkout!PollingComesToAnEnd

\* No key is lost to its user: the secret of a new one, shown once, is seen unless the session
\* is refused, and no row stays locked without a request.
NoKeyLost == [][Keys!SecretIsSeen /\ Keys!LockHasRequest']_keysVars

\* The dashboard: its data are of the range it names, and a card that is locked waits for
\* an answer of its own.
HomeIsConsistent == Home!DataIsOfItsRange /\ Home!LockHasRequest

\* The dashboard: a load that has begun ends for the page too.
LoadingEnds == Home!LoadingEnds

\* The desk, as the backend and its tests promise: somebody is left to administer.
AdminRemains == Desk!AdminRemains

\* The desk: distributors give to users of their own only, and take no other's.
OwnUsersOnly == Desk!OwnUsersOnly /\ Desk!NoTakeover
=============================================================================
