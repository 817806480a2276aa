---------------------------- MODULE PortalProxy -----------------------------
(* One call of the browser through the portal's server to the backend: the    *)
(* handler finds the backend's address, checks its inputs, sends a request of *)
(* its own and turns the answer into a reply. The backend may act and its     *)
(* answer be lost or cut, and the user may press the button again.            *)
EXTENDS PortalRoutes, BackendSurface, Naturals, FiniteSets

CONSTANTS
    None,         \* nothing yet
    NoBase,       \* no address configured
    Bases,        \* the addresses a configuration file may name
    Env,          \* the address in the environment, or NoBase
    MaxTries      \* how often the user asks for one thing

Unread == "unread"

\* What the browser calls with.
Calls == [handler : Handlers, gateway : BOOLEAN, signed : BOOLEAN, filled : BOOLEAN,
          query : SUBSET Keys]

ProxyAssumption ==
    /\ NoBase \notin Bases /\ Unread \notin Bases /\ Env \in Bases \cup {NoBase}
    /\ None \notin Calls /\ MaxTries \in Nat \ {0}

VARIABLES
    pxFile,       \* the address in the configuration file
    pxCache,      \* what the process remembers of that file
    pxCall,       \* the browser's call
    pxPhase,      \* how far the call has come
    pxSent,       \* the handler's request to the backend
    pxAnswer,     \* the backend's answer
    pxReply,      \* the handler's reply to the browser
    pxDone,       \* how often the backend has done what was asked
    pxDoubt,      \* it did, and its answer was lost, unreadable or an error
    pxTries,      \* how often the browser has called
    pxBases       \* the addresses requests were sent to

proxyVars == <<pxFile, pxCache, pxCall, pxPhase, pxSent, pxAnswer, pxReply, pxDone, pxDoubt,
               pxTries, pxBases>>

Phases == {"idle", "asked", "sent", "answered", "lost", "replied"}
Statuses == {200, 201, 400, 401, 404, 500, 502}

To(h) == <<h.verb, h.path>>
Targets == {To(h) : h \in Handlers}
Writes(h) == h.verb # "GET"

\* The verbs that carry a body, but for the endpoints that read none.
TakesBody(to) ==
    /\ to[1] \in {"POST", "PUT"}
    /\ to[2] \notin {"admin/articles/:id/publish", "admin/articles/:id/unpublish",
                     "admin/docs/categories/:id/publish", "admin/docs/categories/:id/unpublish",
                     "admin/docs/pages/:id/publish", "admin/docs/pages/:id/unpublish",
                     "admin/fulfillment/jobs/:id/replay", "api-keys/ensure-auto"}

-----------------------------------------------------------------------------
Init ==
    /\ pxFile = NoBase /\ pxCache = Unread
    /\ pxCall = None /\ pxPhase = "idle"
    /\ pxSent = None /\ pxAnswer = None /\ pxReply = None
    /\ pxDone = 0 /\ pxDoubt = FALSE /\ pxTries = 0 /\ pxBases = {}

\* The operator writes or replaces the configuration file.
Configure(base) ==
    /\ pxFile' = base
    /\ UNCHANGED <<pxCache, pxCall, pxPhase, pxSent, pxAnswer, pxReply, pxDone, pxDoubt, pxTries,
                   pxBases>>

\* A signed-in or anonymous browser calls, with all inputs or without the ones
\* the handler insists on, and with the query its page sends.
Ask(h, gateway) ==
    /\ pxPhase = "idle"
    /\ \E signed \in BOOLEAN, filled \in {TRUE, h.needs = {}}, asks \in {{}, Reads(To(h))} :
           pxCall' = [handler |-> h, gateway |-> gateway, signed |-> signed, filled |-> filled,
                      query |-> asks]
    /\ pxPhase' = "asked" /\ pxTries' = 1
    /\ UNCHANGED <<pxFile, pxCache, pxSent, pxAnswer, pxReply, pxDone, pxDoubt, pxBases>>

(* Variant for checking: the configuration file is read for every call.       *)
Remembered_Never == pxFile

\* The environment wins; the file is read once, and remembered even when it was
\* missing or broken.
Remembered == IF pxCache = Unread THEN pxFile ELSE pxCache
Address == IF Env # NoBase THEN Env ELSE Remembered
ReadConfig(h) == pxCache' = IF h.base /\ Env = NoBase THEN Remembered ELSE pxCache

Reply(status, json) ==
    /\ pxPhase' = "replied"
    /\ pxReply' = [status |-> status, json |-> json]

\* The address is not configured: 500, before anything else.
Misconfigured(h) ==
    /\ pxPhase = "asked" /\ h = pxCall.handler
    /\ h.base /\ Address = NoBase
    /\ ReadConfig(h) /\ Reply(500, TRUE)
    /\ UNCHANGED <<pxFile, pxCall, pxSent, pxAnswer, pxDone, pxDoubt, pxTries, pxBases>>

\* An input the handler checks itself is missing.
Incomplete(h) ==
    /\ pxPhase = "asked" /\ h = pxCall.handler
    /\ h.base => Address # NoBase
    /\ h.needs # {}
    /\ ~pxCall.filled \/ ("authorization" \in h.needs /\ ~pxCall.signed)
    /\ ReadConfig(h)
    /\ Reply(IF "authorization" \in h.needs /\ ~pxCall.signed THEN 401 ELSE 400, TRUE)
    /\ UNCHANGED <<pxFile, pxCall, pxSent, pxAnswer, pxDone, pxDoubt, pxTries, pxBases>>

Complete(h) ==
    /\ h.base => Address # NoBase
    /\ h.needs # {} => pxCall.filled
    /\ "authorization" \in h.needs => pxCall.signed

\* Answered here: the liveness probe, the public settings, and a ticket, for
\* which a number is made up and nothing is kept.
AnswerLocally(h) ==
    /\ pxPhase = "asked" /\ h = pxCall.handler
    /\ h.pass = "local" /\ Complete(h)
    /\ ReadConfig(h) /\ Reply(IF Writes(h) THEN 201 ELSE 200, TRUE)
    /\ UNCHANGED <<pxFile, pxCall, pxSent, pxAnswer, pxDone, pxDoubt, pxTries, pxBases>>

\* The request the handler builds: only what it names is copied.
Copied(h) ==
    [to |-> To(h), auth |-> h.auth /\ pxCall.signed, body |-> h.body,
     query |-> pxCall.query \cap h.query, client |-> h.client]

Forward(h) ==
    /\ pxPhase = "asked" /\ h = pxCall.handler
    /\ h.pass # "local" /\ Complete(h)
    /\ ReadConfig(h)
    /\ pxSent' = Copied(h) /\ pxPhase' = "sent"
    /\ pxBases' = IF h.base THEN pxBases \cup {Address} ELSE pxBases
    /\ UNCHANGED <<pxFile, pxCall, pxAnswer, pxReply, pxDone, pxDoubt, pxTries>>

-----------------------------------------------------------------------------
Answer(status, readable) ==
    /\ pxPhase' = "answered"
    /\ pxAnswer' = [status |-> status, readable |-> readable]
    /\ UNCHANGED <<pxFile, pxCache, pxCall, pxSent, pxReply, pxTries, pxBases>>

Served == pxSent.to \in Registered(pxCall.gateway)

\* No such endpoint: the mux answers 404 in plain text.
Unknown ==
    /\ pxPhase = "sent" /\ ~Served
    /\ Answer(404, FALSE) /\ UNCHANGED <<pxDone, pxDoubt>>

\* No token, where the endpoint demands one.
Unauthorized ==
    /\ pxPhase = "sent" /\ Served
    /\ pxSent.to \in Guarded /\ ~pxSent.auth
    /\ Answer(401, TRUE) /\ UNCHANGED <<pxDone, pxDoubt>>

Admitted == Served /\ (pxSent.to \in Guarded => pxSent.auth)

Perform ==
    /\ pxPhase = "sent" /\ Admitted
    /\ pxDone' = pxDone + 1
    /\ \E status \in {200, 201}, readable \in BOOLEAN :
          Answer(status, readable) /\ pxDoubt' = (pxDoubt \/ ~readable)

\* The deed took effect and then something failed: a later statement, the read-back, or the
\* wait for the upstream gateway.
PerformThenFail ==
    /\ pxPhase = "sent" /\ Admitted
    /\ pxDone' = pxDone + 1 /\ pxDoubt' = TRUE
    /\ \E readable \in BOOLEAN : Answer(500, readable)

\* Nothing is done. A token that is not accepted, or no longer, a wrong password or code: 401,
\* to a signed-in browser, too. 400 stands for every other refusal, 500 for every failure.
Refuse ==
    /\ pxPhase = "sent" /\ Admitted
    /\ \E status \in {400, 401, 500}, readable \in BOOLEAN : Answer(status, readable)
    /\ UNCHANGED <<pxDone, pxDoubt>>

\* The connection breaks before or after the backend has acted.
Lose ==
    /\ pxPhase = "sent" /\ pxPhase' = "lost"
    /\ \/ UNCHANGED <<pxDone, pxDoubt>>
       \/ Admitted /\ pxDone' = pxDone + 1 /\ pxDoubt' = TRUE
    /\ UNCHANGED <<pxFile, pxCache, pxCall, pxSent, pxAnswer, pxReply, pxTries, pxBases>>

(* Variants for checking: the reply is always 200; only 200 counts as good.   *)
ReplyTo_DropsStatus(h, answer) == [status |-> 200, json |-> TRUE]
ReplyTo_OnlyOk(h, answer) ==
    IF answer.status = 200 THEN [status |-> 200, json |-> answer.readable]
                           ELSE [status |-> 502, json |-> TRUE]

\* A buffered answer that does not parse becomes a 502; anything else keeps the
\* backend's status.
ReplyTo(h, answer) ==
    IF h.pass = "buffered" /\ ~answer.readable
      THEN [status |-> 502, json |-> TRUE]
      ELSE [status |-> answer.status, json |-> answer.readable]

HandBack(h) ==
    /\ pxPhase = "answered" /\ h = pxCall.handler
    /\ pxReply' = ReplyTo(h, pxAnswer) /\ pxPhase' = "replied"
    /\ UNCHANGED <<pxFile, pxCache, pxCall, pxSent, pxAnswer, pxDone, pxDoubt, pxTries, pxBases>>

\* A failing fetch is caught by three handlers; elsewhere the framework answers.
GiveUp(h) ==
    /\ pxPhase = "lost" /\ h = pxCall.handler
    /\ IF h.caught THEN Reply(502, TRUE) ELSE Reply(500, FALSE)
    /\ UNCHANGED <<pxFile, pxCache, pxCall, pxSent, pxAnswer, pxDone, pxDoubt, pxTries, pxBases>>

\* What the pages take for success: an ok status and a body that parses.
Succeeded(reply) == reply.status < 300 /\ reply.json

\* The user presses the button again after a reply that was no success.
Retry ==
    /\ pxPhase = "replied" /\ ~Succeeded(pxReply) /\ pxTries < MaxTries
    /\ pxPhase' = "asked" /\ pxTries' = pxTries + 1
    /\ pxSent' = None /\ pxAnswer' = None /\ pxReply' = None
    /\ UNCHANGED <<pxFile, pxCache, pxCall, pxDone, pxDoubt, pxBases>>

Step(h) ==
    \/ Misconfigured(h) \/ Incomplete(h) \/ AnswerLocally(h) \/ Forward(h)
    \/ HandBack(h) \/ GiveUp(h)

Next ==
    \/ pxPhase \in {"idle", "replied"} /\ \E base \in Bases \cup {NoBase} : Configure(base)
    \/ pxPhase = "idle" /\ \E h \in Handlers, gateway \in BOOLEAN : Ask(h, gateway)
    \/ pxCall # None /\ Step(pxCall.handler)
    \/ Unknown \/ Unauthorized \/ Perform \/ PerformThenFail \/ Refuse \/ Lose
    \/ Retry

Spec == Init /\ [][Next]_proxyVars

-----------------------------------------------------------------------------
TypeOK ==
    /\ pxFile \in Bases \cup {NoBase}
    /\ pxCache \in Bases \cup {NoBase, Unread}
    /\ pxPhase \in Phases
    /\ pxPhase = "idle" <=> pxCall = None
    /\ pxPhase \in {"sent", "answered"} => pxSent.to \in Targets
    /\ pxPhase = "replied" => pxReply.status \in Statuses /\ pxReply.json \in BOOLEAN
    /\ pxDone \in 0..MaxTries /\ pxTries \in 0..MaxTries
    /\ pxBases \subseteq Bases

\* A page that is told a write succeeded is told so because the backend did it:
\* no refusal, lost answer or missing route reaches the page as a success. The
\* support ticket is the one write that is answered without a backend.
SuccessIsBackends ==
    pxPhase = "replied" /\ Succeeded(pxReply) /\ Writes(pxCall.handler) /\ pxCall.handler \notin Tickets
        => pxDone > 0

\* What the backend is asked, it is asked as the browser did: the body and every query
\* parameter the endpoint reads came through the handler.
AsAsked ==
    pxPhase = "answered" =>
        /\ TakesBody(pxSent.to) => pxSent.body
        /\ pxCall.query \subseteq pxSent.query

\* A signed-in browser is told that it is not by the backend only, which has seen its
\* token where it demands one: no handler loses the token on the way, and none makes up a
\* 401 of its own.
SignedStaysSigned ==
    pxPhase = "replied" /\ pxReply.status = 401 /\ pxCall.signed =>
        /\ pxAnswer \in [status : {401}, readable : BOOLEAN]
        /\ pxSent.to \in Guarded => pxSent.auth

\* No handler leads nowhere: with the upstream gateway configured, every request it
\* sends names an endpoint the backend registers, with that verb.
NoDeadRoute == pxPhase = "sent" /\ pxCall.gateway => Served

\* Pressing the button again does the thing twice only when the backend did it and its
\* answer was lost, cut or an error. The handlers add nothing to that: a success the backend
\* has told clearly never invites a second try.
NoSilentDouble == pxDone > 1 => pxDoubt

\* All requests of one process go to one backend, even when the configuration file is
\* replaced meanwhile.
OneBackend == Cardinality(pxBases) <= 1
=============================================================================
