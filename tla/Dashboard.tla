------------------------------ MODULE Dashboard ------------------------------
(* The dashboard: its data, the chosen range, and the purchase card in a      *)
(* dialog. While data are loaded the page shows nothing else, so that a load  *)
(* takes the card, with what it says and what it waits for, off the page.     *)
EXTENDS Naturals

CONSTANTS
    None,     \* no range, no data, no request
    Ranges,   \* the ranges of the trend chart
    Slots     \* requests under way at once

VARIABLES
    dbPage,      \* "closed", "open", "login", "stripe"
    dbRange,     \* queryString, that is, the range in the address
    dbLoading,   \* loading
    dbData,      \* what is shown: the range it was asked for, and by whom
    dbModal,     \* showPurchase
    dbTyped,     \* redeemCode
    dbLock,      \* packageActionLoading, prepaidActionLoading
    dbMessage,   \* purchaseMessage
    dbCalls      \* the requests, by slot

cardVars == <<dbTyped, dbLock, dbMessage>>
dashboardVars == <<dbPage, dbRange, dbLoading, dbData, dbModal, cardVars, dbCalls>>

\* `mine`: the effect's load is not aborted, the card that sent a request is still there.
Calls == [op : {"effect", "reload", "redeem", "checkout"}, range : Ranges, mine : BOOLEAN,
          at : {"sent", "ok", "failed", "denied"}]

DashboardAssumption == None \notin Ranges /\ None \notin Calls

NoCard == [typed |-> FALSE, lock |-> {}, message |-> "none"]

Init ==
    /\ dbPage = "closed" /\ dbRange = None /\ dbLoading = TRUE /\ dbData = None
    /\ dbModal = FALSE /\ dbTyped = FALSE /\ dbLock = {} /\ dbMessage = "none"
    /\ dbCalls = [s \in Slots |-> None]

Free(calls) == {s \in Slots : calls[s] = None}
Put(calls, op, range) ==
    [calls EXCEPT ![CHOOSE s \in Free(calls) : TRUE] =
        [op |-> op, range |-> range, mine |-> TRUE, at |-> "sent"]]
Pressed(op) == Free(dbCalls) # {} /\ dbCalls' = Put(dbCalls, op, dbRange)
Disown(calls, ops) ==
    [s \in Slots |-> IF calls[s] # None /\ calls[s].op \in ops
                     THEN [calls[s] EXCEPT !.mine = FALSE] ELSE calls[s]]

Content == dbPage = "open" /\ ~dbLoading
CardShown == Content /\ dbModal

\* What the handlers set is committed together with what they make of the page, and
\* React keeps a card's state only while the card is on it; its requests go on.
Card(c) ==
    LET kept == IF CardShown' THEN c ELSE NoCard
    IN  dbTyped' = kept.typed /\ dbLock' = kept.lock /\ dbMessage' = kept.message
Orphans(calls) == Disown(calls, {"redeem", "checkout"})

\* The page mounts, signed in, with a range.
OpenPage(r) ==
    /\ dbPage = "closed"
    /\ dbPage' = "open" /\ dbRange' = r /\ dbCalls' = Put(dbCalls, "effect", r)
    /\ UNCHANGED <<dbLoading, dbData, dbModal, cardVars>>

\* Another range, from the chart or with the browser's back button, which works while
\* data are loaded too: the effect's load is aborted and a new one sent.
ChangeRange(r) ==
    /\ dbPage = "open" /\ r # dbRange
    /\ dbRange' = r
    /\ LET calls == Orphans(Disown(dbCalls, {"effect"})) IN
         Free(calls) # {} /\ dbCalls' = Put(calls, "effect", r)
    /\ dbLoading' = TRUE
    /\ UNCHANGED <<dbPage, dbData, dbModal>>
    /\ Card(NoCard)

\* The refresh button: a load that nothing aborts, for the range of this moment.
reload ==
    /\ Content /\ ~dbModal
    /\ Pressed("reload")
    /\ dbLoading' = TRUE
    /\ UNCHANGED <<dbPage, dbRange, dbData, dbModal, cardVars>>

signOut ==
    /\ Content /\ ~dbModal /\ dbPage' = "login"
    /\ UNCHANGED <<dbRange, dbLoading, dbData, dbModal, cardVars, dbCalls>>

-----------------------------------------------------------------------------
(* The purchase card.                                                         *)
OpenPurchase ==
    /\ Content /\ ~dbModal /\ dbModal' = TRUE
    /\ UNCHANGED <<dbPage, dbRange, dbLoading, dbData, cardVars, dbCalls>>

ClosePurchase ==
    /\ CardShown /\ dbModal' = FALSE
    /\ dbCalls' = Orphans(dbCalls)
    /\ UNCHANGED <<dbPage, dbRange, dbLoading, dbData>>
    /\ Card(NoCard)

TypeCode ==
    /\ CardShown /\ "redeem" \notin dbLock /\ dbTyped' = TRUE
    /\ UNCHANGED <<dbPage, dbRange, dbLoading, dbData, dbModal, dbLock, dbMessage, dbCalls>>

handlePrepaidTopUp ==
    /\ CardShown /\ dbTyped /\ "redeem" \notin dbLock
    /\ Pressed("redeem")
    /\ UNCHANGED <<dbPage, dbRange, dbLoading, dbData, dbModal>>
    /\ Card([typed |-> TRUE, lock |-> dbLock \cup {"redeem"}, message |-> "none"])

\* No tier can be chosen without data.
handlePackagePurchase ==
    /\ CardShown /\ dbData # None /\ "checkout" \notin dbLock
    /\ Pressed("checkout")
    /\ UNCHANGED <<dbPage, dbRange, dbLoading, dbData, dbModal>>
    /\ Card([typed |-> dbTyped, lock |-> dbLock \cup {"checkout"}, message |-> "none"])

-----------------------------------------------------------------------------
(* The answers. Only the answer to the home data is read for a refusal.       *)
Serve(s) ==
    /\ dbCalls[s] # None /\ dbCalls[s].at = "sent"
    /\ \E answer \in {"ok", "failed", "denied"} :
          /\ answer = "denied" => dbCalls[s].op \in {"effect", "reload"}
          /\ dbCalls' = [dbCalls EXCEPT ![s].at = answer]
    /\ UNCHANGED <<dbPage, dbRange, dbLoading, dbData, dbModal, cardVars>>

Arrived(s, ops) == dbCalls[s] # None /\ dbCalls[s].op \in ops /\ dbCalls[s].at # "sent"
Drop(s) == [dbCalls EXCEPT ![s] = None]

(* Variants for checking: an aborted load writes its data all the same; a     *)
(* failed load does not end the loading.                                      *)
LoadArrives_Late(s) ==
    /\ Arrived(s, {"effect", "reload"}) /\ dbPage = "open"
    /\ LET call == dbCalls[s] IN
         /\ dbLoading' = FALSE
         /\ dbData' = CASE call.at = "ok" -> [range |-> call.range, by |-> call.op]
                        [] call.at = "failed" -> None
                        [] OTHER -> dbData
         /\ dbPage' = IF call.at = "denied" THEN "login" ELSE dbPage
    /\ dbCalls' = Drop(s)
    /\ UNCHANGED <<dbRange, dbModal>>
    /\ Card([typed |-> dbTyped, lock |-> dbLock, message |-> dbMessage])
LoadArrives_Stuck(s) ==
    /\ Arrived(s, {"effect", "reload"}) /\ dbPage = "open"
    /\ LET call == dbCalls[s] IN
         IF ~call.mine \/ call.at = "failed" THEN UNCHANGED <<dbPage, dbLoading, dbData>>
         ELSE /\ dbLoading' = FALSE
              /\ dbData' = IF call.at = "ok" THEN [range |-> call.range, by |-> call.op] ELSE dbData
              /\ dbPage' = IF call.at = "denied" THEN "login" ELSE dbPage
    /\ dbCalls' = Drop(s)
    /\ UNCHANGED <<dbRange, dbModal>>
    /\ Card([typed |-> dbTyped, lock |-> dbLock, message |-> dbMessage])

\* An aborted load does nothing, not even end the loading.
LoadArrives(s) ==
    /\ Arrived(s, {"effect", "reload"}) /\ dbPage = "open"
    /\ LET call == dbCalls[s] IN
         IF ~call.mine THEN UNCHANGED <<dbPage, dbLoading, dbData>>
         ELSE /\ dbLoading' = FALSE
              /\ dbData' = CASE call.at = "ok" -> [range |-> call.range, by |-> call.op]
                             [] call.at = "failed" -> None
                             [] OTHER -> dbData
              /\ dbPage' = IF call.at = "denied" THEN "login" ELSE dbPage
    /\ dbCalls' = Drop(s)
    /\ UNCHANGED <<dbRange, dbModal>>
    /\ Card([typed |-> dbTyped, lock |-> dbLock, message |-> dbMessage])

\* A redeemed code: the card empties its field, says so, and awaits a load of the data.
RedeemArrives(s) ==
    /\ Arrived(s, {"redeem"}) /\ dbPage = "open"
    /\ UNCHANGED <<dbPage, dbRange, dbData, dbModal>>
    /\ LET ok == dbCalls[s].at = "ok" IN
         /\ dbLoading' = (dbLoading \/ ok)
         /\ dbCalls' = IF ok THEN Put(Orphans(Drop(s)), "reload", dbCalls[s].range) ELSE Drop(s)
         /\ IF ~dbCalls[s].mine THEN Card([typed |-> dbTyped, lock |-> dbLock, message |-> dbMessage])
            ELSE Card([typed |-> dbTyped /\ ~ok, lock |-> IF ok THEN dbLock ELSE dbLock \ {"redeem"},
                       message |-> IF ok THEN "accepted" ELSE "error"])

(* Variant for checking: a refused checkout leaves the card locked.           *)
CheckoutArrives_Locked(s) ==
    /\ Arrived(s, {"checkout"}) /\ dbPage = "open"
    /\ dbPage' = IF dbCalls[s].at = "ok" THEN "stripe" ELSE dbPage
    /\ dbCalls' = Drop(s)
    /\ UNCHANGED <<dbRange, dbLoading, dbData, dbModal>>
    /\ Card([typed |-> dbTyped, lock |-> dbLock, message |-> dbMessage])

\* The browser is sent to Stripe, whether or not the card is still there.
CheckoutArrives(s) ==
    /\ Arrived(s, {"checkout"}) /\ dbPage = "open"
    /\ dbPage' = IF dbCalls[s].at = "ok" THEN "stripe" ELSE dbPage
    /\ dbCalls' = Drop(s)
    /\ UNCHANGED <<dbRange, dbLoading, dbData, dbModal>>
    /\ IF dbCalls[s].mine
         THEN Card([typed |-> dbTyped, lock |-> dbLock \ {"checkout"}, message |-> "error"])
         ELSE Card([typed |-> dbTyped, lock |-> dbLock, message |-> dbMessage])

Arrives(s) == LoadArrives(s) \/ RedeemArrives(s) \/ CheckoutArrives(s)
Next ==
    \/ \E r \in Ranges : OpenPage(r) \/ ChangeRange(r)
    \/ reload \/ signOut
    \/ OpenPurchase \/ ClosePurchase \/ TypeCode \/ handlePrepaidTopUp \/ handlePackagePurchase
    \/ \E s \in Slots : Serve(s) \/ Arrives(s)

Spec == Init /\ [][Next]_dashboardVars

\* Requests are answered or fail, and their handlers run on.
Fairness == \A s \in Slots : /\ WF_dashboardVars(Serve(s))
                               /\ WF_dashboardVars(Arrives(s))
FairSpec == Spec /\ Fairness

-----------------------------------------------------------------------------
TypeOK ==
    /\ dbPage \in {"closed", "open", "login", "stripe"}
    /\ dbRange \in Ranges \cup {None}
    /\ dbData \in [range : Ranges, by : {"effect", "reload"}] \cup {None}
    /\ dbLoading \in BOOLEAN /\ dbModal \in BOOLEAN /\ dbTyped \in BOOLEAN
    /\ dbLock \subseteq {"redeem", "checkout"} /\ dbMessage \in {"none", "error", "accepted"}
    /\ dbCalls \in [Slots -> Calls \cup {None}]

\* What the page shows belongs to the chosen range, however fast ranges are changed
\* and however slowly answers come; only a reload nothing can abort escapes this.
DataIsOfItsRange ==
    Content /\ dbData # None /\ dbData.by = "effect" => dbData.range = dbRange

\* A locked card waits for an answer of its own.
LockHasRequest ==
    Content => \A op \in dbLock : \E s \in Slots : /\ dbCalls[s] # None
                                                   /\ dbCalls[s].op = op /\ dbCalls[s].mine

\* Unless ranges are changed for ever, the loading comes to an end, aborted loads and
\* reloads notwithstanding.
LoadingEnds ==
    <>[][FALSE]_dbRange => (dbPage = "open" /\ dbLoading ~> dbPage # "open" \/ ~dbLoading)
==============================================================================
