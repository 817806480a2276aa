------------------------------ MODULE KeysPage ------------------------------
(* The page of the API keys (app/(app)/keys/page.tsx). Its list is read again *)
(* after every change, several requests can be under way at once, and the     *)
(* secret of a new key is shown once, in the dialog that asked for it. What   *)
(* the page has asked for goes on when the page is gone. Whether a key is     *)
(* active is left out: a toggle is a change that leaves the keys as they are. *)
EXTENDS Naturals

CONSTANTS
    None,       \* no key, no request
    AutoKey,    \* the key that the backend provisions by itself
    Others,     \* the other keys there can be
    Slots       \* requests under way at once

KeyIds == Others \cup {AutoKey}
Changes == {"toggle", "delete"}

VARIABLES
    kpPage,      \* "closed", "open", "login"
    kpKeys,      \* the backend's keys, a set
    kpList,      \* keys
    kpLoading,   \* loading: the list is hidden
    kpError,     \* error: shown in place of the list
    kpBusy,      \* busyKeyId
    kpModal,     \* showCreateModal
    kpFilled,    \* newKeyName and newKeyGroupId are given
    kpCreate,    \* the creation: "idle", "sent", or what came of it
    kpCreated,   \* createdKey is there: its secret is shown
    kpSuccess,   \* createSuccess: created, but the answer had no secret
    kpCalls      \* the other requests, by slot

listVars   == <<kpList, kpLoading, kpError, kpBusy>>
dialogVars == <<kpModal, kpFilled, kpCreate, kpCreated, kpSuccess>>
keysVars   == <<kpPage, kpKeys, listVars, dialogVars, kpCalls>>

\* A change is for a key, a load that the page itself begins is for none.
Calls == [key : KeyIds \cup {None}, list : SUBSET KeyIds,
          at : Changes \cup {"refused", "ensure", "list", "read", "denied", "broken"}]

KeysAssumption == AutoKey \notin Others /\ None \notin KeyIds /\ None \notin Calls

Init ==
    /\ kpPage = "closed" /\ kpKeys = {}
    /\ kpList = {} /\ kpLoading = TRUE /\ kpError = FALSE /\ kpBusy = None
    /\ kpModal = FALSE /\ kpFilled = FALSE /\ kpCreate = "idle"
    /\ kpCreated = FALSE /\ kpSuccess = FALSE
    /\ kpCalls = [s \in Slots |-> None]

Send(key, stage) ==
    /\ \E s \in Slots : kpCalls[s] = None
    /\ kpCalls' = [kpCalls EXCEPT ![CHOOSE s \in Slots : kpCalls[s] = None] =
          [key |-> key, at |-> stage, list |-> {}]]
At(s, stage) == kpCalls[s] # None /\ kpCalls[s].at = stage
To(s, stage) == kpCalls' = [kpCalls EXCEPT ![s].at = stage]

\* The page mounts, somebody is signed in, and the first load goes out.
OpenPage(keys) ==
    /\ kpPage = "closed" /\ kpPage' = "open" /\ kpKeys' = keys
    /\ Send(None, "ensure")
    /\ UNCHANGED <<listVars, dialogVars>>

\* The rows are there when the list is; the bin of the automatic key is switched off.
RowEnabled(k) ==
    kpPage = "open" /\ ~kpLoading /\ ~kpError /\ k \in kpList /\ kpBusy # k

handleToggle(k) ==
    /\ RowEnabled(k) /\ kpBusy' = k
    /\ Send(k, "toggle")
    /\ UNCHANGED <<kpPage, kpKeys, kpList, kpLoading, kpError, dialogVars>>

handleDelete(k) ==
    /\ RowEnabled(k) /\ k # AutoKey /\ kpBusy' = k
    /\ Send(k, "delete")
    /\ UNCHANGED <<kpPage, kpKeys, kpList, kpLoading, kpError, dialogVars>>

-----------------------------------------------------------------------------
(* loadAll: the provisioning of the automatic key, whose failure is ignored,  *)
(* then the list. A load that follows a change runs inside its handler.       *)
Carry(keys) == kpKeys' = keys /\ UNCHANGED <<kpPage, dialogVars>>

\* The rest of a handler touches nothing on a page that is gone.
OnPage == kpPage = "open"
LoadBegins == IF OnPage THEN kpLoading' = TRUE /\ kpError' = FALSE
                        ELSE UNCHANGED <<kpLoading, kpError>>

\* A change is carried out or not, and its answer may be lost; a success is followed by a
\* load.
Done(s) == Carry(IF At(s, "delete") THEN kpKeys \ {kpCalls[s].key} ELSE kpKeys)
ServeChange(s) ==
    /\ kpCalls[s] # None /\ kpCalls[s].at \in Changes
    /\ \/ Done(s) /\ To(s, "ensure") /\ LoadBegins
       \/ /\ Done(s) \/ Carry(kpKeys)
          /\ To(s, "refused") /\ UNCHANGED <<kpLoading, kpError>>
    /\ UNCHANGED <<kpList, kpBusy>>

Provision(s) ==
    /\ At(s, "ensure") /\ To(s, "list")
    /\ Carry(kpKeys \cup {AutoKey}) \/ Carry(kpKeys)
    /\ UNCHANGED listVars

\* The list as it is; none when the status is an error; 401; a broken connection.
ReadList(s) ==
    /\ At(s, "list")
    /\ \/ \E list \in {kpKeys, {}} :
             kpCalls' = [kpCalls EXCEPT ![s].at = "read", ![s].list = list]
       \/ To(s, "denied")
       \/ To(s, "broken")
    /\ UNCHANGED <<kpPage, kpKeys, listVars, dialogVars>>

(* Variant for checking: a handler leaves the row that it has locked.         *)
LetGo_Locked(s) == kpCalls' = [kpCalls EXCEPT ![s] = None] /\ kpBusy' = kpBusy

\* finally, of the load and of the handler around it.
LetGo(s) ==
    /\ kpCalls' = [kpCalls EXCEPT ![s] = None]
    /\ kpBusy' = IF kpCalls[s].key = None THEN kpBusy ELSE None

ListArrives(s) ==
    /\ At(s, "read") \/ At(s, "broken")
    /\ LetGo(s)
    /\ IF OnPage
         THEN /\ kpList' = IF At(s, "read") THEN kpCalls[s].list ELSE kpList
              /\ kpError' = (kpError \/ At(s, "broken")) /\ kpLoading' = FALSE
         ELSE UNCHANGED <<kpList, kpError, kpLoading>>
    /\ UNCHANGED <<kpPage, kpKeys, dialogVars>>

RefusalArrives(s) ==
    /\ At(s, "refused") /\ LetGo(s)
    /\ UNCHANGED <<kpPage, kpKeys, kpList, kpLoading, kpError, dialogVars>>

\* The token is removed, and the page with everything it holds goes to the login form,
\* a secret on show included. The other requests, and a creation, are under way still.
DenialArrives(s) ==
    /\ At(s, "denied") /\ kpPage' = "login"
    /\ kpList' = {} /\ kpLoading' = TRUE /\ kpError' = FALSE /\ kpBusy' = None
    /\ kpModal' = FALSE /\ kpFilled' = FALSE /\ kpCreated' = FALSE /\ kpSuccess' = FALSE
    /\ kpCalls' = [kpCalls EXCEPT ![s] = None]
    /\ UNCHANGED <<kpKeys, kpCreate>>

-----------------------------------------------------------------------------
(* The dialog.                                                                *)
OpenDialog ==
    /\ kpPage = "open" /\ kpModal' = TRUE
    /\ UNCHANGED <<kpPage, kpKeys, listVars, kpFilled, kpCreate, kpCreated, kpSuccess, kpCalls>>

FormShown == kpModal /\ ~kpCreated
Fill ==
    /\ FormShown /\ kpFilled' = TRUE
    /\ UNCHANGED <<kpPage, kpKeys, listVars, kpModal, kpCreate, kpCreated, kpSuccess, kpCalls>>

handleCreateKey ==
    /\ FormShown /\ kpFilled /\ kpCreate = "idle"
    /\ kpCreate' = "sent" /\ kpSuccess' = FALSE
    /\ UNCHANGED <<kpPage, kpKeys, listVars, kpModal, kpFilled, kpCreated, kpCalls>>

\* The backend creates the key; its answer can lack the secret. After ten seconds, or a
\* broken connection, the page takes the creation for failed all the same.
ServeCreate ==
    /\ kpCreate = "sent"
    /\ (\E k \in Others \ kpKeys : kpKeys' = kpKeys \cup {k}) \/ UNCHANGED kpKeys
    /\ kpCreate' \in IF kpKeys' = kpKeys THEN {"failed"} ELSE {"secret", "bare", "failed"}
    /\ UNCHANGED <<kpPage, listVars, kpModal, kpFilled, kpCreated, kpSuccess, kpCalls>>

CreateArrives ==
    /\ kpCreate \in {"secret", "bare", "failed"} /\ kpCreate' = "idle"
    /\ IF OnPage
         THEN /\ kpCreated' = (kpCreated \/ kpCreate = "secret")
              /\ kpSuccess' = IF kpCreate = "failed" THEN kpSuccess ELSE kpCreate = "bare"
              /\ kpFilled' = (kpCreate = "failed" /\ kpFilled)
         ELSE UNCHANGED <<kpCreated, kpSuccess, kpFilled>>
    /\ UNCHANGED <<kpPage, kpKeys, listVars, kpModal, kpCalls>>

(* Variant for checking: the dialog closes while a key is being created.      *)
handleCloseCreateModal_Any ==
    /\ kpModal
    /\ kpModal' = FALSE /\ kpFilled' = FALSE /\ kpCreated' = FALSE /\ kpSuccess' = FALSE
    /\ UNCHANGED <<kpPage, kpKeys, listVars, kpCreate, kpCalls>>

\* The cross, the Escape key, the backdrop and the button all come here. The list is
\* loaded again only when a key has been created.
handleCloseCreateModal ==
    /\ kpModal /\ kpCreate = "idle"
    /\ kpModal' = FALSE /\ kpFilled' = FALSE /\ kpCreated' = FALSE /\ kpSuccess' = FALSE
    /\ IF kpCreated \/ kpSuccess
         THEN Send(None, "ensure") /\ LoadBegins
         ELSE UNCHANGED <<kpCalls, kpLoading, kpError>>
    /\ UNCHANGED <<kpPage, kpKeys, kpList, kpBusy, kpCreate>>

Arrives(s) == ListArrives(s) \/ RefusalArrives(s) \/ DenialArrives(s)
Serves(s) == ServeChange(s) \/ Provision(s) \/ ReadList(s)
Next ==
    \/ \E keys \in SUBSET KeyIds : OpenPage(keys)
    \/ \E k \in KeyIds : handleToggle(k) \/ handleDelete(k)
    \/ OpenDialog \/ Fill \/ handleCreateKey \/ handleCloseCreateModal
    \/ ServeCreate \/ CreateArrives
    \/ \E s \in Slots : Serves(s) \/ Arrives(s)

Spec == Init /\ [][Next]_keysVars

-----------------------------------------------------------------------------
TypeOK ==
    /\ kpPage \in {"closed", "open", "login"}
    /\ kpKeys \subseteq KeyIds /\ kpList \subseteq KeyIds
    /\ kpLoading \in BOOLEAN /\ kpError \in BOOLEAN /\ kpBusy \in KeyIds \cup {None}
    /\ kpModal \in BOOLEAN /\ kpFilled \in BOOLEAN /\ kpSuccess \in BOOLEAN
    /\ kpCreate \in {"idle", "sent", "secret", "bare", "failed"}
    /\ kpCreated \in BOOLEAN
    /\ kpCalls \in [Slots -> Calls \cup {None}]

\* The dialog that shows a new key's secret is in sight.
SecretInSight == kpPage = "open" /\ kpModal /\ kpCreated

\* "If it were closed now, the secret would land in a closed dialog and never be seen":
\* a secret that the backend has answered with is shown when it arrives, and stays on show
\* until the dialog is closed, when no creation is under way. Only a refusal of the session,
\* which takes the page away, can keep it from its user.
SecretIsSeen ==
    /\ kpCreate = "secret" /\ kpCreate' # "secret" => SecretInSight' \/ kpPage = "login"
    /\ kpCreated /\ ~SecretInSight' => (kpCreate = "idle" /\ ~kpModal') \/ kpPage' = "login"
SecretSeen == [][SecretIsSeen]_keysVars

\* Two handlers share busyKeyId, and each clears it at its end: a row that is locked waits for
\* a request of its own, whichever of them ends first and however its loads overlap.
LockHasRequest ==
    kpBusy # None => \E s \in Slots : kpCalls[s] # None /\ kpCalls[s].key = kpBusy
=============================================================================
