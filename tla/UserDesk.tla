------------------------------ MODULE UserDesk ------------------------------
(* The administrator's page of the users and the distributor's console, with  *)
(* what the backend does for them: accounts, roles, the binding of a user to  *)
(* a distributor, and packages assigned by hand. Several people work at once. *)
EXTENDS Naturals, FiniteSets

CONSTANTS
    None,     \* nobody, no request, no form
    Users,    \* the accounts there can be
    Clerks,   \* those of them who have a page open
    MaxOpen,  \* bound: requests a clerk has under way at once
    MaxForms  \* bound: forms sent

DeskAssumption == None \notin Users /\ Clerks \subseteq Users /\ {MaxOpen, MaxForms} \subseteq Nat

Roles == {"user", "distributor", "admin"}
Forms == {"create", "assign", "role", "bind"}

VARIABLES
    dkRoles,    \* als_users.role; "absent": no such account
    dkBound,    \* als_distributor_user_bindings: the distributor of a user
    dkOnce,     \* the bindings there have ever been
    dkPage,     \* the page a clerk has open: "closed", "admin", "distributor"
    dkBlocked,  \* authBlocked
    dkCalls,    \* a clerk's requests, one per form and one for the lists
    dkSent      \* forms sent so far

tableVars == <<dkRoles, dkBound, dkOnce>>
deskVars  == <<tableVars, dkPage, dkBlocked, dkCalls, dkSent>>

Calls == [user : Users \cup {None}, owner : Users \cup {None}, role : Roles,
          at : {"sent", "checking", "writing", "ok", "denied", "failed"}]

\* The accounts are what earlier work has left: users bound to distributors.
Init ==
    /\ dkRoles \in [Users -> Roles \cup {"absent"}]
    /\ \E u \in Users : dkRoles[u] = "admin"
    /\ dkBound \in [Users -> Users \cup {None}]
    /\ \A u \in Users : dkBound[u] # None => dkRoles[u] = "user" /\ dkRoles[dkBound[u]] = "distributor"
    /\ dkOnce = {<<dkBound[u], u>> : u \in {v \in Users : dkBound[v] # None}}
    /\ dkPage = [c \in Clerks |-> "closed"] /\ dkBlocked = [c \in Clerks |-> FALSE]
    /\ dkCalls = [c \in Clerks |-> [f \in Forms \cup {"load"} |-> None]] /\ dkSent = 0

Request(user, owner, role) == [user |-> user, owner |-> owner, role |-> role, at |-> "sent"]
Send(c, f, user, owner, role) ==
    /\ dkCalls[c][f] = None
    /\ Cardinality({g \in DOMAIN dkCalls[c] : dkCalls[c][g] # None}) < MaxOpen
    /\ dkCalls' = [dkCalls EXCEPT ![c][f] = Request(user, owner, role)]
At(c, f, stage) == dkCalls[c][f] # None /\ dkCalls[c][f].at = stage
\* An answer says what came of the request, and no more.
Answers == {"ok", "denied", "failed"}
Answer(stage) == [user |-> None, owner |-> None, role |-> "user", at |-> stage]
To(c, f, stage) ==
    dkCalls' = [dkCalls EXCEPT ![c][f] = IF stage \in Answers THEN Answer(stage)
                                         ELSE [@ EXCEPT !.at = stage]]

\* A page opens for those whose role asks for it, and loads its lists.
OpenPage(c) ==
    /\ dkPage[c] = "closed" /\ dkRoles[c] \in {"admin", "distributor"}
    /\ dkPage' = [dkPage EXCEPT ![c] = dkRoles[c]]
    /\ Send(c, "load", None, None, "user")
    /\ UNCHANGED <<tableVars, dkBlocked, dkSent>>

Reload(c) ==
    /\ dkPage[c] # "closed"
    /\ Send(c, "load", None, None, "user")
    /\ UNCHANGED <<tableVars, dkPage, dkBlocked, dkSent>>

\* A form is locked while its own request is under way, and all are when the page is
\* blocked.
Press(c, f, user, owner, role) ==
    /\ dkPage[c] # "closed" /\ ~dkBlocked[c]
    /\ Send(c, f, user, owner, role)
    /\ dkSent < MaxForms /\ dkSent' = dkSent + 1
    /\ UNCHANGED <<tableVars, dkPage, dkBlocked>>

handleQuickCreate(c) == \E u \in Users : Press(c, "create", u, None, "user")
handleAssignPackage(c) == \E u \in Users : Press(c, "assign", u, None, "user")
handleUpdateRole(c) ==
    dkPage[c] = "admin" /\ \E u \in Users, role \in Roles : Press(c, "role", u, None, role)
handleBindDistributor(c) ==
    dkPage[c] = "admin" /\ \E u, d \in Users : Press(c, "bind", u, d, "user")

-----------------------------------------------------------------------------
(* The backend. Each handler checks the role its route asks for, then reads,  *)
(* then writes; the reads and the write are statements of their own.          *)
Desk(c) == IF dkRoles[c] = dkPage[c] THEN dkRoles[c] ELSE "denied"
Served == UNCHANGED <<dkPage, dkBlocked, dkSent>>

\* RequireAdmin, RequireDistributor: a role that has been taken away is denied, and so
\* is a session that has ended; any other request may fail.
Deny(c, f) ==
    /\ At(c, f, "sent")
    /\ \/ To(c, f, "denied")
       \/ Desk(c) # "denied" /\ To(c, f, "failed")
    /\ UNCHANGED tableVars /\ Served

ReadLists(c) ==
    /\ At(c, "load", "sent") /\ Desk(c) # "denied" /\ To(c, "load", "ok")
    /\ UNCHANGED tableVars /\ Served

(* Variant for checking: an address that is taken is bound as well.           *)
CreateUser_Binds(c) ==
    /\ At(c, "create", "sent") /\ Desk(c) # "denied"
    /\ LET u == dkCalls[c]["create"].user
           mine == dkPage[c] = "distributor"
       IN  /\ dkRoles' = [dkRoles EXCEPT ![u] = IF @ = "absent" THEN "user" ELSE @]
           /\ dkBound' = IF mine THEN [dkBound EXCEPT ![u] = c] ELSE dkBound
           /\ dkOnce' = IF mine THEN dkOnce \cup {<<c, u>>} ELSE dkOnce
           /\ To(c, "create", "ok")
    /\ Served

\* handleQuickCreateUser: the account and, for a distributor, its binding in one
\* transaction. The address may be taken.
CreateUser(c) ==
    /\ At(c, "create", "sent") /\ Desk(c) # "denied"
    /\ LET u == dkCalls[c]["create"].user
           mine == dkPage[c] = "distributor"
       IN  IF dkRoles[u] # "absent" THEN To(c, "create", "failed") /\ UNCHANGED tableVars
           ELSE /\ dkRoles' = [dkRoles EXCEPT ![u] = "user"]
                /\ dkBound' = IF mine THEN [dkBound EXCEPT ![u] = c] ELSE dkBound
                /\ dkOnce' = IF mine THEN dkOnce \cup {<<c, u>>} ELSE dkOnce
                /\ To(c, "create", "ok")
    /\ Served

\* handleAdminUpdateUserRole: only an administrator's demotion is looked at twice.
ResolveRole(c) ==
    /\ At(c, "role", "sent") /\ Desk(c) # "denied"
    /\ LET call == dkCalls[c]["role"] IN
         CASE dkRoles[call.user] = "absent" -> To(c, "role", "failed")
           [] dkRoles[call.user] = "admin" /\ call.role # "admin" -> To(c, "role", "checking")
           [] OTHER -> To(c, "role", "writing")
    /\ UNCHANGED tableVars /\ Served

hasOtherLocalAdmin(u) == \E v \in Users \ {u} : dkRoles[v] = "admin"
CheckRole(c) ==
    /\ At(c, "role", "checking")
    /\ To(c, "role", IF hasOtherLocalAdmin(dkCalls[c]["role"].user) THEN "writing" ELSE "failed")
    /\ UNCHANGED tableVars /\ Served

WriteRole(c) ==
    /\ At(c, "role", "writing")
    /\ dkRoles' = [dkRoles EXCEPT ![dkCalls[c]["role"].user] = dkCalls[c]["role"].role]
    /\ To(c, "role", "ok")
    /\ UNCHANGED <<dkBound, dkOnce>> /\ Served

\* handleAdminBindDistributorUser: a distributor, then a mere user; the later binding
\* of a user replaces the earlier one.
ResolveBinding(c) ==
    /\ At(c, "bind", "sent") /\ Desk(c) # "denied"
    /\ LET call == dkCalls[c]["bind"] IN
         To(c, "bind", IF dkRoles[call.owner] = "distributor" THEN "checking" ELSE "failed")
    /\ UNCHANGED tableVars /\ Served

CheckBinding(c) ==
    /\ At(c, "bind", "checking")
    /\ To(c, "bind", IF dkRoles[dkCalls[c]["bind"].user] = "user" THEN "writing" ELSE "failed")
    /\ UNCHANGED tableVars /\ Served

WriteBinding(c) ==
    /\ At(c, "bind", "writing")
    /\ LET call == dkCalls[c]["bind"] IN
         /\ dkBound' = [dkBound EXCEPT ![call.user] = call.owner]
         /\ dkOnce' = dkOnce \cup {<<call.owner, call.user>>}
    /\ To(c, "bind", "ok")
    /\ UNCHANGED dkRoles /\ Served

(* Variant for checking: bound to somebody.                                   *)
isUserBoundToDistributor_Any(d, u) == dkBound[u] # None

isUserBoundToDistributor(d, u) == dkBound[u] = d

\* handleAdminAssignPackage serves both pages; a distributor's user has to be bound.
ResolveAssignment(c) ==
    /\ At(c, "assign", "sent") /\ Desk(c) # "denied"
    /\ LET u == dkCalls[c]["assign"].user IN
         To(c, "assign", CASE dkRoles[u] = "absent" -> "failed"
                           [] dkRoles[u] # "absent" /\ dkPage[c] = "distributor"
                                /\ ~isUserBoundToDistributor(c, u) -> "denied"
                           [] OTHER -> "writing")
    /\ UNCHANGED tableVars /\ Served

\* Fulfillment runs and may fail; what a distributor gave is recorded in either case, in
\* a table that nothing here reads.
WriteAssignment(c) ==
    /\ At(c, "assign", "writing")
    /\ \E stage \in {"ok", "failed"} : To(c, "assign", stage)
    /\ UNCHANGED tableVars /\ Served

Serve(c) ==
    \/ \E f \in Forms \cup {"load"} : Deny(c, f)
    \/ ReadLists(c) \/ CreateUser(c) \/ ResolveRole(c) \/ CheckRole(c) \/ WriteRole(c)
    \/ ResolveBinding(c) \/ CheckBinding(c) \/ WriteBinding(c)
    \/ ResolveAssignment(c) \/ WriteAssignment(c)

-----------------------------------------------------------------------------
(* The answers. Only the administrator's page is blocked by a refusal; what   *)
(* succeeds there unblocks it. A console whose owner is denied, say because he *)
(* has ceased to be a distributor, goes to the account page with its lists.    *)
Answered(c, f) == dkCalls[c][f] # None /\ dkCalls[c][f].at \in Answers

FormArrives(c, f) ==
    /\ Answered(c, f)
    /\ LET stage == dkCalls[c][f].at
           admin == dkPage[c] = "admin"
           again == ~admin /\ stage = "ok" /\ dkCalls[c]["load"] = None
       IN  /\ dkBlocked' = [dkBlocked EXCEPT ![c] = CASE admin /\ stage = "denied" -> TRUE
                                                      [] admin /\ stage = "ok" -> FALSE
                                                      [] OTHER -> @]
           /\ dkCalls' = [dkCalls EXCEPT ![c][f] = None,
                                         ![c]["load"] = IF again THEN Request(None, None, "user") ELSE @]
    /\ UNCHANGED <<tableVars, dkPage, dkSent>>

Gone(c) == dkPage[c] = "distributor" /\ dkCalls[c]["load"].at = "denied"
ListsArrive(c) ==
    /\ Answered(c, "load")
    /\ LET stage == dkCalls[c]["load"].at IN
         /\ dkBlocked' = [dkBlocked EXCEPT ![c] = dkPage[c] = "admin" /\ stage # "ok"
                                                   /\ (@ \/ stage = "denied")]
         /\ dkPage' = IF Gone(c) THEN [dkPage EXCEPT ![c] = "closed"] ELSE dkPage
         /\ dkCalls' = IF Gone(c) THEN [dkCalls EXCEPT ![c] = [f \in Forms \cup {"load"} |-> None]]
                       ELSE [dkCalls EXCEPT ![c]["load"] = None]
    /\ UNCHANGED <<tableVars, dkSent>>

Works(c) ==
    \/ OpenPage(c) \/ Reload(c) \/ handleQuickCreate(c) \/ handleAssignPackage(c)
    \/ handleUpdateRole(c) \/ handleBindDistributor(c)
Hears(c) == ListsArrive(c) \/ \E f \in Forms : FormArrives(c, f)
Next == \E c \in Clerks : Works(c) \/ Serve(c) \/ Hears(c)

Spec == Init /\ [][Next]_deskVars

-----------------------------------------------------------------------------
TypeOK ==
    /\ dkRoles \in [Users -> Roles \cup {"absent"}]
    /\ dkBound \in [Users -> Users \cup {None}]
    /\ dkOnce \subseteq Users \X Users
    /\ dkPage \in [Clerks -> {"closed", "admin", "distributor"}]
    /\ dkBlocked \in [Clerks -> BOOLEAN] /\ dkSent \in 0..MaxForms
    /\ dkCalls \in [Clerks -> [Forms \cup {"load"} -> Calls \cup {None}]]

\* "cannot remove the last admin role": there is always somebody left to administer.
AdminRemains == \E u \in Users : dkRoles[u] = "admin"

\* "distributor can only assign packages to bound users": what a distributor has given
\* went to users of his, although bindings and roles change while he works.
OwnUsersOnly ==
    [][\A c \in Clerks : WriteAssignment(c) /\ dkPage[c] = "distributor"
           => <<c, dkCalls[c]["assign"].user>> \in dkOnce]_deskVars

\* A user is bound only by an administrator or to the distributor who created him: a
\* distributor does not take over another's users.
NoTakeover ==
    [][\A u \in Users : dkBound[u] # None /\ dkBound'[u] # dkBound[u]
           => \E c \in Clerks : dkPage[c] = "admin" /\ At(c, "bind", "writing")]_deskVars
=============================================================================
