--------------------------- MODULE UserDeskProofs ---------------------------
(* Theorems about UserDesk, for any accounts, any clerks at work at once and  *)
(* any bounds.                                                                *)
EXTENDS UserDesk, TLAPS

Places  == Forms \cup {"load"}
Pending == {"sent", "checking", "writing"}

\* What may be under way in a clerk's form, given the tables and his page.
Fits(c, f, call) ==
    \/ call = None
    \/ /\ call \in Calls /\ dkPage[c] # "closed"
       /\ f = "bind" => dkPage[c] = "admin"
       /\ call.at \in Pending /\ f # "load" => call.user \in Users
       /\ call.at \in Pending /\ f = "bind" => call.owner \in Users
       /\ f = "assign" /\ call.at = "writing" /\ dkPage[c] = "distributor"
            => <<c, call.user>> \in dkOnce
       /\ f = "bind" /\ call.at = "writing" => dkRoles[call.user] # "absent"

CallsType == dkCalls \in [Clerks -> [Places -> Calls \cup {None}]]
CallsFit  == CallsType /\ \A c \in Clerks, f \in Places : Fits(c, f, dkCalls[c][f])

\* The tables: a binding is remembered, and is of an account there is.
TablesOK ==
    /\ dkRoles \in [Users -> Roles \cup {"absent"}]
    /\ dkBound \in [Users -> Users \cup {None}]
    /\ dkOnce \subseteq Users \X Users
    /\ \A u \in Users : dkBound[u] # None => <<dkBound[u], u>> \in dkOnce /\ dkRoles[u] # "absent"

DeskOK ==
    /\ dkPage \in [Clerks -> {"closed", "admin", "distributor"}]
    /\ dkBlocked \in [Clerks -> BOOLEAN] /\ dkSent \in 0..MaxForms

IInv == TablesOK /\ DeskOK /\ CallsFit

\* Accounts stay, and bindings are not forgotten.
Grows ==
    /\ dkOnce \subseteq dkOnce'
    /\ \A u \in Users : dkRoles[u] # "absent" => dkRoles'[u] # "absent"

\* Nobody's user is taken over.
BoundStays ==
    \A u \in Users : dkBound[u] # None /\ dkBound'[u] # dkBound[u]
        => \E c \in Clerks : dkPage[c] = "admin" /\ At(c, "bind", "writing")

\* What a distributor writes is for a user of his.
OwnWrites ==
    \A c \in Clerks : WriteAssignment(c) /\ dkPage[c] = "distributor"
        => <<c, dkCalls[c]["assign"].user>> \in dkOnce

-----------------------------------------------------------------------------
(* A request that moves leaves the others as they are, and they still fit.    *)
LEMMA OneCall ==
    ASSUME CallsFit, TablesOK, Grows, dkPage' = dkPage,
           NEW c \in Clerks, NEW f \in Places, NEW n \in Calls \cup {None}, Fits(c, f, n)',
           dkCalls' = [dkCalls EXCEPT ![c][f] = n]
    PROVE  CallsFit'
<1>1. CallsType'
  BY DEF CallsFit, CallsType
<1>2. ASSUME NEW d \in Clerks, NEW g \in Places
      PROVE  Fits(d, g, dkCalls[d][g])'
  <2>1. CASE d = c /\ g = f
    <3>1. dkCalls'[d][g] = n
      BY <2>1 DEF CallsFit, CallsType
    <3>2. QED
      BY <2>1, <3>1 DEF Fits
  <2>2. CASE ~(d = c /\ g = f)
    <3>1. dkCalls'[d][g] = dkCalls[d][g] /\ Fits(d, g, dkCalls[d][g])
      BY <2>2 DEF CallsFit, CallsType
    <3>2. QED
      BY <3>1 DEF Fits, Grows, Pending, TablesOK
  <2>3. QED
    BY <2>1, <2>2
<1>3. QED
  BY <1>1, <1>2 DEF CallsFit

(* An answer fits wherever a request was.                                     *)
LEMMA AnswerFits ==
    ASSUME CallsFit, dkPage' = dkPage, NEW c \in Clerks, NEW f \in Places,
           dkCalls[c][f] # None, NEW stage \in Answers
    PROVE  Answer(stage) \in Calls /\ Fits(c, f, Answer(stage))'
<1>1. Answer(stage) \in Calls
  BY DEF Answer, Answers, Calls, Roles
<1>2. Answer(stage).at \notin Pending /\ Answer(stage).at = stage
  BY DEF Answer, Answers, Pending
<1>3. dkPage[c] # "closed" /\ (f = "bind" => dkPage[c] = "admin")
  BY DEF CallsFit, Fits
<1>4. QED
  BY <1>1, <1>2, <1>3 DEF Fits, Pending

(* A request that goes on to the next statement is the same request.          *)
LEMMA StageFits ==
    ASSUME CallsFit, TablesOK, Grows, dkPage' = dkPage, NEW c \in Clerks, NEW f \in Places,
           dkCalls[c][f] # None, dkCalls[c][f].at \in Pending, NEW stage \in {"checking", "writing"},
           f = "assign" /\ stage = "writing" /\ dkPage[c] = "distributor"
               => <<c, dkCalls[c][f].user>> \in dkOnce,
           f = "bind" /\ stage = "writing" => dkRoles[dkCalls[c][f].user] # "absent"
    PROVE  \E n \in Calls : n = [dkCalls[c][f] EXCEPT !.at = stage] /\ Fits(c, f, n)'
<1> DEFINE call == dkCalls[c][f]
<1>1. call \in Calls /\ Fits(c, f, call)
  BY DEF CallsFit, CallsType
<1>0. PICK n : n = [call EXCEPT !.at = stage]
  OBVIOUS
<1>2. n \in Calls /\ n.at = stage /\ n.user = call.user /\ n.owner = call.owner
  BY <1>0, <1>1 DEF Calls
<1>3. /\ dkPage[c] # "closed" /\ (f = "bind" => dkPage[c] = "admin" /\ call.owner \in Users)
      /\ f # "load" => call.user \in Users
  BY <1>1 DEF Fits
<1>4. f = "assign" /\ n.at = "writing" /\ dkPage[c] = "distributor" => <<c, n.user>> \in dkOnce'
  BY <1>2 DEF Grows
<1>5. f = "bind" /\ n.at = "writing" => dkRoles'[n.user] # "absent"
  BY <1>2, <1>3 DEF Grows
<1>6. /\ dkPage'[c] # "closed" /\ (f = "bind" => dkPage'[c] = "admin" /\ n.owner \in Users)
      /\ f # "load" => n.user \in Users
      /\ f = "assign" /\ n.at = "writing" /\ dkPage'[c] = "distributor" => <<c, n.user>> \in dkOnce'
  BY <1>2, <1>3, <1>4
<1>7. n \in Calls
  BY <1>2
<1>8. Fits(c, f, n)'
  BY <1>5, <1>6, <1>7 DEF Fits
<1>9. QED
  BY <1>0, <1>7, <1>8

(* So that a handler's step keeps the requests fit.                           *)
LEMMA ToFits ==
    ASSUME CallsFit, TablesOK, Grows, dkPage' = dkPage, NEW c \in Clerks, NEW f \in Places,
           dkCalls[c][f] # None, dkCalls[c][f].at \in Pending,
           NEW stage \in Answers \cup {"checking", "writing"}, To(c, f, stage),
           f = "assign" /\ stage = "writing" /\ dkPage[c] = "distributor"
               => <<c, dkCalls[c][f].user>> \in dkOnce,
           f = "bind" /\ stage = "writing" => dkRoles[dkCalls[c][f].user] # "absent"
    PROVE  CallsFit'
<1>1. CASE stage \in Answers
  <2>1. dkCalls' = [dkCalls EXCEPT ![c][f] = Answer(stage)]
    BY <1>1 DEF To
  <2>2. QED
    BY <1>1, <2>1, AnswerFits, OneCall
<1>2. CASE stage \notin Answers
  <2>1. stage \in {"checking", "writing"}
    BY <1>2
  <2>2. PICK n \in Calls : n = [dkCalls[c][f] EXCEPT !.at = stage] /\ Fits(c, f, n)'
    BY <2>1, StageFits
  <2>3. dkCalls' = [dkCalls EXCEPT ![c][f] = n]
    BY <1>2, <2>2 DEF To
  <2>4. QED
    BY <2>2, <2>3, OneCall
<1>3. QED
  BY <1>1, <1>2
(* A new request fits, of a clerk who has a page open.                        *)
LEMMA SendFits ==
    ASSUME CallsFit, TablesOK, Grows, dkPage' = dkPage, NEW c \in Clerks, NEW f \in Places,
           NEW user \in Users \cup {None}, NEW owner \in Users \cup {None}, NEW role \in Roles,
           dkPage[c] # "closed", f # "load" => user \in Users,
           f = "bind" => owner \in Users /\ dkPage[c] = "admin",
           dkCalls' = [dkCalls EXCEPT ![c][f] = Request(user, owner, role)]
    PROVE  CallsFit'
<1>1. Request(user, owner, role) \in Calls
  BY DEF Request, Calls
<1>2. /\ Request(user, owner, role).at = "sent" /\ Request(user, owner, role).user = user
      /\ Request(user, owner, role).owner = owner
  BY DEF Request
<1>3. Fits(c, f, Request(user, owner, role))'
  BY <1>1, <1>2 DEF Fits
<1>4. QED
  BY <1>1, <1>3, OneCall

(* The invariant holds at the start.                                          *)
LEMMA InitInv == DeskAssumption /\ Init => IInv
<1> SUFFICES ASSUME DeskAssumption, Init PROVE IInv
  OBVIOUS
<1>1. TablesOK
  <2>1. /\ dkRoles \in [Users -> Roles \cup {"absent"}] /\ dkBound \in [Users -> Users \cup {None}]
        /\ dkOnce = {<<dkBound[u], u>> : u \in {v \in Users : dkBound[v] # None}}
        /\ \A u \in Users : dkBound[u] # None => dkRoles[u] = "user"
    BY DEF Init
  <2>2. dkOnce \subseteq Users \X Users
    BY <2>1
  <2>3. QED
    BY <2>1, <2>2 DEF TablesOK
<1>2. DeskOK
  <2>1. 0 \in 0..MaxForms
    BY DEF DeskAssumption
  <2>2. QED
    BY <2>1 DEF Init, DeskOK
<1>3. CallsFit
  BY DEF Init, CallsFit, CallsType, Fits, Places
<1>4. QED
  BY <1>1, <1>2, <1>3 DEF IInv

-----------------------------------------------------------------------------
(* The clerks: no step of theirs touches the tables.                          *)
LEMMA WorkStep ==
    ASSUME DeskAssumption, IInv, NEW c \in Clerks, Works(c)
    PROVE  IInv' /\ BoundStays
<1> USE DEF IInv
<1>1. UNCHANGED tableVars
  BY DEF Works, OpenPage, Reload, handleQuickCreate, handleAssignPackage, handleUpdateRole,
         handleBindDistributor, Press
<1>2. TablesOK' /\ Grows /\ BoundStays
  BY <1>1 DEF TablesOK, Grows, BoundStays, tableVars
<1>3. CASE OpenPage(c)
  <2>1. /\ dkPage[c] = "closed" /\ dkRoles[c] \in {"admin", "distributor"}
        /\ dkPage' = [dkPage EXCEPT ![c] = dkRoles[c]] /\ UNCHANGED <<dkBlocked, dkSent>>
        /\ dkCalls' = [dkCalls EXCEPT ![c]["load"] = Request(None, None, "user")]
    BY <1>3 DEF OpenPage, Send
  <2>2. DeskOK'
    BY <2>1 DEF DeskOK
  <2>3. Request(None, None, "user") \in Calls /\ Request(None, None, "user").at = "sent"
    BY DEF Request, Calls, Roles
  <2>4. CallsType'
    BY <2>1, <2>3 DEF CallsFit, CallsType, Places
  <2>5. ASSUME NEW d \in Clerks, NEW g \in Places PROVE Fits(d, g, dkCalls[d][g])'
    <3>1. CASE d # c
      <4>1. dkCalls'[d][g] = dkCalls[d][g] /\ dkPage'[d] = dkPage[d] /\ Fits(d, g, dkCalls[d][g])
        BY <2>1, <3>1 DEF CallsFit, CallsType, DeskOK
      <4>2. QED
        BY <1>1, <4>1 DEF Fits, tableVars
    <3>2. CASE d = c /\ g # "load"
      <4>1. dkCalls[d][g] = None
        BY <2>1, <3>2 DEF CallsFit, Fits
      <4>2. dkCalls'[d][g] = dkCalls[d][g]
        BY <2>1, <3>2 DEF CallsFit, CallsType
      <4>3. QED
        BY <4>1, <4>2 DEF Fits
    <3>3. CASE d = c /\ g = "load"
      <4>1. dkCalls'[d][g] = Request(None, None, "user")
        BY <2>1, <3>3 DEF CallsFit, CallsType, Places
      <4>2. dkPage'[d] # "closed"
        BY <2>1, <3>3 DEF DeskOK
      <4>3. QED
        BY <2>3, <3>3, <4>1, <4>2 DEF Fits
    <3>4. QED
      BY <3>1, <3>2, <3>3
  <2>6. QED
    BY <1>2, <2>2, <2>4, <2>5 DEF CallsFit
<1>4. CASE Reload(c)
  <2>1. /\ dkPage[c] # "closed" /\ UNCHANGED <<dkPage, dkBlocked, dkSent>>
        /\ dkCalls' = [dkCalls EXCEPT ![c]["load"] = Request(None, None, "user")]
    BY <1>4 DEF Reload, Send
  <2>2. "load" \in Places /\ "user" \in Roles /\ "load" # "bind"
    BY DEF Places, Roles
  <2>3. CallsFit'
    BY <1>2, <2>1, <2>2, SendFits
  <2>4. QED
    BY <1>2, <2>1, <2>3 DEF DeskOK
<1>5. ASSUME NEW f \in Forms, NEW u \in Users, NEW o \in Users \cup {None}, NEW role \in Roles,
             Press(c, f, u, o, role), f = "bind" => o \in Users /\ dkPage[c] = "admin"
      PROVE  IInv'
  <2>1. /\ dkPage[c] # "closed" /\ dkSent < MaxForms /\ dkSent' = dkSent + 1
        /\ UNCHANGED <<dkPage, dkBlocked>>
        /\ dkCalls' = [dkCalls EXCEPT ![c][f] = Request(u, o, role)]
    BY <1>5 DEF Press, Send
  <2>2. f \in Places /\ f # "load"
    BY DEF Places, Forms
  <2>3. CallsFit'
    BY <1>2, <1>5, <2>1, <2>2, SendFits
  <2>4. dkSent' \in 0..MaxForms
    BY <2>1 DEF DeskOK, DeskAssumption
  <2>5. QED
    BY <1>2, <2>1, <2>3, <2>4 DEF DeskOK
<1>6. {"create", "assign", "role", "bind"} = Forms /\ "user" \in Roles
  BY DEF Forms, Roles
<1>7. CASE handleQuickCreate(c) \/ handleAssignPackage(c) \/ handleUpdateRole(c)
  BY <1>2, <1>5, <1>6, <1>7 DEF handleQuickCreate, handleAssignPackage, handleUpdateRole
<1>8. CASE handleBindDistributor(c)
  BY <1>2, <1>5, <1>6, <1>8 DEF handleBindDistributor
<1>9. QED
  BY <1>3, <1>4, <1>7, <1>8 DEF Works

(* The handlers that write nothing.                                           *)
LEMMA ReadStep ==
    ASSUME DeskAssumption, IInv, NEW c \in Clerks,
           \/ \E f \in Places : Deny(c, f)
           \/ ReadLists(c) \/ ResolveRole(c) \/ CheckRole(c) \/ ResolveBinding(c) \/ CheckBinding(c)
           \/ ResolveAssignment(c) \/ WriteAssignment(c)
    PROVE  IInv' /\ BoundStays
<1> USE DEF IInv
<1>1. UNCHANGED tableVars /\ UNCHANGED <<dkPage, dkBlocked, dkSent>>
  BY DEF Deny, ReadLists, ResolveRole, CheckRole, ResolveBinding, CheckBinding, ResolveAssignment,
         WriteAssignment, Served
<1>2. TablesOK' /\ Grows /\ BoundStays /\ DeskOK'
  BY <1>1 DEF TablesOK, Grows, BoundStays, tableVars, DeskOK
<1>3. dkPage' = dkPage /\ {"load", "role", "bind", "assign"} \subseteq Places
  BY <1>1 DEF Places, Forms
<1>4. {"sent", "checking", "writing"} \subseteq Pending /\ {"ok", "denied", "failed"} \subseteq Answers
  BY DEF Pending, Answers
<1> DEFINE Moves(f, stage) == /\ dkCalls[c][f] # None /\ dkCalls[c][f].at \in Pending
                              /\ To(c, f, stage)
<1>5. ASSUME NEW f \in Places, Deny(c, f) PROVE CallsFit'
  <2>1. PICK stage \in Answers : Moves(f, stage)
    BY <1>4, <1>5 DEF Deny, At
  <2>2. stage \notin {"checking", "writing"}
    BY DEF Answers
  <2>3. QED
    BY <1>2, <1>3, <2>1, <2>2, ToFits
<1>6. CASE ReadLists(c)
  <2>1. Moves("load", "ok")
    BY <1>4, <1>6 DEF ReadLists, At
  <2>2. QED
    BY <1>2, <1>3, <1>4, <2>1, ToFits
<1>7. CASE ResolveRole(c) \/ CheckRole(c)
  <2>1. PICK stage \in Answers \cup {"checking", "writing"} : Moves("role", stage)
    <3>1. CASE ResolveRole(c)
      <4>1. At(c, "role", "sent")
        BY <3>1 DEF ResolveRole
      <4>2. To(c, "role", "failed") \/ To(c, "role", "checking") \/ To(c, "role", "writing")
        BY <3>1 DEF ResolveRole
      <4>3. QED
        BY <1>4, <4>1, <4>2 DEF At
    <3>2. CASE CheckRole(c)
      BY <1>4, <3>2 DEF CheckRole, At
    <3>3. QED
      BY <1>7, <3>1, <3>2
  <2>2. QED
    BY <1>2, <1>3, <2>1, ToFits
<1>8. CASE ResolveBinding(c)
  <2>1. PICK stage \in Answers \cup {"checking"} : Moves("bind", stage)
    BY <1>4, <1>8 DEF ResolveBinding, At
  <2>2. stage # "writing"
    BY DEF Answers
  <2>3. QED
    BY <1>2, <1>3, <2>1, <2>2, ToFits
<1>9. CASE CheckBinding(c)
  <2>1. PICK stage \in Answers \cup {"writing"} :
            Moves("bind", stage) /\ (stage = "writing" => dkRoles[dkCalls[c]["bind"].user] = "user")
    BY <1>4, <1>9 DEF CheckBinding, At, Answers
  <2>2. QED
    BY <1>2, <1>3, <2>1, ToFits
<1>10. CASE ResolveAssignment(c)
  <2>1. PICK stage \in Answers \cup {"writing"} :
            /\ Moves("assign", stage)
            /\ stage = "writing" /\ dkPage[c] = "distributor"
                 => isUserBoundToDistributor(c, dkCalls[c]["assign"].user)
    BY <1>4, <1>10 DEF ResolveAssignment, At, Answers
  <2>2. dkCalls[c]["assign"].user \in Users
    BY <1>3, <2>1 DEF CallsFit, Fits
  <2>3. stage = "writing" /\ dkPage[c] = "distributor" => <<c, dkCalls[c]["assign"].user>> \in dkOnce
    BY <2>1, <2>2 DEF isUserBoundToDistributor, TablesOK, DeskAssumption
  <2>4. QED
    BY <1>2, <1>3, <2>1, <2>3, ToFits
<1>11. CASE WriteAssignment(c)
  <2>1. PICK stage \in Answers : Moves("assign", stage)
    BY <1>4, <1>11 DEF WriteAssignment, At
  <2>2. stage # "writing"
    BY DEF Answers
  <2>3. QED
    BY <1>2, <1>3, <2>1, <2>2, ToFits
<1>12. QED
  BY <1>2, <1>5, <1>6, <1>7, <1>8, <1>9, <1>10, <1>11
(* The handlers that write. An account that is created was not there, so that *)
(* it is bound to nobody.                                                     *)
LEMMA WriteStep ==
    ASSUME DeskAssumption, IInv, NEW c \in Clerks, CreateUser(c) \/ WriteRole(c) \/ WriteBinding(c)
    PROVE  IInv' /\ BoundStays
<1> USE DEF IInv
<1>1. UNCHANGED <<dkPage, dkBlocked, dkSent>> /\ c \in Users
  BY DEF CreateUser, WriteRole, WriteBinding, Served, DeskAssumption
<1>2. DeskOK' /\ dkPage' = dkPage /\ {"create", "role", "bind"} \subseteq Places
  BY <1>1 DEF DeskOK, Places, Forms
<1>3. "ok" \in Answers /\ "failed" \in Answers /\ "sent" \in Pending /\ "writing" \in Pending
  BY DEF Answers, Pending
<1>4. CASE CreateUser(c)
  <2> DEFINE u == dkCalls[c]["create"].user
  <2>1. At(c, "create", "sent") /\ dkCalls[c]["create"].at \in Pending
    BY <1>3, <1>4 DEF CreateUser, At
  <2>2. u \in Users
    BY <1>2, <2>1 DEF CallsFit, Fits, At
  <2>3. CASE dkRoles[u] # "absent"
    <3>1. To(c, "create", "failed") /\ UNCHANGED tableVars
      BY <1>4, <2>3 DEF CreateUser
    <3>2. TablesOK' /\ Grows /\ BoundStays
      BY <3>1 DEF TablesOK, Grows, BoundStays, tableVars
    <3>3. CallsFit'
      BY <1>2, <1>3, <2>1, <3>1, <3>2, ToFits DEF At
    <3>4. QED
      BY <1>2, <3>2, <3>3
  <2>4. CASE dkRoles[u] = "absent"
    <3>1. /\ dkRoles' = [dkRoles EXCEPT ![u] = "user"] /\ To(c, "create", "ok")
          /\ \/ dkBound' = dkBound /\ dkOnce' = dkOnce
             \/ dkBound' = [dkBound EXCEPT ![u] = c] /\ dkOnce' = dkOnce \cup {<<c, u>>}
      BY <1>4, <2>4 DEF CreateUser
    <3>2. dkBound[u] = None
      BY <2>2, <2>4 DEF TablesOK
    <3>3. /\ dkRoles' \in [Users -> Roles \cup {"absent"}]
          /\ \A v \in Users : dkRoles[v] # "absent" => dkRoles'[v] # "absent"
      BY <2>2, <3>1 DEF TablesOK, Roles
    <3>4. dkBound' \in [Users -> Users \cup {None}] /\ dkOnce' \subseteq Users \X Users
      BY <1>1, <2>2, <3>1 DEF TablesOK
    <3>5. \A v \in Users : v # u => dkBound'[v] = dkBound[v]
      BY <3>1 DEF TablesOK
    <3>6. ASSUME NEW v \in Users, dkBound'[v] # None
          PROVE  <<dkBound'[v], v>> \in dkOnce' /\ dkRoles'[v] # "absent"
      <4>1. CASE v = u
        BY <2>2, <3>1, <3>2, <3>6, <4>1 DEF TablesOK
      <4>2. CASE v # u
        BY <3>1, <3>3, <3>5, <3>6, <4>2 DEF TablesOK
      <4>3. QED
        BY <4>1, <4>2
    <3>7. TablesOK' /\ Grows /\ BoundStays
      BY <3>1, <3>2, <3>3, <3>4, <3>5, <3>6 DEF TablesOK, Grows, BoundStays
    <3>8. CallsFit'
      BY <1>2, <1>3, <2>1, <3>1, <3>7, ToFits DEF At
    <3>9. QED
      BY <1>2, <3>7, <3>8
  <2>5. QED
    BY <2>3, <2>4
<1>5. CASE WriteRole(c)
  <2> DEFINE u == dkCalls[c]["role"].user
             role == dkCalls[c]["role"].role
  <2>1. /\ At(c, "role", "writing") /\ dkCalls[c]["role"].at \in Pending /\ To(c, "role", "ok")
        /\ dkRoles' = [dkRoles EXCEPT ![u] = role] /\ UNCHANGED <<dkBound, dkOnce>>
    BY <1>3, <1>5 DEF WriteRole, At
  <2>2. role \in Roles /\ "absent" \notin Roles
    BY <1>2, <2>1 DEF CallsFit, Fits, At, Calls, Roles
  <2>3. /\ dkRoles' \in [Users -> Roles \cup {"absent"}]
        /\ \A v \in Users : dkRoles[v] # "absent" => dkRoles'[v] # "absent"
    BY <2>1, <2>2 DEF TablesOK
  <2>4. TablesOK' /\ Grows /\ BoundStays
    BY <2>1, <2>3 DEF TablesOK, Grows, BoundStays
  <2>5. CallsFit'
    BY <1>2, <1>3, <2>1, <2>4, ToFits DEF At
  <2>6. QED
    BY <1>2, <2>4, <2>5
<1>6. CASE WriteBinding(c)
  <2> DEFINE u == dkCalls[c]["bind"].user
             d == dkCalls[c]["bind"].owner
  <2>1. /\ At(c, "bind", "writing") /\ dkCalls[c]["bind"].at \in Pending /\ To(c, "bind", "ok")
        /\ dkBound' = [dkBound EXCEPT ![u] = d] /\ dkOnce' = dkOnce \cup {<<d, u>>}
        /\ dkRoles' = dkRoles
    BY <1>3, <1>6 DEF WriteBinding, At
  <2>2. u \in Users /\ d \in Users /\ dkRoles[u] # "absent" /\ dkPage[c] = "admin"
    BY <1>2, <2>1 DEF CallsFit, Fits, At
  <2>3. dkBound' \in [Users -> Users \cup {None}] /\ dkOnce' \subseteq Users \X Users
    BY <2>1, <2>2 DEF TablesOK
  <2>4. ASSUME NEW v \in Users, dkBound'[v] # None
        PROVE  <<dkBound'[v], v>> \in dkOnce' /\ dkRoles'[v] # "absent"
    <3>1. CASE v = u
      BY <2>1, <2>2, <3>1 DEF TablesOK
    <3>2. CASE v # u
      BY <2>1, <2>4, <3>2 DEF TablesOK
    <3>3. QED
      BY <3>1, <3>2
  <2>5. TablesOK' /\ Grows
    BY <2>1, <2>3, <2>4 DEF TablesOK, Grows
  <2>6. CallsFit'
    BY <1>2, <1>3, <2>1, <2>5, ToFits DEF At
  <2>7. BoundStays
    BY <2>1, <2>2 DEF BoundStays
  <2>8. QED
    BY <1>2, <2>5, <2>6, <2>7
<1>7. QED
  BY <1>4, <1>5, <1>6

(* The answers.                                                               *)
LEMMA HearStep ==
    ASSUME DeskAssumption, IInv, NEW c \in Clerks, Hears(c)
    PROVE  IInv' /\ BoundStays
<1> USE DEF IInv
<1>1. UNCHANGED tableVars /\ dkSent' = dkSent
  BY DEF Hears, ListsArrive, FormArrives
<1>2. TablesOK' /\ Grows /\ BoundStays
  BY <1>1 DEF TablesOK, Grows, BoundStays, tableVars
<1>3. CASE ListsArrive(c)
  <2>1. dkBlocked' \in [Clerks -> BOOLEAN]
    BY <1>3 DEF ListsArrive, DeskOK
  <2>2. CASE Gone(c)
    <3>1. /\ dkPage' = [dkPage EXCEPT ![c] = "closed"]
          /\ dkCalls' = [dkCalls EXCEPT ![c] = [f \in Places |-> None]]
      BY <1>3, <2>2 DEF ListsArrive, Places
    <3>2. dkPage' \in [Clerks -> {"closed", "admin", "distributor"}] /\ CallsType'
      BY <3>1 DEF DeskOK, CallsFit, CallsType
    <3>3. ASSUME NEW d \in Clerks, NEW g \in Places PROVE Fits(d, g, dkCalls[d][g])'
      <4>1. CASE d = c
        BY <3>1, <4>1 DEF CallsFit, CallsType, Fits
      <4>2. CASE d # c
        <5>1. dkCalls'[d][g] = dkCalls[d][g] /\ dkPage'[d] = dkPage[d] /\ Fits(d, g, dkCalls[d][g])
          BY <3>1, <4>2 DEF CallsFit, CallsType, DeskOK
        <5>2. QED
          BY <1>1, <5>1 DEF Fits, tableVars
      <4>3. QED
        BY <4>1, <4>2
    <3>4. QED
      BY <1>1, <1>2, <2>1, <3>2, <3>3 DEF CallsFit, DeskOK
  <2>3. CASE ~Gone(c)
    <3>1. dkPage' = dkPage /\ dkCalls' = [dkCalls EXCEPT ![c]["load"] = None]
      BY <1>3, <2>3 DEF ListsArrive
    <3>2. "load" \in Places /\ Fits(c, "load", None)'
      BY DEF Places, Fits
    <3>3. CallsFit'
      BY <1>2, <3>1, <3>2, OneCall
    <3>4. QED
      BY <1>1, <1>2, <2>1, <3>1, <3>3 DEF DeskOK
  <2>4. QED
    BY <2>2, <2>3
<1>4. ASSUME NEW f \in Forms, FormArrives(c, f) PROVE IInv'
  <2>1. dkPage' = dkPage /\ dkBlocked' \in [Clerks -> BOOLEAN]
    BY <1>4 DEF FormArrives, DeskOK
  <2>2. dkCalls[c][f] # None /\ f # "load" /\ "load" \in Places /\ f \in Places
    BY <1>4 DEF FormArrives, Answered, Forms, Places
  <2>3. PICK again \in BOOLEAN :
           /\ again => dkPage[c] # "admin"
           /\ dkCalls' = [dkCalls EXCEPT ![c][f] = None,
                                         ![c]["load"] = IF again THEN Request(None, None, "user") ELSE @]
    BY <1>4 DEF FormArrives
  <2>4. Request(None, None, "user") \in Calls /\ dkPage[c] # "closed"
    BY <2>2 DEF Request, Calls, Roles, CallsFit, Fits
  <2>5. CallsType'
    BY <2>2, <2>3, <2>4 DEF CallsFit, CallsType
  <2>6. ASSUME NEW d \in Clerks, NEW g \in Places PROVE Fits(d, g, dkCalls[d][g])'
    <3>1. \/ dkCalls'[d][g] = dkCalls[d][g]
          \/ dkCalls'[d][g] = None
          \/ dkCalls'[d][g] = Request(None, None, "user") /\ d = c /\ g = "load"
      BY <2>2, <2>3 DEF CallsFit, CallsType
    <3>2. Fits(d, g, dkCalls[d][g])
      BY DEF CallsFit
    <3>3. QED
      BY <1>1, <2>1, <2>4, <3>1, <3>2 DEF Fits, tableVars
  <2>7. QED
    BY <1>1, <1>2, <2>1, <2>5, <2>6 DEF CallsFit, DeskOK
<1>5. QED
  BY <1>2, <1>3, <1>4 DEF Hears

-----------------------------------------------------------------------------
(* Every step preserves the invariant and keeps to the rules.                 *)
LEMMA NextInv ==
    ASSUME DeskAssumption, IInv, [Next]_deskVars
    PROVE  IInv' /\ BoundStays
<1>1. CASE Next
  <2>1. PICK c \in Clerks : Works(c) \/ Serve(c) \/ Hears(c)
    BY <1>1 DEF Next
  <2>2. CASE Works(c)
    BY <2>2, WorkStep
  <2>3. CASE Serve(c)
    BY <2>3, ReadStep, WriteStep DEF Serve, Places
  <2>4. CASE Hears(c)
    BY <2>4, HearStep
  <2>5. QED
    BY <2>1, <2>2, <2>3, <2>4
<1>2. CASE UNCHANGED deskVars
  <2>1. /\ UNCHANGED <<dkRoles, dkBound, dkOnce>> /\ UNCHANGED <<dkPage, dkBlocked, dkSent>>
        /\ dkCalls' = dkCalls
    BY <1>2 DEF deskVars, tableVars
  <2>2. TablesOK' /\ DeskOK' /\ BoundStays
    BY <2>1 DEF IInv, TablesOK, DeskOK, BoundStays
  <2>3. CallsFit'
    BY <2>1 DEF IInv, CallsFit, CallsType, Fits
  <2>4. QED
    BY <2>2, <2>3 DEF IInv
<1>3. QED
  BY <1>1, <1>2

(* The invariant holds throughout.                                            *)
LEMMA Invariance == ASSUME DeskAssumption PROVE Spec => []IInv
<1>1. IInv /\ [Next]_deskVars => IInv'
  BY NextInv
<1>2. QED
  BY <1>1, InitInv, PTL DEF Spec

\* The tables and what is under way at the desks stay in their domains.
THEOREM DeskTypes == ASSUME DeskAssumption PROVE Spec => []TypeOK
<1>1. IInv => TypeOK
  BY DEF IInv, TablesOK, DeskOK, CallsFit, CallsType, TypeOK, Places
<1>2. QED
  BY <1>1, Invariance, PTL

\* A distributor gives packages only to users who are or have been his, between whatever
\* changes of bindings and roles his request is served.
THEOREM DistributorsGiveToTheirOwn == ASSUME DeskAssumption PROVE Spec => OwnUsersOnly
<1>1. IInv => OwnWrites
  BY DEF IInv, OwnWrites, WriteAssignment, At, CallsFit, Fits, Places, Forms
<1>2. IInv /\ [Next]_deskVars
        => [\A c \in Clerks : WriteAssignment(c) /\ dkPage[c] = "distributor"
               => <<c, dkCalls[c]["assign"].user>> \in dkOnce]_deskVars
  BY <1>1 DEF OwnWrites
<1>3. QED
  BY <1>2, Invariance, PTL DEF Spec, OwnUsersOnly

\* Only an administrator's binding takes a user from a distributor: creating an account
\* binds nobody who was there.
THEOREM UsersStayWithTheirs == ASSUME DeskAssumption PROVE Spec => NoTakeover
<1>1. IInv /\ [Next]_deskVars
        => [\A u \in Users : dkBound[u] # None /\ dkBound'[u] # dkBound[u]
               => \E c \in Clerks : dkPage[c] = "admin" /\ At(c, "bind", "writing")]_deskVars
  BY NextInv DEF BoundStays
<1>2. QED
  BY <1>1, Invariance, PTL DEF Spec, NoTakeover
=============================================================================
