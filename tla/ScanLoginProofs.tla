-------------------------- MODULE ScanLoginProofs --------------------------
(* Theorems about ScanLogin, for any users, requests, codes and failures.     *)
EXTENDS ScanLogin, TLAPS

(* The invariant holds at the start.                                          *)
LEMMA InitInv == Init => IInv
<1> SUFFICES ASSUME Init PROVE IInv
  OBVIOUS
<1>1. \A c \in Codes : row[c] = NoRow
  BY DEF Init
<1>2. TypeOK
  <2>1. NoReply \in Replies
    BY DEF NoReply, Replies, Statuses
  <2>2. NoRow \in [status: Statuses, user: Users \union {none}, token: Requests \union {none}]
    BY DEF NoRow, Statuses
  <2>3. 0 \in 0..MaxCodes
    BY ScanAssumption
  <2>4. row \in [Codes -> [status: Statuses, user: Users \union {none},
                           token: Requests \union {none}]]
    BY <2>2 DEF Init
  <2>5. life \in [Codes -> Lives] /\ since \in [Requests -> Lives] /\ sent \in Lives
    BY DEF Init, Lives
  <2>6. QED
    BY <2>1, <2>3, <2>4, <2>5 DEF Init, TypeOK, Verbs
<1>3. CallShape /\ PanelShape
  BY DEF Init, CallShape, PanelShape, NoReply
<1>4. RowShape /\ TokenPath
  BY <1>1 DEF Init, RowShape, TokenPath, NoRow, NoReply
<1>5. AnswersHold
  BY DEF Init, AnswersHold, Told
<1>6. QED
  BY <1>2, <1>3, <1>4, <1>5 DEF IInv

-----------------------------------------------------------------------------
(* Requests of the apps *)

(* A step of one request that writes no row: what it may tell the app.        *)
LEMMA AppStep ==
    ASSUME IInv, NEW r \in Requests, TypeOK', CallShape',
           UNCHANGED <<rows, panel>>, minted \subseteq minted',
           \A q \in Requests : q # r => /\ pc'[q] = pc[q] /\ verb'[q] = verb[q]
                                        /\ user'[q] = user[q] /\ code'[q] = code[q]
                                        /\ verdict'[q] = verdict[q],
           pc'[r] # "idle",
           pc[r] # "idle" => verb'[r] = verb[r] /\ user'[r] = user[r] /\ code'[r] = code[r],
           verdict'[r] = "ok" => /\ verb[r] # "deny" /\ pc[r] # "idle" /\ Mine(r)
                                 /\ Row(r).status \in Repeatable(verb[r])
    PROVE  IInv'
<1> USE DEF IInv
<1>1. row' = row /\ issued' = issued /\ saved' = saved /\ reply' = reply
      /\ shown' = shown /\ timer' = timer /\ flight' = flight
  BY DEF rows, panel
<1>2. PanelShape' /\ TokenPath'
  BY <1>1 DEF PanelShape, TokenPath
<1>3. RowShape'
  <2>1. ASSUME NEW c \in Codes, row[c].token # none
        PROVE  LET t == row[c].token
               IN  t \in minted' /\ pc'[t] # "idle" /\ code'[t] = c /\ user'[t] = row[c].user
    <3>1. row[c].token \in Requests
      BY <2>1 DEF TypeOK
    <3>2. QED
      BY <2>1, <3>1 DEF RowShape
  <2>2. QED
    BY <1>1, <2>1 DEF RowShape
<1>4. AnswersHold'
  <2>1. ASSUME NEW q \in Requests, q # r
        PROVE  /\ Told(q, "scan")' => Row(q)'.status \notin {"none", "pending"} /\ Mine(q)'
               /\ Told(q, "confirm")' => Row(q)'.token # none
               /\ Told(q, "deny")' => Row(q)'.status \in {"denied", "gone"} /\ Row(q)'.token = none
    BY <1>1, <2>1 DEF AnswersHold, Told, Row, Mine
  <2>2. CASE verdict'[r] = "ok"
    <3>1. code[r] \in Codes
      BY <2>2 DEF CallShape, TypeOK, Codes
    <3>2. QED
      BY <1>1, <2>1, <2>2, <3>1 DEF AnswersHold, Told, Row, Mine, Repeatable, RowShape
  <2>3. CASE verdict'[r] # "ok"
    BY <2>1, <2>3 DEF AnswersHold, Told
  <2>4. QED
    BY <2>2, <2>3
<1>5. QED
  BY <1>2, <1>3, <1>4

(* A call of an app keeps the invariant, and so do                            *)
LEMMA CallInv ==
    ASSUME IInv, NEW r \in Requests, NEW v \in Verbs, NEW u \in Users, NEW c \in Codes,
           Call(r, v, u, c)
    PROVE  IInv'
<1> USE DEF IInv
<1>1. /\ pc[r] = "idle" /\ c <= issued /\ verdict[r] = "none"
      /\ verb'[r] = v /\ user'[r] = u /\ code'[r] = c /\ verdict' = verdict
      /\ pc'[r] = IF v = "confirm" THEN "looking" ELSE "updating"
      /\ \A q \in Requests : q # r => /\ pc'[q] = pc[q] /\ verb'[q] = verb[q]
                                      /\ user'[q] = user[q] /\ code'[q] = code[q]
  BY DEF Call, Goto, TypeOK, CallShape
<1>2. UNCHANGED <<rows, panel, minted>>
  BY DEF Call
<1>3. TypeOK'
  BY DEF TypeOK, Call, Goto, rows, panel
<1>4. CallShape'
  BY <1>1, <1>2 DEF CallShape, rows, Codes
<1>5. QED
  BY <1>1, <1>2, <1>3, <1>4, AppStep

(* The steps that answer, look or mint without writing the row.               *)
LEMMA QuietInv ==
    ASSUME IInv, NEW r \in Requests,
           \/ Repeat(r) \/ Look(r) \/ Mint(r) \/ Abort(r)
           \/ (Scan(r) \/ Confirm(r) \/ Deny(r)) /\ row' = row /\ verdict'[r] # "ok"
    PROVE  IInv'
<1> USE DEF IInv
<1>1. UNCHANGED <<rows, panel, verb, user, code>>
  BY DEF Repeat, Look, Mint, Abort, Scan, Confirm, Deny, rows
<1>2. /\ pc[r] \notin {"idle", "done"} /\ code[r] \in Codes /\ code[r] \in 1..issued /\ user[r] \in Users
  <2>1. pc[r] \notin {"idle", "done"}
    BY DEF Repeat, Look, Mint, Abort, Scan, Confirm, Deny
  <2>2. QED
    BY <2>1 DEF CallShape, TypeOK, Codes
<1>3. /\ \A q \in Requests : q # r => pc'[q] = pc[q] /\ verdict'[q] = verdict[q]
      /\ pc'[r] # "idle" /\ minted \subseteq minted'
  BY DEF Repeat, Look, Mint, Abort, Scan, Confirm, Deny, Answer, Goto, TypeOK
<1>4. verdict'[r] = "ok" => /\ verb[r] # "deny" /\ Mine(r) /\ Row(r).status \in Repeatable(verb[r])
  <2>1. verdict[r] = "none"
    BY <1>2 DEF CallShape
  <2>2. CASE Repeat(r)
    BY <2>2 DEF Repeat, Answer, Goto, TypeOK, CallShape
  <2>3. CASE Look(r)
    BY <2>1, <2>3 DEF Look, Answer, Goto, TypeOK, CallShape, Repeatable
  <2>4. CASE Mint(r)
    BY <2>1, <2>4 DEF Mint
  <2>5. CASE Abort(r)
    BY <2>5 DEF Abort, Answer, TypeOK
  <2>6. QED
    BY <2>2, <2>3, <2>4, <2>5
<1>5. TypeOK'
  <2>1. CASE Repeat(r)
    BY <2>1 DEF Repeat, Answer, Goto, TypeOK, rows, panel, Lives
  <2>2. CASE Look(r)
    BY <2>2 DEF Look, Answer, Goto, TypeOK, rows, panel, Lives
  <2>3. CASE Mint(r)
    BY <1>2, <2>3 DEF Mint, Goto, TypeOK, rows, panel
  <2>4. CASE Abort(r)
    BY <2>4 DEF Abort, Answer, Goto, TypeOK, rows, panel, Lives
  <2>5. CASE (Scan(r) \/ Confirm(r)) /\ row' = row /\ verdict'[r] # "ok"
    BY <2>5 DEF Scan, Confirm, Answer, Goto, TypeOK, rows, panel, Lives
  <2>6. CASE Deny(r) /\ row' = row
    BY <2>6 DEF Deny, Answer, Goto, TypeOK, rows, panel, Lives
  <2>7. QED
    BY <2>1, <2>2, <2>3, <2>4, <2>5, <2>6
<1>6. CallShape'
  <2>1. ASSUME NEW q \in Requests, q # r
        PROVE  /\ pc'[q] # "done" => verdict'[q] = "none"
               /\ pc'[q] # "idle" => code'[q] \in 1..issued' /\ user'[q] \in Users
               /\ pc'[q] \in {"looking", "minting"} => verb'[q] = "confirm"
               /\ pc'[q] = "repeating" => verb'[q] # "deny"
               /\ pc'[q] = "updating" /\ verb'[q] = "confirm" => q \in minted'
    BY <1>1, <1>3, <2>1 DEF CallShape, rows
  <2>2. /\ pc'[r] # "done" => verdict'[r] = "none"
        /\ pc'[r] \in {"looking", "minting"} => verb[r] = "confirm"
        /\ pc'[r] = "repeating" => verb[r] # "deny"
        /\ pc'[r] = "updating" => r \in minted'
    <3>1. verdict[r] = "none"
      BY <1>2 DEF CallShape
    <3>2. CASE Look(r)
      BY <3>1, <3>2 DEF Look, Answer, Goto, TypeOK, CallShape
    <3>3. CASE Mint(r)
      BY <3>1, <3>3 DEF Mint, Goto, TypeOK
    <3>4. CASE Repeat(r) \/ Abort(r)
      BY <3>4 DEF Repeat, Abort, Answer, Goto, TypeOK
    <3>5. CASE Scan(r) \/ Confirm(r) \/ Deny(r)
      BY <3>1, <3>5 DEF Scan, Confirm, Deny, Answer, Goto, TypeOK
    <3>6. QED
      BY <3>2, <3>3, <3>4, <3>5
  <2>3. QED
    BY <1>1, <1>2, <2>1, <2>2 DEF CallShape, rows
<1>7. QED
  BY <1>1, <1>2, <1>3, <1>4, <1>5, <1>6, AppStep

(* A step of one request that rewrites its row and answers "ok".              *)
LEMMA RowStep ==
    ASSUME IInv, NEW r \in Requests, pc[r] = "updating",
           Row(r).status \in {"pending", "scanned"},
           NEW n \in [status: Statuses, user: Users \union {none}, token: Requests \union {none}],
           row' = [row EXCEPT ![code[r]] = n], Answer(r, "ok"),
           UNCHANGED <<life, issued, verb, user, code, minted, panel>>, UNCHANGED faults,
           \/ /\ verb[r] = "scan" /\ Row(r).status = "pending"
              /\ n.status = "scanned" /\ n.user = user[r] /\ n.token = none
           \/ /\ verb[r] = "confirm" /\ Row(r).status = "scanned" /\ Mine(r)
              /\ n.status = "authorized" /\ n.user = user[r] /\ n.token = r
           \/ /\ verb[r] = "deny"
              /\ n.status = "denied" /\ n.user = Row(r).user /\ n.token = none
    PROVE  IInv'
<1> USE DEF IInv
<1>1. /\ code[r] \in Codes /\ code[r] \in 1..issued /\ user[r] \in Users
      /\ Row(r).token = none
      /\ verb[r] = "confirm" => r \in minted
  BY DEF CallShape, TypeOK, Codes, RowShape, Row
<1>2. /\ row'[code[r]] = n
      /\ \A c \in Codes : c # code[r] => row'[c] = row[c]
  BY <1>1 DEF TypeOK
<1>3. /\ pc'[r] = "done" /\ verdict'[r] = "ok"
      /\ \A q \in Requests : q # r => pc'[q] = pc[q] /\ verdict'[q] = verdict[q]
  BY DEF Answer, Goto, TypeOK
<1>4. TypeOK'
  BY <1>1 DEF TypeOK, Answer, Goto, panel, Lives
<1>5. CallShape' /\ PanelShape'
  BY <1>1, <1>3 DEF CallShape, PanelShape, panel
<1>6. RowShape'
  <2>1. ASSUME NEW c \in Codes, c # code[r], row[c].token # none
        PROVE  LET t == row[c].token
               IN  t \in minted /\ pc'[t] # "idle" /\ code[t] = c /\ user[t] = row[c].user
    <3>1. row[c].token \in Requests
      BY <2>1 DEF TypeOK
    <3>2. QED
      BY <1>3, <2>1, <3>1 DEF RowShape
  <2>2. /\ n.status \in {"scanned", "denied"} => n.token = none
        /\ n.status \in {"scanned", "authorized", "denied"}
        /\ n.status = "authorized" => n.token # none
        /\ n.token # none => n.token = r /\ r \in minted /\ n.user = user[r]
    BY <1>1, ScanAssumption
  <2>3. ASSUME NEW c \in Codes, c # code[r]
        PROVE  /\ c \notin 1..issued => row'[c].status = "none"
               /\ row'[c].status \in {"none", "pending"} => row'[c].user = none
               /\ row'[c].status \in {"none", "pending", "scanned", "denied"} => row'[c].token = none
               /\ row'[c].status = "authorized" => row'[c].token # none
    BY <1>2, <2>3 DEF RowShape
  <2>4. ASSUME NEW c \in Codes, row'[c].token # none
        PROVE  LET t == row'[c].token
               IN  t \in minted /\ pc'[t] # "idle" /\ code[t] = c /\ user[t] = row'[c].user
    <3>1. CASE c = code[r]
      BY <1>2, <1>3, <2>2, <2>4, <3>1
    <3>2. CASE c # code[r]
      BY <1>2, <2>1, <2>4, <3>2
    <3>3. QED
      BY <3>1, <3>2
  <2>5. issued' = issued /\ minted' = minted /\ code' = code /\ user' = user
    OBVIOUS
  <2>6. /\ row'[code[r]].status \notin {"none", "pending"}
        /\ row'[code[r]].status \in {"scanned", "denied"} => row'[code[r]].token = none
        /\ row'[code[r]].status = "authorized" => row'[code[r]].token # none
    BY <1>2, <2>2
  <2>7. ASSUME NEW c \in Codes
        PROVE  /\ c \notin 1..issued => row'[c].status = "none"
               /\ row'[c].status \in {"none", "pending"} => row'[c].user = none
               /\ row'[c].status \in {"none", "pending", "scanned", "denied"} => row'[c].token = none
               /\ row'[c].status = "authorized" => row'[c].token # none
    <3>1. CASE c = code[r]
      <4>1. c \in 1..issued
        BY <1>1, <3>1
      <4>2. /\ row'[c].status \notin {"none", "pending"}
            /\ row'[c].status \in {"scanned", "denied"} => row'[c].token = none
            /\ row'[c].status = "authorized" => row'[c].token # none
        BY <2>6, <3>1, Zenon
      <4>3. QED
        BY <4>1, <4>2
    <3>2. CASE c # code[r]
      BY <2>3, <3>2
    <3>3. QED
      BY <3>1, <3>2
  <2>8. QED
    BY <2>4, <2>5, <2>7 DEF RowShape
<1>7. AnswersHold'
  <2>1. ASSUME NEW q \in Requests, q # r
        PROVE  /\ Told(q, "scan") => Row(q)'.status \notin {"none", "pending"} /\ row'[code[q]].user = user[q]
               /\ Told(q, "confirm") => Row(q)'.token # none
               /\ Told(q, "deny") => Row(q)'.status \in {"denied", "gone"} /\ Row(q)'.token = none
    <3>1. verdict[q] = "ok" => code[q] \in Codes
      BY DEF CallShape, TypeOK, Codes
    <3>2. CASE code[q] = code[r]
      BY <1>1, <1>2, <3>2 DEF AnswersHold, Told, Row, Mine
    <3>3. CASE code[q] # code[r]
      BY <1>2, <3>1, <3>3 DEF AnswersHold, Told, Row, Mine
    <3>4. QED
      BY <3>2, <3>3
  <2>2. /\ verb[r] = "scan" => n.status = "scanned" /\ n.user = user[r]
        /\ verb[r] = "confirm" => n.token = r /\ r # none
        /\ verb[r] = "deny" => n.status = "denied" /\ n.token = none
    BY ScanAssumption
  <2>3. QED
    BY <1>2, <1>3, <2>1, <2>2 DEF AnswersHold, Told, Row, Mine
<1>8. TokenPath'
  <2>1. ASSUME NEW t, NEW c \in Codes, row[c].token = t, t # none PROVE row'[c].token = t
    BY <1>1, <1>2, <2>1 DEF Row
  <2>2. QED
    BY <2>1 DEF TokenPath, panel
<1>9. QED
  BY <1>4, <1>5, <1>6, <1>7, <1>8

(* the conditional UPDATEs and the look that follows them,                    *)
LEMMA UpdateInv ==
    ASSUME IInv, NEW r \in Requests, Scan(r) \/ Confirm(r) \/ Deny(r)
    PROVE  IInv'
<1> USE DEF IInv
<1>1. /\ code[r] \in Codes /\ user[r] \in Users /\ verdict[r] # "ok"
      /\ Row(r) \in [status: Statuses, user: Users \union {none}, token: Requests \union {none}]
      /\ Row(r).status \in {"pending", "scanned"} => Row(r).token = none
  <2>1. pc[r] = "updating"
    BY DEF Scan, Confirm, Deny
  <2>2. QED
    BY <2>1 DEF CallShape, TypeOK, Codes, RowShape, Row
<1>2. CASE Scan(r)
  <2>1. CASE row' = row
    <3>1. Goto(r, "repeating") /\ UNCHANGED verdict
      BY <1>1, <1>2, <2>1 DEF Scan, Row, TypeOK
    <3>2. QED
      BY <1>1, <1>2, <2>1, <3>1, QuietInv
  <2>2. CASE row' # row
    <3> DEFINE n == [Row(r) EXCEPT !.status = "scanned", !.user = user[r]]
    <3>1. /\ Row(r).status = "pending" /\ Answer(r, "ok")
          /\ row' = [row EXCEPT ![code[r]].status = "scanned", ![code[r]].user = user[r]]
      BY <1>2, <2>2 DEF Scan
    <3>2. row' = [row EXCEPT ![code[r]] = n]
      BY <1>1, <3>1 DEF Row, TypeOK
    <3>3. /\ n \in [status: Statuses, user: Users \union {none}, token: Requests \union {none}]
          /\ n.status = "scanned" /\ n.user = user[r] /\ n.token = none
      BY <1>1, <3>1 DEF Statuses
    <3> HIDE DEF n
    <3>4. QED
      BY <1>2, <3>1, <3>2, <3>3, RowStep DEF Scan
  <2>3. QED
    BY <2>1, <2>2
<1>3. CASE Confirm(r)
  <2>1. CASE row' = row
    <3>1. Goto(r, "repeating") /\ UNCHANGED verdict
      BY <1>1, <1>3, <2>1, ScanAssumption DEF Confirm, Confirmable, Row, TypeOK
    <3>2. QED
      BY <1>1, <1>3, <2>1, <3>1, QuietInv
  <2>2. CASE row' # row
    <3> DEFINE n == [Row(r) EXCEPT !.status = "authorized", !.token = r]
    <3>1. /\ Row(r).status = "scanned" /\ Mine(r) /\ Answer(r, "ok")
          /\ row' = [row EXCEPT ![code[r]].status = "authorized", ![code[r]].token = r]
      BY <1>3, <2>2 DEF Confirm, Confirmable
    <3>2. row' = [row EXCEPT ![code[r]] = n]
      BY <1>1, <3>1 DEF Row, TypeOK
    <3>3. /\ n \in [status: Statuses, user: Users \union {none}, token: Requests \union {none}]
          /\ n.status = "authorized" /\ n.user = user[r] /\ n.token = r
      BY <1>1, <3>1 DEF Statuses, Mine
    <3> HIDE DEF n
    <3>4. QED
      BY <1>3, <3>1, <3>2, <3>3, RowStep DEF Confirm
  <2>3. QED
    BY <2>1, <2>2
<1>4. CASE Deny(r)
  <2>1. CASE row' = row
    <3>1. Answer(r, "refused")
      BY <1>1, <1>4, <2>1 DEF Deny, Row, TypeOK
    <3>2. verdict'[r] # "ok"
      BY <3>1 DEF Answer, TypeOK
    <3>3. QED
      BY <1>4, <2>1, <3>2, QuietInv
  <2>2. CASE row' # row
    <3> DEFINE n == [Row(r) EXCEPT !.status = "denied"]
    <3>1. /\ Row(r).status \in {"pending", "scanned"} /\ Answer(r, "ok")
          /\ row' = [row EXCEPT ![code[r]].status = "denied"]
      BY <1>4, <2>2 DEF Deny
    <3>2. row' = [row EXCEPT ![code[r]] = n]
      BY <1>1, <3>1 DEF Row, TypeOK
    <3>3. /\ n \in [status: Statuses, user: Users \union {none}, token: Requests \union {none}]
          /\ n.status = "denied" /\ n.user = Row(r).user /\ n.token = none
      BY <1>1, <3>1 DEF Statuses
    <3> HIDE DEF n
    <3>4. QED
      BY <1>4, <3>1, <3>2, <3>3, RowStep DEF Deny
  <2>3. QED
    BY <2>1, <2>2
<1>5. QED
  BY <1>2, <1>3, <1>4

-----------------------------------------------------------------------------
(* The panel, time and clean-up *)

(* What concerns rows and apps does not depend on the panel, nor on time.     *)
LEMMA AppsKept ==
    ASSUME CallShape, RowShape, AnswersHold, UNCHANGED <<row, issued, apps>>
    PROVE  CallShape' /\ RowShape' /\ AnswersHold'
<1>1. CallShape'
  BY DEF CallShape, apps
<1>2. RowShape'
  BY DEF RowShape, apps
<1>3. AnswersHold'
  BY DEF AnswersHold, Told, Row, Mine, apps
<1>4. QED
  BY <1>1, <1>2, <1>3

(* what the page does,                                                        *)
LEMMA PanelInv ==
    ASSUME IInv, Fire \/ HandleInit \/ HandleStatus \/ CallFails \/ Unmount
    PROVE  IInv'
<1> USE DEF IInv
<1>1. UNCHANGED <<rows, apps>>
  BY DEF Fire, HandleInit, HandleStatus, CallFails, Unmount
<1>2. CallShape' /\ RowShape' /\ AnswersHold'
  BY <1>1, AppsKept DEF rows
<1>3. NoReply \in Replies /\ NoReply.token = none
  BY DEF NoReply, Replies, Statuses
<1>4. CASE Fire
  <2>1. timer = "poll" => shown \in Codes
    BY DEF PanelShape, TypeOK, Codes
  <2>2. TypeOK'
    BY <1>1, <1>4, <2>1 DEF Fire, TypeOK, rows, apps, Lives
  <2>3. PanelShape' /\ TokenPath'
    BY <1>1, <1>4 DEF Fire, PanelShape, TokenPath, TypeOK, rows, apps
  <2>4. QED
    BY <1>2, <2>2, <2>3
<1>5. CASE HandleInit
  <2>1. issued \in Codes /\ issued \in 1..issued
    BY <1>5 DEF HandleInit, PanelShape, Codes
  <2>2. TypeOK'
    BY <1>1, <1>3, <1>5, <2>1 DEF HandleInit, Received, Unless, TypeOK, rows, apps, Lives
  <2>3. PanelShape' /\ TokenPath'
    BY <1>1, <1>3, <1>5, <2>1 DEF HandleInit, Received, Unless, PanelShape, TokenPath, rows, apps
  <2>4. QED
    BY <1>2, <2>2, <2>3
<1>6. CASE HandleStatus
  <2>1. reply.token \in Requests \union {none} /\ (saved' = saved \/ saved' = reply.token)
    BY <1>6 DEF HandleStatus, Stored, TypeOK, Replies
  <2>2. timer' \in {"none", "start", "poll"}
    BY <1>6 DEF HandleStatus, Unless
  <2>3. TypeOK'
    BY <1>1, <1>3, <1>6, <2>1, <2>2 DEF HandleStatus, Received, TypeOK, rows, apps, Lives
  <2>4. PanelShape'
    BY <1>1, <1>3, <1>6, <2>2 DEF HandleStatus, Received, PanelShape, rows, apps
  <2>5. TokenPath'
    BY <1>1, <1>3, <1>6, <2>1 DEF HandleStatus, Received, TokenPath, rows, apps
  <2>6. QED
    BY <1>2, <2>3, <2>4, <2>5
<1>7. CASE CallFails
  <2>1. timer' \in {"none", "start", "poll"} /\ (timer' = "poll" => flight = "status")
    BY <1>7 DEF CallFails, Unless, TypeOK
  <2>2. TypeOK'
    BY <1>1, <1>3, <1>7, <2>1 DEF CallFails, Received, TypeOK, rows, apps, Lives
  <2>3. /\ flight' = "none" /\ reply' = NoReply
        /\ UNCHANGED <<row, issued, shown, saved>>
    BY <1>1, <1>7 DEF CallFails, Received, rows
  <2>4. PanelShape'
    BY <2>1, <2>3 DEF PanelShape
  <2>5. TokenPath'
    BY <1>3, <2>3 DEF TokenPath
  <2>6. QED
    BY <1>2, <2>2, <2>4, <2>5
<1>8. CASE Unmount
  <2>1. TypeOK'
    BY <1>1, <1>8 DEF Unmount, TypeOK, rows, apps
  <2>2. PanelShape' /\ TokenPath'
    BY <1>1, <1>8 DEF Unmount, PanelShape, TokenPath, rows, apps
  <2>3. QED
    BY <1>2, <2>1, <2>2
<1>9. QED
  BY <1>4, <1>5, <1>6, <1>7, <1>8

(* the creation of a code,                                                    *)
LEMMA ServeInitInv ==
    ASSUME IInv, ServeInit
    PROVE  IInv'
<1> USE DEF IInv
<1> DEFINE new == issued + 1
<1>1. /\ new \in Codes /\ new \notin 1..issued /\ issued \in Nat
      /\ issued' \in Nat /\ issued' = new /\ issued' \in 0..MaxCodes
      /\ \A c \in 1..issued : c \in 1..issued' /\ c # new
      /\ \A c \in Codes : c \notin 1..issued' => c \notin 1..issued /\ c # new
  BY ScanAssumption DEF ServeInit, TypeOK, Codes
<1> HIDE DEF new
<1>2. /\ row[new].status = "none" /\ row[new].user = none /\ row[new].token = none
  BY <1>1 DEF RowShape
<1>3. /\ row' = [row EXCEPT ![new].status = "pending"]
      /\ UNCHANGED <<life, apps, shown, timer, flight, sent, stopped, saved, faults>>
      /\ reply' = [NoReply EXCEPT !.status = "pending"]
  BY DEF ServeInit, new
<1>4. /\ row'[new].status = "pending" /\ row'[new].user = none /\ row'[new].token = none
      /\ \A c \in Codes : c # new => row'[c] = row[c]
      /\ row' \in [Codes -> [status: Statuses, user: Users \union {none},
                             token: Requests \union {none}]]
  BY <1>1, <1>2, <1>3 DEF TypeOK, Statuses
<1>5. reply' \in Replies /\ reply'.token = none
  BY <1>3 DEF NoReply, Replies, Statuses
<1>6. TypeOK'
  BY <1>1, <1>3, <1>4, <1>5 DEF TypeOK, apps
<1>7. CallShape'
  BY <1>1, <1>3 DEF CallShape, apps
<1>8. PanelShape'
  <2>1. flight = "init" /\ issued' \in Codes
    BY <1>1 DEF ServeInit
  <2>2. shown \in 1..issued => shown \in 1..issued'
    BY <1>1
  <2>3. QED
    BY <1>3, <2>1, <2>2 DEF PanelShape
<1>9. RowShape'
  <2>1. ASSUME NEW c \in Codes, row'[c].token # none
        PROVE  c # new /\ row'[c] = row[c]
    BY <1>4, <2>1
  <2>2. ASSUME NEW c \in Codes
        PROVE  /\ c \notin 1..issued' => row'[c].status = "none"
               /\ row'[c].status \in {"none", "pending"} => row'[c].user = none
               /\ row'[c].status \in {"none", "pending", "scanned", "denied"} => row'[c].token = none
               /\ row'[c].status = "authorized" => row'[c].token # none
    BY <1>1, <1>4 DEF RowShape
  <2>3. QED
    BY <1>3, <2>1, <2>2 DEF RowShape, apps
<1>10. AnswersHold'
  <2>1. ASSUME NEW r \in Requests, verdict[r] = "ok"
        PROVE  code[r] \in Codes /\ code[r] # new /\ row'[code[r]] = row[code[r]]
    BY <1>1, <1>4, <2>1 DEF CallShape, TypeOK, Codes
  <2>2. QED
    BY <1>3, <2>1 DEF AnswersHold, Told, Row, Mine, apps
<1>11. TokenPath'
  <2>1. ASSUME NEW c \in Codes, row[c].token # none PROVE row'[c].token = row[c].token
    BY <1>2, <1>4, <2>1
  <2>2. QED
    BY <1>3, <1>5, <2>1 DEF TokenPath
<1>12. QED
  BY <1>6, <1>7, <1>8, <1>9, <1>10, <1>11

(* the answer to a poll,                                                      *)
LEMMA ServeStatusInv ==
    ASSUME IInv, ServeStatus
    PROVE  IInv'
<1> USE DEF IInv
<1>1. shown \in Codes /\ flight = "status"
  BY DEF ServeStatus, PanelShape, TypeOK, Codes
<1>2. PICK s \in Statuses \union {"expired"} :
        reply' = [status |-> s, token |-> IF s = "authorized" THEN row[shown].token ELSE none]
  BY <1>1 DEF ServeStatus, TypeOK, Statuses
<1>3. UNCHANGED <<rows, apps, shown, timer, flight, sent, stopped, saved, faults>>
  BY DEF ServeStatus
<1>4. /\ reply'.token = none \/ reply'.token = row[shown].token
      /\ reply' \in Replies
  BY <1>1, <1>2 DEF TypeOK, Replies
<1>5. TypeOK'
  BY <1>3, <1>4 DEF TypeOK, rows, apps
<1>6. PanelShape' /\ TokenPath'
  BY <1>1, <1>3, <1>4 DEF PanelShape, TokenPath, rows
<1>7. QED
  BY <1>3, <1>5, <1>6, AppsKept DEF rows

(* and the clean-up job.                                                      *)
LEMMA SweepInv ==
    ASSUME IInv, Sweep
    PROVE  IInv'
<1> USE DEF IInv
<1>1. UNCHANGED <<life, issued, apps, panel, faults>>
  BY DEF Sweep
<1>2. /\ row' \in [Codes -> [status: Statuses, user: Users \union {none},
                             token: Requests \union {none}]]
      /\ \A c \in Codes : /\ row'[c].user = row[c].user /\ row'[c].token = row[c].token
                          /\ \/ row'[c].status = row[c].status
                             \/ row'[c].status = "gone" /\ c \in 1..issued
  BY DEF Sweep, TypeOK, Statuses, Codes
<1>3. TypeOK' /\ CallShape' /\ PanelShape'
  BY <1>1, <1>2 DEF TypeOK, CallShape, PanelShape, apps, panel
<1>4. RowShape'
  BY <1>1, <1>2 DEF RowShape, apps
<1>5. AnswersHold'
  <2>1. ASSUME NEW r \in Requests, verdict[r] = "ok" PROVE code[r] \in Codes
    BY <2>1 DEF CallShape, TypeOK, Codes
  <2>2. QED
    BY <1>1, <1>2, <2>1 DEF AnswersHold, Told, Row, Mine, apps
<1>6. TokenPath'
  BY <1>1, <1>2 DEF TokenPath, panel
<1>7. QED
  BY <1>3, <1>4, <1>5, <1>6

(* Every step keeps the invariant.                                            *)
LEMMA NextInv == IInv /\ [Next]_vars => IInv'
<1> SUFFICES ASSUME IInv, [Next]_vars PROVE IInv'
  OBVIOUS
<1>1. ASSUME NEW r \in Requests, Serve(r) \/ Abort(r) PROVE IInv'
  BY <1>1, QuietInv, UpdateInv DEF Serve
<1>2. CASE Panel \/ CallFails \/ Unmount
  BY <1>2, PanelInv, ServeInitInv, ServeStatusInv DEF Panel
<1>3. ASSUME NEW c \in Codes, Expire(c) \/ PassGrace(c) PROVE IInv'
  <2>1. UNCHANGED <<row, issued, apps, panel, faults>>
    BY <1>3 DEF Expire, PassGrace, Ages
  <2>2. TypeOK'
    BY <1>3, <2>1 DEF IInv, Expire, PassGrace, Ages, TypeOK, Lives, apps, panel
  <2>3. PanelShape' /\ TokenPath'
    BY <2>1 DEF IInv, PanelShape, TokenPath, panel
  <2>4. QED
    BY <2>1, <2>2, <2>3, AppsKept DEF IInv
<1>4. CASE UNCHANGED vars
  <2>1. TypeOK' /\ PanelShape' /\ TokenPath'
    BY <1>4 DEF IInv, TypeOK, PanelShape, TokenPath, vars, rows, apps, panel
  <2>2. QED
    BY <1>4, <2>1, AppsKept DEF IInv, vars, rows
<1>5. QED
  BY <1>1, <1>2, <1>3, <1>4, CallInv, SweepInv DEF Next

(* The invariant holds in every instance.                                     *)
LEMMA InvHolds == Spec => []IInv
BY InitInv, NextInv, PTL DEF Spec

(* Every variable keeps its type.                                             *)
THEOREM TypeCorrect == Spec => []TypeOK
<1>1. IInv => TypeOK
  BY DEF IInv
<1>2. QED
  BY <1>1, InvHolds, PTL

(* A token in a row or in the browser is a session of the user every app told *)
(* "scanned" belongs to.                                                      *)
THEOREM OnlyTheScannersSession == Spec => []RightSession
<1>1. IInv => RightSession
  <2> SUFFICES ASSUME IInv, NEW t \in Handed
               PROVE  /\ t \in minted
                      /\ \A r \in Requests : Told(r, "scan") /\ code[r] = code[t] => user[r] = user[t]
    BY DEF RightSession
  <2>1. PICK c \in Codes : row[c].token = t /\ t # none
    BY DEF Handed, IInv, TokenPath
  <2>2. t \in minted /\ code[t] = c /\ user[t] = row[c].user
    BY <2>1 DEF IInv, RowShape
  <2>3. QED
    BY <2>2 DEF IInv, AnswersHold, Mine, Row
<1>2. QED
  BY <1>1, InvHolds, PTL

(* Authorized and denied are never both reported of one code.                 *)
THEOREM AppsAgree == Spec => []AnswersAgree
<1>1. IInv => AnswersAgree
  BY DEF IInv, AnswersHold, AnswersAgree, Row
<1>2. QED
  BY <1>1, InvHolds, PTL

(* A decided row keeps its decision and its token until it is swept.          *)
THEOREM DecisionStands == Spec => DecidedIsFinal
<1>1. IInv /\ [Next]_vars =>
        [\A c \in Codes : row[c].status \in {"authorized", "denied"} =>
           /\ row'[c].status \in {row[c].status, "gone"}
           /\ row'[c].token = row[c].token]_vars
  <2> SUFFICES ASSUME IInv, [Next]_vars, NEW c \in Codes,
                      row[c].status \in {"authorized", "denied"}
               PROVE  /\ row'[c].status \in {row[c].status, "gone"}
                      /\ row'[c].token = row[c].token
    OBVIOUS
  <2>1. ASSUME NEW r \in Requests, Scan(r) \/ Confirm(r) \/ Deny(r)
        PROVE  row'[c] = row[c]
    <3>1. row' = row \/ (row' # row /\ code[r] # c)
      BY <2>1 DEF Scan, Confirm, Confirmable, Deny, Row
    <3>2. QED
      BY <2>1, <3>1 DEF IInv, TypeOK, Scan, Confirm, Deny
  <2>2. CASE ServeInit
    <3>1. issued + 1 \notin 1..issued /\ c \in 1..issued
      BY DEF IInv, TypeOK, RowShape
    <3>2. QED
      BY <2>2, <3>1 DEF ServeInit, IInv, TypeOK
  <2>3. CASE Sweep
    BY <2>3 DEF Sweep
  <2>4. CASE row' = row
    BY <2>4
  <2>5. QED
    BY <2>1, <2>2, <2>3, <2>4
       DEF Next, Serve, Panel, Call, Repeat, Look, Mint, Abort, Fire, ServeStatus, HandleInit,
           HandleStatus, CallFails, Unmount, Expire, PassGrace, Ages, vars, rows
<1>2. QED
  BY <1>1, InvHolds, PTL DEF Spec, DecidedIsFinal
(* A panel that has been left stores no token any more, whatever answer to    *)
(* its last poll still arrives.                                               *)
THEOREM LeftPanelStoresNothing == Spec => NoLoginAfterUnmount
<1>1. [Next]_vars => [stopped => saved' = saved]_vars
  <2> SUFFICES ASSUME Next, stopped PROVE saved' = saved
    BY DEF vars, panel
  <2>1. CASE HandleStatus
    BY <2>1 DEF HandleStatus, Stored
  <2>2. QED
    BY <2>1 DEF Next, Serve, Panel, Call, Scan, Repeat, Look, Mint, Confirm, Deny, Abort, Fire,
                ServeInit, ServeStatus, HandleInit, CallFails, Unmount, Expire, PassGrace, Ages,
                Sweep, panel
<1>2. QED
  BY <1>1, PTL DEF Spec, NoLoginAfterUnmount

-----------------------------------------------------------------------------
(* ScanLogin implements SignInPromise *)

(* A code that is bound to a user stays bound to him.                         *)
LEMMA TakerStays ==
    ASSUME IInv, [Next]_vars, NEW c \in Codes, row[c].user # none
    PROVE  row'[c].user = row[c].user
<1> USE DEF IInv
<1>1. row[c].status \notin {"none", "pending"} /\ c \in 1..issued
  BY DEF RowShape
<1>2. CASE ServeInit
  <2>1. issued + 1 \notin 1..issued
    BY DEF TypeOK
  <2>2. QED
    BY <1>1, <1>2, <2>1 DEF ServeInit, TypeOK
<1>3. ASSUME NEW r \in Requests, Scan(r) PROVE row'[c].user = row[c].user
  <2>1. row' = row \/ code[r] # c
    BY <1>1, <1>3 DEF Scan, Row
  <2>2. QED
    BY <1>3, <2>1 DEF Scan, TypeOK
<1>4. ASSUME NEW r \in Requests, Confirm(r) \/ Deny(r) PROVE row'[c].user = row[c].user
  BY <1>4 DEF Confirm, Deny, TypeOK
<1>5. CASE Sweep
  BY <1>5 DEF Sweep
<1>6. CASE row' = row
  BY <1>6
<1>7. QED
  BY <1>2, <1>3, <1>4, <1>5, <1>6
     DEF Next, Serve, Panel, Call, Repeat, Look, Mint, Abort, Fire, ServeStatus, HandleInit,
         HandleStatus, CallFails, Unmount, Expire, PassGrace, Ages, vars, rows

(* A request mints once, for the user of the row it has looked at.            *)
LEMMA MintsStep == IInv /\ MintsForScanner /\ [Next]_vars => MintsForScanner'
<1> SUFFICES ASSUME IInv, MintsForScanner, [Next]_vars, NEW r \in Requests
             PROVE  /\ pc'[r] \in {"idle", "looking", "minting"} => r \notin minted'
                    /\ pc'[r] = "minting" => row'[code'[r]].user = user'[r]
  BY DEF MintsForScanner, Mine, Row
<1> USE DEF IInv
<1>1. pc[r] = "minting" => /\ code[r] \in Codes
                           /\ row'[code[r]].user = user[r]
  <2>1. pc[r] = "minting" => code[r] \in Codes /\ row[code[r]].user = user[r] /\ user[r] # none
    BY ScanAssumption DEF MintsForScanner, Mine, Row, CallShape, Codes, TypeOK
  <2>2. QED
    BY <2>1, TakerStays
<1>2. CASE UNCHANGED <<pc, user, code, minted>>
  BY <1>1, <1>2 DEF MintsForScanner
<1>3. ASSUME NEW q \in Requests, NEW v \in Verbs, NEW u \in Users, NEW c \in Codes, Call(q, v, u, c)
      PROVE  /\ pc'[r] \in {"idle", "looking", "minting"} => r \notin minted'
             /\ pc'[r] = "minting" => row'[code'[r]].user = user'[r]
  <2>1. CASE q = r
    BY <1>3, <2>1 DEF Call, Goto, TypeOK, MintsForScanner
  <2>2. CASE q # r
    BY <1>1, <1>3, <2>2 DEF Call, Goto, TypeOK, MintsForScanner
  <2>3. QED
    BY <2>1, <2>2
<1>4. ASSUME NEW q \in Requests, Serve(q) \/ Abort(q)
      PROVE  /\ pc'[r] \in {"idle", "looking", "minting"} => r \notin minted'
             /\ pc'[r] = "minting" => row'[code'[r]].user = user'[r]
  <2>1. UNCHANGED <<user, code>>
    BY <1>4 DEF Serve, Scan, Repeat, Look, Mint, Confirm, Deny, Abort
  <2>2. CASE q # r
    <3>1. pc'[r] = pc[r] /\ (r \in minted' => r \in minted)
      BY <1>4, <2>2 DEF Serve, Scan, Repeat, Look, Mint, Confirm, Deny, Abort, Answer, Goto, TypeOK
    <3>2. QED
      BY <1>1, <2>1, <3>1 DEF MintsForScanner
  <2>3. CASE q = r /\ Look(r)
    <3>1. UNCHANGED <<row, minted>> /\ (pc'[r] = "minting" => Mine(r))
      BY <2>3 DEF Look, Answer, Goto, TypeOK, rows
    <3>2. r \notin minted
      BY <2>3 DEF Look, MintsForScanner
    <3>3. QED
      BY <2>1, <3>1, <3>2 DEF Mine, Row
  <2>4. CASE q = r /\ ~Look(r)
    <3>1. pc'[r] \notin {"idle", "looking", "minting"}
      BY <1>4, <2>4 DEF Serve, Scan, Repeat, Mint, Confirm, Deny, Abort, Answer, Goto, TypeOK
    <3>2. QED
      BY <3>1
  <2>5. QED
    BY <2>2, <2>3, <2>4
<1>5. CASE ~(\E q \in Requests : \/ \E v \in Verbs, u \in Users, c \in Codes : Call(q, v, u, c)
                                \/ Serve(q) \/ Abort(q))
  <2>1. UNCHANGED <<pc, user, code, minted>>
    BY <1>5 DEF Next, Panel, Fire, ServeInit, ServeStatus, HandleInit, HandleStatus, CallFails,
                Unmount, Expire, PassGrace, Ages, Sweep, vars, apps
  <2>2. QED
    BY <1>2, <2>1
<1>6. QED
  BY <1>3, <1>4, <1>5
(* What is issued has a row, and an answer of "authorized" its token.         *)
LEMMA AnswersCompleteStep == IInv /\ AnswersComplete /\ [Next]_vars => AnswersComplete'
<1> SUFFICES ASSUME IInv, AnswersComplete, [Next]_vars
             PROVE  AnswersComplete'
  OBVIOUS
<1> USE DEF IInv
<1>1. issued \in Nat /\ 1..issued \subseteq Codes
  BY ScanAssumption DEF TypeOK, Codes
<1>2. CASE ServeInit
  <2>1. /\ issued + 1 \in Codes /\ issued' = issued + 1
        /\ \A c \in 1..issued' : c \in 1..issued \/ c = issued + 1
    BY <1>1, <1>2, ScanAssumption DEF ServeInit, TypeOK, Codes
  <2>2. \A c \in 1..issued' : row'[c].status # "none"
    BY <1>1, <1>2, <2>1 DEF ServeInit, TypeOK, AnswersComplete
  <2>3. reply'.status # "authorized"
    BY <1>2 DEF ServeInit, NoReply
  <2>4. QED
    BY <2>2, <2>3 DEF AnswersComplete
<1>3. CASE ServeStatus
  <2>1. shown \in Codes
    BY <1>3 DEF ServeStatus, PanelShape, TypeOK, Codes
  <2>2. reply'.status = "authorized" =>
          row[shown].status = "authorized" /\ reply'.token = row[shown].token
    BY <1>3 DEF ServeStatus
  <2>3. UNCHANGED rows
    BY <1>3 DEF ServeStatus
  <2>4. QED
    BY <2>1, <2>2, <2>3 DEF AnswersComplete, RowShape, rows
<1>4. ASSUME NEW r \in Requests, Scan(r) \/ Confirm(r) \/ Deny(r)
      PROVE  AnswersComplete'
  <2>1. \A c \in Codes : row[c].status # "none" => row'[c].status # "none"
    BY <1>4 DEF Scan, Confirm, Deny, TypeOK
  <2>2. UNCHANGED <<issued, reply>>
    BY <1>4 DEF Scan, Confirm, Deny, panel
  <2>3. QED
    BY <1>1, <2>1, <2>2 DEF AnswersComplete
<1>5. CASE Sweep
  BY <1>1, <1>5 DEF Sweep, AnswersComplete, panel
<1>6. CASE UNCHANGED <<row, issued>> /\ (reply' = reply \/ reply' = NoReply)
  BY <1>6 DEF AnswersComplete, NoReply
<1>7. QED
  BY <1>2, <1>3, <1>4, <1>5, <1>6
     DEF Next, Serve, Panel, Call, Repeat, Look, Mint, Abort, Fire, HandleInit, Received,
         HandleStatus, CallFails, Unmount, Expire, PassGrace, Ages, vars, rows, panel

(* Whose a session is changes only when a request mints it.                   *)
LEMMA OwnersStep ==
    ASSUME IInv, MintsForScanner, [Next]_vars, NEW r \in Requests
    PROVE  \/ OwnerOf(r)' = OwnerOf(r)
           \/ Mint(r)
<1> USE DEF IInv
<1>1. ASSUME NEW q \in Requests, NEW v \in Verbs, NEW u \in Users, NEW c \in Codes, Call(q, v, u, c)
      PROVE  OwnerOf(r)' = OwnerOf(r)
  BY <1>1 DEF Call, MintsForScanner, OwnerOf, TypeOK
<1>2. ASSUME NEW q \in Requests, q # r, Mint(q)
      PROVE  OwnerOf(r)' = OwnerOf(r)
  BY <1>2 DEF Mint, OwnerOf
<1>3. CASE UNCHANGED <<minted, user>>
  BY <1>3 DEF OwnerOf
<1>4. QED
  BY <1>1, <1>2, <1>3
     DEF Next, Serve, Panel, Scan, Repeat, Look, Confirm, Deny, Abort, Fire, ServeInit,
         ServeStatus, HandleInit, HandleStatus, CallFails, Unmount, Expire, PassGrace, Ages,
         Sweep, vars, apps

(* A step that writes no row, mints nothing and leaves the browser alone is   *)
(* no step of the promise.                                                    *)
LEMMA NothingPromised ==
    ASSUME UNCHANGED <<row, saved, stopped>>,
           \A r \in Requests : OwnerOf(r)' = OwnerOf(r)
    PROVE  UNCHANGED Promise!vars
BY DEF Promise!vars, PhaseOf

(* A row that stays has the phase it had.                                     *)
LEMMA PhaseStays ==
    ASSUME NEW c \in Codes, row'[c] = row[c]
    PROVE  PhaseOf(c)' = PhaseOf(c)
BY DEF PhaseOf

(* The steps of the promise, one code at a time.                              *)
LEMMA StepPromised ==
    ASSUME NEW c \in Codes,
           \/ Promise!Offer(c)
           \/ Promise!Receive(c)
           \/ \E u \in Users : Promise!Take(c, u)
           \/ \E t \in Requests : Promise!Mint(t, c) \/ Promise!Sign(c, t)
    PROVE  Promise!Next
BY Zenon DEF Promise!Next

(* The conditional UPDATE of a scan is the taking of the code,                *)
LEMMA ScanPromised ==
    ASSUME IInv, NEW r \in Requests, Scan(r),
           \A q \in Requests : OwnerOf(q)' = OwnerOf(q)
    PROVE  [Promise!Next]_(Promise!vars)
<1> USE DEF IInv
<1>1. code[r] \in Codes /\ user[r] \in Users /\ UNCHANGED <<saved, stopped>>
  BY DEF Scan, CallShape, Codes, TypeOK, panel
<1>2. CASE row' = row
  BY <1>1, <1>2, NothingPromised
<1>3. CASE row' # row
  <2>1. PICK c \in Codes, u \in Users : c = code[r] /\ u = user[r]
    BY <1>1
  <2>2. /\ row[c].status = "pending" /\ row[c].token = none
        /\ row'[c].status = "scanned" /\ row'[c].user = u /\ row'[c].token = none
        /\ \A d \in Codes : d # c => row'[d] = row[d]
    BY <1>3, <2>1 DEF Scan, Row, RowShape, TypeOK
  <2>3. /\ PhaseOf(c) = "offered" /\ PhaseOf(c)' = "taken"
        /\ \A d \in Codes : d # c => PhaseOf(d)' = PhaseOf(d) /\ row'[d].user = row[d].user
        /\ \A d \in Codes : row'[d].token = row[d].token
    BY <2>2 DEF PhaseOf
  <2>4. Promise!Take(c, u)
    BY <1>1, <2>2, <2>3 DEF Promise!Take
  <2>5. QED
    BY <2>4, StepPromised
<1>4. QED
  BY <1>2, <1>3

(* that of a confirm hands the scanner's own session over,                    *)
LEMMA ConfirmPromised ==
    ASSUME IInv, NEW r \in Requests, Confirm(r),
           \A q \in Requests : OwnerOf(q)' = OwnerOf(q)
    PROVE  [Promise!Next]_(Promise!vars)
<1> USE DEF IInv
<1>1. /\ code[r] \in Codes /\ r \in minted /\ r # none
      /\ UNCHANGED <<saved, stopped>>
  BY ScanAssumption DEF Confirm, CallShape, Codes, TypeOK, panel
<1>2. CASE row' = row
  BY <1>1, <1>2, NothingPromised
<1>3. CASE row' # row
  <2>1. PICK c \in Codes : c = code[r]
    BY <1>1
  <2>2. /\ row[c].status = "scanned" /\ row[c].token = none /\ row[c].user = user[r]
        /\ row'[c].status = "authorized" /\ row'[c].token = r
        /\ \A d \in Codes : d # c => row'[d] = row[d]
        /\ \A d \in Codes : row'[d].user = row[d].user
    BY <1>3, <2>1 DEF Confirm, Confirmable, Mine, Row, RowShape, TypeOK
  <2>3. /\ PhaseOf(c) = "taken" /\ PhaseOf(c)' = "signed"
        /\ \A d \in Codes : d # c => PhaseOf(d)' = PhaseOf(d) /\ row'[d].token = row[d].token
    BY <1>1, <2>2 DEF PhaseOf
  <2>4. OwnerOf(r) = row[c].user
    BY <1>1, <2>2 DEF OwnerOf
  <2>5. \A d \in Codes : row[d].token # r
    BY <1>1, <2>1, <2>2 DEF RowShape
  <2>6. Promise!Sign(c, r)
    BY <1>1, <2>2, <2>3, <2>4, <2>5 DEF Promise!Sign
  <2>7. QED
    BY <2>6, StepPromised
<1>4. QED
  BY <1>2, <1>3

(* a mint makes a session for who has taken the code,                         *)
LEMMA MintPromised ==
    ASSUME IInv, MintsForScanner, NEW r \in Requests, Mint(r)
    PROVE  [Promise!Next]_(Promise!vars)
<1> USE DEF IInv
<1>1. /\ code[r] \in Codes /\ user[r] \in Users /\ r \notin minted
      /\ row[code[r]].user = user[r] /\ user[r] # none
  BY ScanAssumption DEF Mint, MintsForScanner, Mine, Row, CallShape, Codes, TypeOK
<1>2. PICK c \in Codes : c = code[r]
  BY <1>1
<1>3. /\ OwnerOf(r) = none /\ OwnerOf(r)' = row[c].user
      /\ \A q \in Requests : q # r => OwnerOf(q)' = OwnerOf(q)
  BY <1>1, <1>2 DEF Mint, OwnerOf
<1>4. UNCHANGED <<row, saved, stopped>>
  BY DEF Mint, rows, panel
<1>5. \A d \in Codes : PhaseOf(d)' = PhaseOf(d)
  BY <1>4 DEF PhaseOf
<1>6. Promise!Mint(r, c)
  BY <1>1, <1>2, <1>3, <1>4, <1>5 DEF Promise!Mint
<1>7. QED
  BY <1>6, StepPromised

(* a denial and the clean-up close codes,                                     *)
LEMMA ClosePromised ==
    ASSUME UNCHANGED <<saved, stopped>>,
           \A q \in Requests : OwnerOf(q)' = OwnerOf(q),
           \A c \in Codes :
               /\ row'[c].user = row[c].user /\ row'[c].token = row[c].token
               /\ \/ PhaseOf(c)' = PhaseOf(c)
                  \/ PhaseOf(c) \in {"offered", "taken"} /\ PhaseOf(c)' = "closed"
    PROVE  Promise!Next
<1>1. PICK S \in SUBSET Codes : S = {c \in Codes : PhaseOf(c)' # PhaseOf(c)}
  OBVIOUS
<1>2. Promise!Close(S)
  BY <1>1 DEF Promise!Close
<1>3. QED
  BY <1>2, Zenon DEF Promise!Next

(* A denial closes the code it is about.                                      *)
LEMMA DenyPromised ==
    ASSUME IInv, NEW r \in Requests, Deny(r),
           \A q \in Requests : OwnerOf(q)' = OwnerOf(q)
    PROVE  [Promise!Next]_(Promise!vars)
<1> USE DEF IInv
<1>1. code[r] \in Codes /\ UNCHANGED <<saved, stopped>>
  BY DEF Deny, CallShape, Codes, TypeOK, panel
<1>2. CASE row' = row
  BY <1>1, <1>2, NothingPromised
<1>3. CASE row' # row
  <2>1. PICK c \in Codes : c = code[r]
    BY <1>1
  <2>2. /\ row[c].status \in {"pending", "scanned"} /\ row'[c].status = "denied"
        /\ \A d \in Codes : d # c => row'[d] = row[d]
        /\ \A d \in Codes : row'[d].user = row[d].user /\ row'[d].token = row[d].token
    BY <1>3, <2>1 DEF Deny, Row, TypeOK
  <2>3. PhaseOf(c) \in {"offered", "taken"} /\ PhaseOf(c)' = "closed"
    <3>1. row[c].status = "pending" \/ row[c].status = "scanned"
      BY <2>2
    <3>2. PhaseOf(c) \in {"offered", "taken"}
      BY <3>1 DEF PhaseOf
    <3>3. row'[c].status = "denied"
      BY <2>2
    <3>4. PhaseOf(c)' = "closed"
      BY <3>3 DEF PhaseOf
    <3>5. QED
      BY <3>2, <3>4
  <2>4. \A d \in Codes : d # c => PhaseOf(d)' = PhaseOf(d)
    BY <2>2, PhaseStays
  <2>5. QED
    BY <1>1, <2>2, <2>3, <2>4, ClosePromised
<1>4. QED
  BY <1>2, <1>3

(* The clean-up job closes the codes whose time is over, together.            *)
LEMMA SweepPromised ==
    ASSUME IInv, AnswersComplete, Sweep,
           \A q \in Requests : OwnerOf(q)' = OwnerOf(q)
    PROVE  [Promise!Next]_(Promise!vars)
<1> USE DEF IInv
<1>1. UNCHANGED <<saved, stopped>>
  BY DEF Sweep, panel
<1>2. ASSUME NEW c \in Codes
      PROVE  /\ row'[c].user = row[c].user /\ row'[c].token = row[c].token
             /\ \/ PhaseOf(c)' = PhaseOf(c)
                \/ PhaseOf(c) \in {"offered", "taken"} /\ PhaseOf(c)' = "closed"
  <2>1. /\ row'[c].user = row[c].user /\ row'[c].token = row[c].token
        /\ \/ row'[c].status = row[c].status
           \/ row'[c].status = "gone" /\ row[c].status # "none"
    BY DEF Sweep, TypeOK, AnswersComplete, Codes
  <2>2. CASE row'[c].status = row[c].status
    BY <2>1, <2>2 DEF PhaseOf
  <2>3. CASE row'[c].status = "gone" /\ row[c].status # "none"
    BY <2>1, <2>3 DEF PhaseOf, RowShape, TypeOK, Statuses
  <2>4. QED
    BY <2>1, <2>2, <2>3
<1>3. QED
  BY <1>1, <1>2, ClosePromised

(* and the panel offers codes, receives a session and is left.                *)
LEMMA PanelPromised ==
    ASSUME IInv, AnswersComplete, ServeInit \/ HandleStatus \/ Unmount,
           \A q \in Requests : OwnerOf(q)' = OwnerOf(q)
    PROVE  [Promise!Next]_(Promise!vars)
<1> USE DEF IInv
<1>1. CASE ServeInit
  <2>1. PICK c \in Codes : c = issued + 1
    BY <1>1, ScanAssumption DEF ServeInit, TypeOK, Codes
  <2>2. c \notin 1..issued
    BY <2>1 DEF TypeOK
  <2>3. /\ row[c].status = "none" /\ row'[c].status = "pending"
        /\ \A d \in Codes : d # c => row'[d] = row[d]
        /\ \A d \in Codes : row'[d].user = row[d].user /\ row'[d].token = row[d].token
    BY <1>1, <2>1, <2>2 DEF ServeInit, TypeOK, RowShape
  <2>4. PhaseOf(c) = "none" /\ PhaseOf(c)' = "offered"
    <3>1. row[c].status = "none" /\ row'[c].status = "pending"
      BY <2>3
    <3>2. PhaseOf(c) = "none"
      BY <3>1 DEF PhaseOf
    <3>3. PhaseOf(c)' = "offered"
      BY <3>1 DEF PhaseOf
    <3>4. QED
      BY <3>2, <3>3
  <2>5. \A d \in Codes : d # c => PhaseOf(d)' = PhaseOf(d)
    BY <2>3, PhaseStays
  <2>6. Promise!Offer(c)
    BY <1>1, <2>3, <2>4, <2>5 DEF ServeInit, Promise!Offer
  <2>7. QED
    BY <2>6, StepPromised
<1>2. CASE HandleStatus
  <2>1. UNCHANGED <<row, stopped>>
    BY <1>2 DEF HandleStatus, rows
  <2>2. CASE saved' = saved
    BY <2>1, <2>2, NothingPromised
  <2>3. CASE saved' # saved
    <3>1. ~stopped /\ reply.status = "authorized" /\ saved' = reply.token
      BY <1>2, <2>3 DEF HandleStatus, Stored
    <3>2. PICK c \in Codes : row[c].token = reply.token /\ reply.token # none
      BY <3>1 DEF AnswersComplete, TokenPath
    <3>3. PhaseOf(c) = "signed"
      <4>1. row[c].status \in {"authorized", "gone"}
        BY <3>2 DEF RowShape, TypeOK, Statuses
      <4>2. QED
        BY <3>2, <4>1 DEF PhaseOf
    <3>4. \A d \in Codes : PhaseOf(d)' = PhaseOf(d)
      BY <2>1 DEF PhaseOf
    <3>5. Promise!Receive(c)
      BY <2>1, <3>1, <3>2, <3>3, <3>4 DEF Promise!Receive
    <3>6. QED
      BY <3>5, StepPromised
  <2>4. QED
    BY <2>2, <2>3
<1>3. CASE Unmount
  <2>1. stopped' = TRUE /\ UNCHANGED <<row, saved>>
    BY <1>3 DEF Unmount, rows
  <2>2. \A d \in Codes : PhaseOf(d)' = PhaseOf(d)
    BY <2>1 DEF PhaseOf
  <2>3. Promise!Leave
    BY <2>1, <2>2 DEF Promise!Leave
  <2>4. QED
    BY <2>3, Zenon DEF Promise!Next
<1>4. QED
  BY <1>1, <1>2, <1>3

(* Every step of the apps, the panel, time and the clean-up is a step or a    *)
(* stutter of SignInPromise.                                                  *)
LEMMA PromiseStep == IInv /\ KeptInv /\ [Next]_vars => [Promise!Next]_(Promise!vars)
<1> SUFFICES ASSUME IInv, KeptInv, [Next]_vars
             PROVE  [Promise!Next]_(Promise!vars)
  OBVIOUS
<1> USE DEF KeptInv
<1>1. ASSUME NEW r \in Requests, Mint(r) PROVE [Promise!Next]_(Promise!vars)
  BY <1>1, MintPromised
<1>2. CASE ~ \E r \in Requests : Mint(r)
  <2>1. \A q \in Requests : OwnerOf(q)' = OwnerOf(q)
    BY <1>2, OwnersStep
  <2>2. ASSUME NEW r \in Requests, Scan(r) \/ Confirm(r) \/ Deny(r)
        PROVE  [Promise!Next]_(Promise!vars)
    BY <2>1, <2>2, ScanPromised, ConfirmPromised, DenyPromised
  <2>3. CASE ServeInit \/ HandleStatus \/ Unmount \/ Sweep
    BY <2>1, <2>3, PanelPromised, SweepPromised
  <2>4. CASE UNCHANGED <<row, saved, stopped>>
    BY <2>1, <2>4, NothingPromised
  <2>5. QED
    BY <1>2, <2>2, <2>3, <2>4
       DEF Next, Serve, Panel, Call, Repeat, Look, Abort, Fire, ServeStatus, HandleInit,
           CallFails, Expire, PassGrace, Ages, vars, rows, panel
<1>3. QED
  BY <1>1, <1>2

(* Scan, confirm, deny, expiry, the clean-up and the panel together keep what *)
(* signing in by QR code promises: a session is minted only for a user who    *)
(* has taken a code, only his session goes with it, once, and only to a page  *)
(* that still waits.                                                          *)
THEOREM SignInPromised == Spec => SignInKept
<1>1. Init => Promise!Init
  <2> SUFFICES ASSUME Init PROVE Promise!Init
    OBVIOUS
  <2>1. \A c \in Codes : row[c] = NoRow /\ PhaseOf(c) = "none"
    BY DEF Init, PhaseOf, NoRow
  <2>2. QED
    BY <2>1 DEF Init, Promise!Init, NoRow, OwnerOf
<1>2. Init => KeptInv
  BY ScanAssumption DEF Init, KeptInv, MintsForScanner, AnswersComplete, NoReply
<1>3. IInv /\ KeptInv /\ [Next]_vars => KeptInv'
  BY MintsStep, AnswersCompleteStep DEF KeptInv
<1>4. QED
  BY <1>1, <1>2, <1>3, PromiseStep, InvHolds, PTL DEF Spec, SignInKept, Promise!Spec
=============================================================================
