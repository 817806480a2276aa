----------------------------- MODULE PackageGrant -----------------------------
(* What one package purchase does: executePackagePurchaseFulfillment, the     *)
(* step the Call action of Fulfillment stands for.  An execution walks the    *)
(* package's plan - credit the balance, allow each standard group, assign or  *)
(* extend each subscription group, make sure of an "auto-key" in each group - *)
(* with a GET before most writes and an Idempotency-Key on each write, then   *)
(* brings the local subscription row up to date and records the outcome.      *)
(* Executions of one customer's purchases overlap, fail half way, die, and    *)
(* are run again: by the retry worker after a retryable answer, by a          *)
(* redelivered notice while the job is still open.                            *)
(*                                                                            *)
(* sub2api is external and modelled from the calls: it carries out each       *)
(* Idempotency-Key at most once, answers a repeated key from its store, 409   *)
(* while the first request of the key is still running, and may carry out a   *)
(* call whose answer never arrives.  The customer is one; purchases of        *)
(* different customers share nothing here.  The expiry of the local row is    *)
(* counted in package periods and does not lie in the past.                   *)
EXTENDS Integers, Sequences, FiniteSets

CONSTANTS
    Jobs,       \* the customer's purchases, one fulfillment job each
    Executors,  \* goroutines that execute jobs
    Groups,     \* upstream groups
    Tiers,      \* package codes
    Package,    \* what each purchase buys
    none,       \* no group
    prior,      \* stands for whatever paid for the row the customer starts with
    MaxFaults   \* bound: failed calls, store errors, dead processes, lapses

Values == {"days", "balance", ""}

ASSUME PackageAssumption ==
    /\ Package \in [Jobs -> [value: Values, tier: Tiers,
                             std: Seq(Groups), sub: Seq(Groups)]]
    /\ \A j \in Jobs : Package[j].value = "" => Package[j].sub = <<>>
    /\ none \notin Groups
    /\ prior \notin Jobs
    /\ MaxFaults \in Nat

Tasks == [kind: {"balance", "group", "sub", "key"}, group: Groups \union {none}]

\* The parent of every Idempotency-Key is the job's own key, on every attempt.
Keys == [parent: Jobs, job: Jobs, kind: {"balance", "group", "assign", "extend", "key"},
         group: Groups \union {none}]
Calls == [key: Keys, body: SUBSET Groups]

VARIABLES
    \* the jobs, as Fulfillment sees them: "open" is paid_unfulfilled
    status,
    \* per execution: where it is, its job, the task of the plan it is at, what
    \* the last GET showed, the rows it is about to end, the row it works on,
    \* whether that row existed before, the expiry it read, and its result
    pc, at, step, view, ended, row, existed, days, result,
    \* upstream: times a purchase was credited, times it was granted a
    \* subscription group, the active subscriptions, the allowed groups, the
    \* groups with an auto-key, the calls carried out and those still running
    credited, granted, active, allowed, keyed, done, running,
    \* als_subscriptions rows of the customer; days = 0 is a NULL expires_at,
    \* by is history: who paid for the days
    subs,
    \* history: no executions overlapped and no upstream call outlived its
    \* caller; no executions of one job did, and the same; no process died and
    \* no statement failed; and the bound's counter
    alone, answered, whole, faults

execs == <<pc, at, step, view, ended, row, existed, days, result>>
upstream == <<credited, granted, active, allowed, keyed, done, running>>
vars == <<status, execs, upstream, subs, alone, answered, whole, faults>>

Places == {"idle", "load", "look", "act", "find", "pick", "end", "insert",
           "expiry", "lengthen", "apply"}

TypeOK ==
    /\ status \in [Jobs -> {"open", "retry", "fulfilled", "failed"}]
    /\ pc \in [Executors -> Places]
    /\ at \in [Executors -> Jobs \union {none}]
    /\ step \in [Executors -> Nat]
    /\ view \in [Executors -> SUBSET Groups]
    /\ ended \in [Executors -> SUBSET Nat]
    /\ row \in [Executors -> Nat]
    /\ existed \in [Executors -> BOOLEAN]
    /\ days \in [Executors -> Nat]
    /\ result \in [Executors -> {"ok", "retryable", "terminal"}]
    /\ credited \in [Jobs -> Nat]
    /\ granted \in [Jobs -> [Groups -> Nat]]
    /\ active \subseteq Groups
    /\ allowed \subseteq Groups
    /\ keyed \subseteq Groups
    /\ done \subseteq Calls
    /\ running \subseteq Calls
    /\ subs \in Seq([tier: Tiers, live: BOOLEAN, days: Nat, by: SUBSET (Jobs \union {prior})])
    /\ alone \in BOOLEAN
    /\ answered \in BOOLEAN
    /\ whole \in BOOLEAN
    /\ faults \in 0..MaxFaults

Elements(s) == {s[i] : i \in DOMAIN s}
SubscriptionGroups == UNION {Elements(Package[j].sub) : j \in Jobs}

\* A customer with no local row, one with an expiry, which no top-up gives, one
\* without (created by the subscription API), and the subscriptions, with their
\* keys, that earlier purchases left upstream.
Expiries(t) ==
    IF \E j \in Jobs : Package[j].tier = t /\ Package[j].value = "balance" THEN {0} ELSE {0, 1}
StartRows ==
    {<<>>} \union UNION {{<<[tier |-> t, live |-> TRUE, days |-> d, by |-> {prior}]>> :
                          d \in Expiries(t)} : t \in Tiers}

Init ==
    /\ status = [j \in Jobs |-> "open"]
    /\ pc = [e \in Executors |-> "idle"]
    /\ at = [e \in Executors |-> none]
    /\ step = [e \in Executors |-> 0]
    /\ view = [e \in Executors |-> {}]
    /\ ended = [e \in Executors |-> {}]
    /\ row = [e \in Executors |-> 0]
    /\ existed = [e \in Executors |-> FALSE]
    /\ days = [e \in Executors |-> 0]
    /\ result = [e \in Executors |-> "ok"]
    /\ credited = [j \in Jobs |-> 0]
    /\ granted = [j \in Jobs |-> [g \in Groups |-> 0]]
    /\ active \in SUBSET SubscriptionGroups
    /\ allowed = {}
    /\ keyed = active
    /\ done = {}
    /\ running = {}
    /\ subs \in StartRows
    /\ alone = TRUE
    /\ answered = TRUE
    /\ whole = TRUE
    /\ faults = 0

------------------------------------------------------------------------------
(* The plan of a purchase.                                                    *)

Task(k, g) == [kind |-> k, group |-> g]

\* Each group's grant is followed by its key.
Grants(k, groups) ==
    [i \in 1..2 * Len(groups) |->
        Task(IF i % 2 = 1 THEN k ELSE "key", groups[(i + 1) \div 2])]

\* A top-up is credited first and skips the subscription groups.
Plan(j) ==
    LET p == Package[j]
    IN  IF p.value = "balance"
        THEN <<Task("balance", none)>> \o Grants("group", p.std)
        ELSE Grants("group", p.std) \o Grants("sub", p.sub)

Current(e) == Plan(at[e])[step[e]]
Goto(e, p) == pc' = [pc EXCEPT ![e] = p]

\* The credit is the only write that no GET precedes.
EnterTask(e, k) ==
    /\ step' = [step EXCEPT ![e] = k]
    /\ Goto(e, IF k > Len(Plan(at[e])) THEN "find"
               ELSE IF Plan(at[e])[k].kind = "balance" THEN "act" ELSE "look")

Advance(e) ==
    /\ EnterTask(e, step[e] + 1)
    /\ UNCHANGED result

\* The first error ends the walk; how it is classed decides about a retry.
Stop(e, r) ==
    /\ result' = [result EXCEPT ![e] = r]
    /\ Goto(e, "apply")
    /\ UNCHANGED step

Fault == faults < MaxFaults /\ faults' = faults + 1
NoFault == UNCHANGED <<alone, answered, whole, faults>>
Failures == {"retryable", "terminal"}

------------------------------------------------------------------------------
(* Executions begin.                                                          *)

\* A notice finds the job open, a retry claims it.  Nothing keeps two of them,
\* or executions of two purchases, apart.
Start(e, j) ==
    /\ pc[e] = "idle" /\ status[j] \in {"open", "retry"}
    /\ status' = [status EXCEPT ![j] = "open"]
    /\ Goto(e, "load")
    /\ at' = [at EXCEPT ![e] = j]
    /\ alone' = (alone /\ \A f \in Executors \ {e} : pc[f] = "idle")
    /\ answered' = (answered /\ \A f \in Executors \ {e} : at[f] # j)
    /\ UNCHANGED <<step, view, ended, row, existed, days, result, upstream, subs, whole, faults>>

\* The package is read and checked, its groups are classified upstream.
Load(e) ==
    /\ pc[e] = "load"
    /\ EnterTask(e, 1)
    /\ UNCHANGED <<status, at, view, ended, row, existed, days, result, upstream, subs>>
    /\ NoFault

\* What the GET before a write shows: nothing is left to do for a group that
\* is allowed, or that has its key; a subscription is only looked up.
Look(e) ==
    /\ pc[e] = "look"
    /\ LET t == Current(e)
           seen == IF t.kind = "group" THEN allowed
                   ELSE IF t.kind = "sub" THEN active ELSE keyed
       IN  IF t.kind # "sub" /\ t.group \in seen
           THEN Advance(e) /\ UNCHANGED view
           ELSE /\ view' = [view EXCEPT ![e] = seen]
                /\ Goto(e, "act")
                /\ UNCHANGED <<step, result>>
    /\ UNCHANGED <<status, at, ended, row, existed, days, upstream, subs>>
    /\ NoFault

------------------------------------------------------------------------------
(* The write of a task, under its Idempotency-Key.                            *)

ParentKey_PerExecution(e) == e
ParentKey(e) == at[e]

\* An active subscription is extended, otherwise one is assigned: two calls,
\* two keys.
CallKey(e) ==
    LET t == Current(e)
    IN  [parent |-> ParentKey(e), job |-> at[e], group |-> t.group,
         kind |-> IF t.kind # "sub" THEN t.kind
                  ELSE IF t.group \in view[e] THEN "extend" ELSE "assign"]

\* The allowed groups are written whole, as read plus one.
Body_Only(e) == {Current(e).group}
Body(e) == IF Current(e).kind = "group" THEN view[e] \union {Current(e).group} ELSE {}

Call(e) == [key |-> CallKey(e), body |-> Body(e)]

Done(k) == \E c \in done : c.key = k
Running(k) == \E c \in running : c.key = k

\* sub2api carries a call out.
CarryOut(c) ==
    LET k == c.key
    IN  /\ done' = done \union {c}
        /\ credited' = IF k.kind = "balance"
                       THEN [credited EXCEPT ![k.job] = @ + 1] ELSE credited
        /\ granted' = IF k.kind \in {"assign", "extend"}
                      THEN [granted EXCEPT ![k.job][k.group] = @ + 1] ELSE granted
        /\ active' = IF k.kind \in {"assign", "extend"}
                     THEN active \union {k.group} ELSE active
        /\ allowed' = IF k.kind = "group" THEN c.body ELSE allowed
        /\ keyed' = IF k.kind = "key" THEN keyed \union {k.group} ELSE keyed

Memory == <<at, view, ended, row, existed, days>>

NameTaken(k) == k.kind = "key" /\ k.group \in keyed

\* A new key: carried out and answered, or carried out with the answer lost
\* (terminal) or replaced by a 5xx on the way (retryable).  That is one step:
\* another execution of the job that comes in between is answered 409, which
\* is CallFails - or success, for an auto-key; answered leaves that out.
Write(e) ==
    /\ pc[e] = "act"
    /\ ~Done(CallKey(e)) /\ ~Running(CallKey(e)) /\ ~NameTaken(CallKey(e))
    /\ CarryOut(Call(e))
    /\ \/ Advance(e) /\ NoFault
       \/ \E r \in Failures : Stop(e, r) /\ Fault /\ UNCHANGED <<alone, answered, whole>>
    /\ UNCHANGED <<status, Memory, running, subs>>

\* A key already carried out is answered from the store; one whose body has
\* changed since, which only a list of groups can, is refused.
Replayed(e) ==
    /\ pc[e] = "act" /\ Done(CallKey(e))
    /\ IF Call(e) \in done THEN Advance(e) ELSE Stop(e, "terminal")
    /\ UNCHANGED <<status, Memory, upstream, subs>>
    /\ NoFault

\* 409 counts as success for an auto-key only.
ConflictIsFine_Always(k) == TRUE
ConflictIsFine(k) == k.kind = "key"

\* 409: the key's first request is still running, or the name is taken.
Conflicts(e) ==
    /\ pc[e] = "act"
    /\ LET k == CallKey(e)
       IN  /\ ~Done(k)
           /\ Running(k) \/ NameTaken(k)
           /\ IF ConflictIsFine(k) THEN Advance(e) ELSE Stop(e, "retryable")
    /\ UNCHANGED <<status, Memory, upstream, subs>>
    /\ NoFault

\* The caller gives up, or a gateway does, while the call is still running.
Outlived(e) ==
    /\ pc[e] = "act"
    /\ ~Done(CallKey(e)) /\ ~Running(CallKey(e))
    /\ running' = running \union {Call(e)}
    /\ \E r \in Failures : Stop(e, r)
    /\ Fault /\ alone' = FALSE /\ answered' = FALSE /\ UNCHANGED whole
    /\ UNCHANGED <<status, Memory, credited, granted, active, allowed, keyed, done, subs>>

Settle(c) ==
    /\ c \in running
    /\ running' = running \ {c}
    /\ \/ CarryOut(c)
       \/ UNCHANGED <<credited, granted, active, allowed, keyed, done>>
    /\ UNCHANGED <<status, execs, subs, alone, answered, whole, faults>>

\* A call fails and has no effect.
CallFails(e) ==
    /\ pc[e] \in {"load", "look", "act"}
    /\ \E r \in Failures : Stop(e, r)
    /\ Fault /\ UNCHANGED <<alone, answered, whole>>
    /\ UNCHANGED <<status, Memory, upstream, subs>>

\* A subscription runs out upstream.
Lapse(g) ==
    /\ g \in active
    /\ active' = active \ {g}
    /\ Fault
    /\ UNCHANGED <<status, execs, credited, granted, allowed, keyed, done, running,
                   subs, alone, answered, whole>>

------------------------------------------------------------------------------
(* The local subscription.  createOrReplaceSubscription is a transaction at   *)
(* READ COMMITTED: it ends the rows it saw and commits with the new one.      *)

Live == {i \in DOMAIN subs : subs[i].live}
Newest(i) == i \in Live /\ \A k \in Live : k <= i

\* loadActiveSubscription reads the package of the newest active row ...
Find(e) ==
    /\ pc[e] = "find"
    /\ Goto(e, IF \E i \in Live : Newest(i) /\ subs[i].tier = Package[at[e]].tier
               THEN "pick" ELSE "end")
    /\ UNCHANGED <<status, Memory, step, result, upstream, subs>>
    /\ NoFault

\* ... and a second query reads its id.
Pick(e) ==
    /\ pc[e] = "pick"
    /\ \/ \E i \in Live :
            /\ Newest(i)
            /\ row' = [row EXCEPT ![e] = i]
            /\ existed' = [existed EXCEPT ![e] = TRUE]
            /\ Goto(e, "expiry")
       \/ /\ Live = {}
          /\ Goto(e, "end")
          /\ UNCHANGED <<row, existed>>
    /\ UNCHANGED <<status, at, step, view, ended, days, result, upstream, subs>>
    /\ NoFault

End(e) ==
    /\ pc[e] = "end"
    /\ ended' = [ended EXCEPT ![e] = Live]
    /\ Goto(e, "insert")
    /\ UNCHANGED <<status, at, step, view, row, existed, days, result, upstream, subs>>
    /\ NoFault

\* The quotas are read back after the commit: the insert may stand and the
\* execution fail.
Insert(e) ==
    /\ pc[e] = "insert"
    /\ subs' = Append([i \in DOMAIN subs |->
                          [subs[i] EXCEPT !.live = @ /\ i \notin ended[e]]],
                      [tier |-> Package[at[e]].tier, live |-> TRUE, days |-> 0, by |-> {}])
    /\ row' = [row EXCEPT ![e] = Len(subs) + 1]
    /\ existed' = [existed EXCEPT ![e] = FALSE]
    /\ \/ Goto(e, "expiry") /\ NoFault /\ UNCHANGED <<step, result>>
       \/ Stop(e, "terminal") /\ Fault /\ whole' = FALSE /\ UNCHANGED <<alone, answered>>
    /\ UNCHANGED <<status, at, view, ended, days, upstream>>

\* Only a package sold by the day has an expiry.
Expiry(e) ==
    /\ pc[e] = "expiry"
    /\ IF Package[at[e]].value = "days"
       THEN /\ days' = [days EXCEPT ![e] = subs[row[e]].days]
            /\ Goto(e, "lengthen")
            /\ UNCHANGED <<step, result>>
       ELSE Stop(e, "ok") /\ UNCHANGED days
    /\ UNCHANGED <<status, at, view, ended, row, existed, upstream, subs>>
    /\ NoFault

\* A new row runs one period from its start; an existing one is extended, and
\* counts as having had one period when it has no expiry.
Lengthened_AlwaysExtends(e) == IF days[e] = 0 THEN 2 ELSE days[e] + 1
Lengthened(e) ==
    IF ~existed[e] THEN 1 ELSE IF days[e] = 0 THEN 2 ELSE days[e] + 1

Lengthen(e) ==
    /\ pc[e] = "lengthen"
    /\ subs' = [subs EXCEPT ![row[e]].days = Lengthened(e), ![row[e]].by = @ \union {at[e]}]
    /\ Stop(e, "ok")
    /\ UNCHANGED <<status, Memory, upstream>>
    /\ NoFault

\* A statement fails: a read of the current subscription counts as "there is
\* none", anything later ends the execution.
StoreFails(e) ==
    /\ \/ pc[e] \in {"find", "pick"} /\ Goto(e, "end") /\ UNCHANGED <<step, result>>
       \/ pc[e] \in {"end", "insert", "expiry", "lengthen"} /\ Stop(e, "terminal")
    /\ Fault /\ whole' = FALSE /\ UNCHANGED <<alone, answered>>
    /\ UNCHANGED <<status, Memory, upstream, subs>>

------------------------------------------------------------------------------
(* Executions end.                                                            *)

Outcome_Raw(r) == {r}
\* A retryable failure is final once the retry budget of Fulfillment is spent.
Outcome(r) ==
    IF r = "ok" THEN {"fulfilled"}
    ELSE IF r = "retryable" THEN {"retry", "failed"} ELSE {"failed"}

Forget(e) ==
    /\ Goto(e, "idle")
    /\ at' = [at EXCEPT ![e] = none]
    /\ step' = [step EXCEPT ![e] = 0]
    /\ view' = [view EXCEPT ![e] = {}]
    /\ ended' = [ended EXCEPT ![e] = {}]
    /\ row' = [row EXCEPT ![e] = 0]
    /\ existed' = [existed EXCEPT ![e] = FALSE]
    /\ days' = [days EXCEPT ![e] = 0]
    /\ result' = [result EXCEPT ![e] = "ok"]

\* canTransition: a job that is open, or that another execution has meanwhile
\* recorded as to be retried, takes any outcome; a settled one refuses it.
Apply(e) ==
    /\ pc[e] = "apply"
    /\ IF status[at[e]] \in {"open", "retry"}
       THEN \E s \in Outcome(result[e]) : status' = [status EXCEPT ![at[e]] = s]
       ELSE UNCHANGED status
    /\ Forget(e)
    /\ UNCHANGED <<upstream, subs>>
    /\ NoFault

\* The process dies, the request is cancelled, or the outcome cannot be stored.
Crash(e) ==
    /\ pc[e] # "idle"
    /\ Forget(e)
    /\ Fault /\ whole' = FALSE /\ UNCHANGED <<alone, answered>>
    /\ UNCHANGED <<status, upstream, subs>>

------------------------------------------------------------------------------
Walk(e) ==
    \/ Load(e) \/ Look(e)
    \/ Write(e) \/ Replayed(e) \/ Conflicts(e) \/ Outlived(e) \/ CallFails(e)
Local(e) == Find(e) \/ Pick(e) \/ End(e) \/ Insert(e) \/ Expiry(e) \/ Lengthen(e) \/ StoreFails(e)

Next ==
    \/ \E e \in Executors :
        \/ \E j \in Jobs : Start(e, j)
        \/ Walk(e) \/ Local(e) \/ Apply(e) \/ Crash(e)
    \/ \E c \in running : Settle(c)
    \/ \E g \in Groups : Lapse(g)

Spec == Init /\ [][Next]_vars

------------------------------------------------------------------------------
(* The inductive invariant behind the safety properties.                      *)

KeyOf(k, j, g) == [parent |-> j, job |-> j, kind |-> k, group |-> g]

PlanTasks ==
    {t \in Tasks : IF t.kind = "balance" THEN t.group = none ELSE t.group \in Groups}

\* Whoever walks a plan is within it, whoever writes the local row is past it
\* and works on a row that exists.
PlaceShape(e) ==
    /\ pc[e] # "idle" => at[e] \in Jobs
    /\ pc[e] \in {"look", "act"} => step[e] \in 1..Len(Plan(at[e]))
    /\ pc[e] \in {"expiry", "lengthen"} => row[e] \in DOMAIN subs

\* A call speaks for the job whose key it carries.
CallShape ==
    \A c \in done \union running :
        /\ c.key = KeyOf(c.key.kind, c.key.job, c.key.group)
        /\ c.key.kind = "balance" <=> c.key.group = none

\* No key is running that is done, and no key runs twice.
KeysOnce ==
    /\ \A c \in running : ~Done(c.key)
    /\ \A c, d \in running : c.key = d.key => c = d

\* What was credited and granted is what the keys carried out say.
Counts ==
    \A j \in Jobs :
        /\ credited[j] = IF Done(KeyOf("balance", j, none)) THEN 1 ELSE 0
        /\ \A g \in Groups : granted[j][g] =
              (IF Done(KeyOf("assign", j, g)) THEN 1 ELSE 0)
                + (IF Done(KeyOf("extend", j, g)) THEN 1 ELSE 0)

Covered(j, t) ==
    /\ t.kind = "balance" => credited[j] >= 1
    /\ t.kind = "sub" => granted[j][t.group] >= 1

AllCovered(j) == \A k \in DOMAIN Plan(j) : Covered(j, Plan(j)[k])

Entered(j) == Package[j].value = "days" => \E i \in DOMAIN subs : j \in subs[i].by

\* An execution has covered the tasks it is past; one that reports success has
\* covered all of them and entered the days.
Progress(e) ==
    /\ pc[e] \in {"look", "act"} =>
          \A k \in 1..step[e] - 1 : Covered(at[e], Plan(at[e])[k])
    /\ \/ pc[e] \in {"find", "pick", "end", "insert", "expiry", "lengthen"}
       \/ pc[e] = "apply" /\ result[e] = "ok"
       => AllCovered(at[e])
    /\ pc[e] = "apply" /\ result[e] = "ok" => Entered(at[e])

Settled(j) == status[j] = "fulfilled" => AllCovered(j) /\ Entered(j)

IInv ==
    /\ TypeOK /\ CallShape /\ KeysOnce /\ Counts
    /\ \A e \in Executors : PlaceShape(e) /\ Progress(e)
    /\ \A j \in Jobs : Settled(j)

------------------------------------------------------------------------------
(* What a purchase promises.                                                  *)

\* However a purchase is executed - twice at once, again after a lost answer,
\* a crash or a 5xx - its balance is credited at most once upstream
\* (executePackagePurchaseFulfillment, the balance branch).
CreditedOnce == \A j \in Jobs : credited[j] <= 1

\* The subscription of a group is assigned or extended at most twice for one
\* purchase: EnsureAdminSubscriptionInGroup has a key for each of the two
\* calls, not one for the group.
GrantedAtMostTwice == \A j \in Jobs : \A g \in Groups : granted[j][g] <= 2

\* A purchase recorded as fulfilled has been granted: its balance credited,
\* each of its subscription groups assigned or extended, and its days entered
\* in a local row.
FulfilledIsGranted ==
    \A j \in Jobs : status[j] = "fulfilled" =>
        LET p == Package[j]
        IN  /\ p.value = "balance" => credited[j] = 1
            /\ p.value = "days" =>
                /\ \A g \in Elements(p.sub) : granted[j][g] >= 1
                /\ \E i \in DOMAIN subs : j \in subs[i].by

\* Retries after failed, lost or misreported calls, dead processes and failed
\* statements included, a fulfilled purchase leaves the customer with an
\* auto-key in each of its groups - executions of other purchases may overlap
\* its own, as long as no job is executed twice at once and no upstream call
\* outlives its caller - and with every standard group of the package allowed,
\* as long as executions do not overlap at all.
FulfilledIsUsable ==
    \A j \in Jobs : status[j] = "fulfilled" =>
        LET p == Package[j]
        IN  /\ alone => Elements(p.std) \subseteq allowed
            /\ answered => Elements(p.std) \subseteq keyed
            /\ answered /\ p.value = "days" => Elements(p.sub) \subseteq keyed

\* If executions do not overlap, no call outlives its caller, no process dies
\* and no statement fails, the customer has one active local row, and each row
\* that has an expiry has one period for each purchase that paid for it:
\* retries of the upstream part never reach the local part twice.
Clean == alone /\ whole

LocalOnce ==
    /\ Clean => \A i, k \in Live : i = k
    /\ Clean => \A i \in DOMAIN subs :
          LET r == subs[i]
          IN  r.days # 0 /\ r.by # {} => r.days = Cardinality(r.by)

\* fulfillment/worker.go:19-20: "Even if two instances briefly race, upstream
\* Idempotency-Keys keep grants safe": a purchase grants a group once.
GrantedOnce == \A j \in Jobs : \A g \in Groups : granted[j][g] <= 1
=============================================================================
