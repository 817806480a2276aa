-------------------------- MODULE PackageGrantProofs --------------------------
(* Proofs about PackageGrant, for any purchases, packages, executors and      *)
(* number of faults.                                                          *)
EXTENDS PackageGrant, SequenceTheorems, FiniteSetTheorems, TLAPS

------------------------------------------------------------------------------
(* The plan of a purchase.                                                    *)

\* The odd places of Grants hold the groups, the even ones their keys.
LEMMA GrantsShape ==
    ASSUME NEW k \in {"group", "sub"}, NEW s \in Seq(Groups)
    PROVE  /\ Grants(k, s) \in Seq(PlanTasks)
           /\ Len(Grants(k, s)) = 2 * Len(s)
           /\ \A i \in DOMAIN s :
                 /\ 2 * i - 1 \in 1..2 * Len(s)
                 /\ Grants(k, s)[2 * i - 1] = Task(k, s[i])
<1>1. Len(s) \in Nat /\ DOMAIN s = 1..Len(s)
  OBVIOUS
<1>2. \A i \in 1..2 * Len(s) : (i + 1) \div 2 \in 1..Len(s)
  BY <1>1
<1>3. \A i \in 1..2 * Len(s) : Grants(k, s)[i] \in PlanTasks
  <2> SUFFICES ASSUME NEW i \in 1..2 * Len(s) PROVE Grants(k, s)[i] \in PlanTasks
    OBVIOUS
  <2>1. s[(i + 1) \div 2] \in Groups
    BY <1>1, <1>2
  <2> QED
    BY <2>1 DEF Grants, Task, PlanTasks, Tasks
<1>4. Grants(k, s) \in [1..2 * Len(s) -> PlanTasks]
  BY <1>3 DEF Grants
<1>5. ASSUME NEW i \in DOMAIN s
      PROVE  /\ 2 * i - 1 \in 1..2 * Len(s)
             /\ Grants(k, s)[2 * i - 1] = Task(k, s[i])
  <2>1. i \in 1..Len(s) /\ 2 * i - 1 \in 1..2 * Len(s)
    BY <1>1
  <2>2. (2 * i - 1) % 2 = 1 /\ ((2 * i - 1) + 1) \div 2 = i
    BY <2>1
  <2> QED
    BY <2>1, <2>2 DEF Grants
<1>6. Grants(k, s) \in Seq(PlanTasks) /\ Len(Grants(k, s)) = 2 * Len(s)
  BY <1>1, <1>4
<1> QED
  BY <1>5, <1>6

\* A top-up begins with its credit; a package sold by the day names each of its
\* subscription groups.
LEMMA PlanShape ==
    ASSUME NEW j \in Jobs
    PROVE  /\ Plan(j) \in Seq(PlanTasks)
           /\ Package[j].value = "balance" =>
                1 \in DOMAIN Plan(j) /\ Plan(j)[1] = Task("balance", none)
           /\ Package[j].value = "days" =>
                \A i \in DOMAIN Package[j].sub :
                    \E k \in DOMAIN Plan(j) : Plan(j)[k] = Task("sub", Package[j].sub[i])
<1> DEFINE p == Package[j]
           G == Grants("group", p.std)
           S == Grants("sub", p.sub)
<1>1. p.std \in Seq(Groups) /\ p.sub \in Seq(Groups)
  BY PackageAssumption
<1>2. /\ G \in Seq(PlanTasks)
      /\ S \in Seq(PlanTasks)
      /\ Len(S) = 2 * Len(p.sub)
      /\ \A i \in DOMAIN p.sub :
            2 * i - 1 \in 1..2 * Len(p.sub) /\ S[2 * i - 1] = Task("sub", p.sub[i])
  BY <1>1, GrantsShape
<1>3. Task("balance", none) \in PlanTasks
  BY DEF Task, PlanTasks, Tasks
<1> HIDE DEF G, S
<1>4. CASE p.value = "balance"
  <2>1. Plan(j) = <<Task("balance", none)>> \o G
    BY <1>4 DEF Plan, G
  <2>2. <<Task("balance", none)>> \in Seq(PlanTasks)
    BY <1>3
  <2>3. /\ Plan(j) \in Seq(PlanTasks)
        /\ Len(Plan(j)) = 1 + Len(G)
        /\ Plan(j)[1] = Task("balance", none)
    BY <2>1, <2>2, <1>2, ConcatProperties
  <2> QED
    BY <2>3, <1>2, <1>4
<1>5. CASE p.value # "balance"
  <2>1. Plan(j) = G \o S
    BY <1>5 DEF Plan, G, S
  <2>2. /\ Plan(j) \in Seq(PlanTasks)
        /\ Len(Plan(j)) = Len(G) + Len(S)
        /\ \A i \in 1..Len(S) : Plan(j)[Len(G) + i] = S[i]
    <3>1. /\ Plan(j) \in Seq(PlanTasks)
          /\ Len(Plan(j)) = Len(G) + Len(S)
          /\ \A i \in 1..Len(G) + Len(S) :
                Plan(j)[i] = IF i <= Len(G) THEN G[i] ELSE S[i - Len(G)]
      <4>1. G \o S \in Seq(PlanTasks) /\ Len(G \o S) = Len(G) + Len(S)
        BY <1>2, ConcatProperties
      <4>2. \A i \in 1..Len(G) + Len(S) :
               (G \o S)[i] = IF i <= Len(G) THEN G[i] ELSE S[i - Len(G)]
        BY <1>2, ConcatProperties
      <4> QED
        BY <2>1, <4>1, <4>2
    <3>2. Len(G) \in Nat /\ Len(S) \in Nat
      BY <1>2
    <3>3. ASSUME NEW i \in 1..Len(S) PROVE Plan(j)[Len(G) + i] = S[i]
      BY <3>1, <3>2, <3>3
    <3> QED
      BY <3>1, <3>3
  <2>3. ASSUME NEW i \in DOMAIN p.sub
        PROVE  \E k \in DOMAIN Plan(j) : Plan(j)[k] = Task("sub", p.sub[i])
    <3> DEFINE k == Len(G) + (2 * i - 1)
    <3>1. 2 * i - 1 \in 1..Len(S) /\ S[2 * i - 1] = Task("sub", p.sub[i])
      BY <1>2
    <3>2. k \in DOMAIN Plan(j)
      BY <3>1, <2>2, <1>2
    <3>3. Plan(j)[k] = Task("sub", p.sub[i])
      BY <3>1, <2>2
    <3> QED
      BY <3>2, <3>3
  <2> QED
    BY <2>2, <2>3, <1>5
<1> QED
  BY <1>4, <1>5

------------------------------------------------------------------------------
(* The step of one execution.                                                 *)

\* What an action of another execution leaves alone of execution f.
Same(f) ==
    /\ pc'[f] = pc[f] /\ at'[f] = at[f] /\ step'[f] = step[f]
    /\ row'[f] = row[f] /\ result'[f] = result[f]

\* What was covered and entered stays so.
Grows ==
    /\ \A j \in Jobs, t \in PlanTasks : Covered(j, t) => Covered(j, t)'
    /\ DOMAIN subs \subseteq DOMAIN subs'
    /\ \A j \in Jobs : Entered(j) => Entered(j)'

CallsOK == CallShape /\ KeysOnce /\ Counts

\* A job that becomes fulfilled is settled.
SettlesOK ==
    \A j \in Jobs : status'[j] = "fulfilled" =>
        status[j] = "fulfilled" \/ (AllCovered(j) /\ Entered(j))

\* Every element of a plan is a well-formed task.
LEMMA PlanElement ==
    ASSUME NEW j \in Jobs, NEW k \in DOMAIN Plan(j)
    PROVE  Plan(j)[k] \in PlanTasks
BY PlanShape

\* Coverage of a whole plan survives a step.
LEMMA CoverageStays ==
    ASSUME Grows, NEW j \in Jobs
    PROVE  AllCovered(j) => AllCovered(j)'
<1> SUFFICES ASSUME AllCovered(j), NEW k \in DOMAIN Plan(j)
             PROVE  Covered(j, Plan(j)[k])'
  BY DEF AllCovered, Plan, Grants, Task
<1>1. Covered(j, Plan(j)[k]) /\ Plan(j)[k] \in PlanTasks
  BY PlanElement DEF AllCovered
<1> DEFINE t == Plan(j)[k]
<1> HIDE DEF t
<1>2. Covered(j, t) /\ t \in PlanTasks
  BY <1>1 DEF t
<1>3. Covered(j, t)'
  BY <1>2 DEF Grows
<1>4. t' = t
  BY DEF t, Plan, Grants, Task
<1> QED
  BY <1>3, <1>4 DEF t, Covered

\* The invariant is kept by a step of execution e that keeps the parts e is
\* responsible for.
LEMMA StepKeeps ==
    ASSUME IInv, TypeOK', NEW e \in Executors,
           \A f \in Executors \ {e} : Same(f),
           Grows, SettlesOK, CallsOK', PlaceShape(e)', Progress(e)'
    PROVE  IInv'
<1>1. ASSUME NEW f \in Executors PROVE PlaceShape(f)'
  <2>1. CASE f = e
    BY <2>1
  <2>2. CASE f # e
    <3>1. Same(f) /\ PlaceShape(f)
      BY <2>2 DEF IInv
    <3> QED
      BY <3>1 DEF Same, PlaceShape, Grows, Plan, Grants, Task
  <2> QED
    BY <2>1, <2>2
<1>2. ASSUME NEW f \in Executors PROVE Progress(f)'
  <2>1. CASE f = e
    BY <2>1
  <2>2. CASE f # e
    <3>1. Same(f) /\ Progress(f) /\ PlaceShape(f)
      BY <2>2 DEF IInv
    <3>2. ASSUME pc'[f] \in {"look", "act"}, NEW k \in 1..step'[f] - 1
          PROVE  Covered(at[f], Plan(at[f])[k])'
      <4>1. /\ at[f] \in Jobs
            /\ k \in 1..step[f] - 1
            /\ k \in DOMAIN Plan(at[f])
            /\ Covered(at[f], Plan(at[f])[k])
        <5>1. at[f] \in Jobs /\ step[f] \in 1..Len(Plan(at[f])) /\ k \in 1..step[f] - 1
          BY <3>1, <3>2 DEF Same, PlaceShape
        <5>2. Plan(at[f]) \in Seq(PlanTasks)
          BY <5>1, PlanShape
        <5>3. k \in 1..Len(Plan(at[f]))
          BY <5>1, <5>2
        <5> QED
          BY <5>1, <5>2, <5>3, <3>1, <3>2 DEF Same, Progress
      <4> DEFINE t == Plan(at[f])[k]
      <4>2. t \in PlanTasks
        BY <4>1, PlanElement
      <4>3. at'[f] = at[f]
        BY <3>1 DEF Same
      <4>4. Plan(at[f])' = Plan(at[f])
        BY <4>3 DEF Plan, Grants, Task
      <4> HIDE DEF t
      <4>5. credited'[at[f]] >= 1 \/ t.kind # "balance"
        BY <4>1, <4>2 DEF Grows, Covered, t
      <4>6. t.kind = "sub" => granted'[at[f]][t.group] >= 1
        BY <4>1, <4>2 DEF Grows, Covered, t
      <4> QED
        BY <4>3, <4>4, <4>5, <4>6 DEF Covered, t
    <3>3. ASSUME \/ pc'[f] \in {"find", "pick", "end", "insert", "expiry", "lengthen"}
                 \/ pc'[f] = "apply" /\ result'[f] = "ok"
          PROVE  AllCovered(at[f])'
      <4> DEFINE j == at[f]
      <4>1. j \in Jobs /\ AllCovered(j) /\ j' = j
        BY <3>1, <3>3 DEF Same, PlaceShape, Progress
      <4> HIDE DEF j
      <4>2. AllCovered(j)'
        BY <4>1, CoverageStays DEF AllCovered
      <4> QED
        BY <4>1, <4>2 DEF j
    <3>4. ASSUME pc'[f] = "apply", result'[f] = "ok" PROVE Entered(at[f])'
      <4>1. at[f] \in Jobs /\ Entered(at[f]) /\ at'[f] = at[f]
        BY <3>1, <3>4 DEF Same, PlaceShape, Progress
      <4> QED
        BY <4>1 DEF Grows, Entered
    <3> QED
      BY <3>2, <3>3, <3>4 DEF Progress
  <2> QED
    BY <2>1, <2>2
<1>3. ASSUME NEW j \in Jobs PROVE Settled(j)'
  <2> SUFFICES ASSUME status'[j] = "fulfilled" PROVE AllCovered(j)' /\ Entered(j)'
    BY DEF Settled
  <2>1. AllCovered(j) /\ Entered(j)
    BY DEF SettlesOK, IInv, Settled
  <2> QED
    BY <2>1, CoverageStays DEF Grows
<1> QED
  BY <1>1, <1>2, <1>3 DEF IInv, CallsOK

\* What is known of the calls stays when none is carried out or begun.
LEMMA QuietCalls ==
    ASSUME IInv, UNCHANGED <<credited, granted, done, running>>
    PROVE  CallsOK'
BY DEF IInv, CallsOK, CallShape, KeysOnce, Counts, Done, KeyOf

\* Nothing covered or entered is lost when neither changes.
LEMMA QuietGrows ==
    ASSUME UNCHANGED <<credited, granted, subs>>
    PROVE  Grows
BY DEF Grows, Covered, Entered

\* The walk goes on to task k, or is over.
LEMMA Entering ==
    ASSUME IInv, NEW e \in Executors, at[e] \in Jobs,
           NEW k \in Nat \ {0}, k <= Len(Plan(at[e])) + 1, EnterTask(e, k)
    PROVE  /\ pc' \in [Executors -> Places] /\ step' \in [Executors -> Nat]
           /\ \A f \in Executors \ {e} : pc'[f] = pc[f] /\ step'[f] = step[f]
           /\ step'[e] = k
           /\ \/ pc'[e] \in {"look", "act"} /\ k \in 1..Len(Plan(at[e]))
              \/ pc'[e] = "find" /\ k = Len(Plan(at[e])) + 1
<1>1. /\ pc \in [Executors -> Places] /\ step \in [Executors -> Nat]
      /\ Len(Plan(at[e])) \in Nat
  BY PlanShape DEF IInv, TypeOK
<1>2. /\ step' = [step EXCEPT ![e] = k]
      /\ \/ k > Len(Plan(at[e])) /\ pc' = [pc EXCEPT ![e] = "find"]
         \/ /\ ~(k > Len(Plan(at[e])))
            /\ \/ pc' = [pc EXCEPT ![e] = "look"]
               \/ pc' = [pc EXCEPT ![e] = "act"]
  BY DEF EnterTask, Goto
<1> QED
  BY <1>1, <1>2 DEF Places

\* An execution that has covered its task goes on to the next.
LEMMA Advanced ==
    ASSUME IInv, NEW e \in Executors, pc[e] \in {"look", "act"}, Advance(e),
           at' = at, Grows, NEW c \in PlanTasks, c = Current(e), Covered(at[e], c)'
    PROVE  /\ pc' \in [Executors -> Places] /\ step' \in [Executors -> Nat]
           /\ result' = result
           /\ \A f \in Executors \ {e} : pc'[f] = pc[f] /\ step'[f] = step[f]
           /\ PlaceShape(e)' /\ Progress(e)'
<1> DEFINE j == at[e]
<1>1. /\ j \in Jobs /\ step[e] \in 1..Len(Plan(j)) /\ step[e] \in Nat
      /\ \A k \in 1..step[e] - 1 : Covered(j, Plan(j)[k])
      /\ Plan(j) \in Seq(PlanTasks)
  BY PlanShape DEF IInv, PlaceShape, Progress, TypeOK
<1>2. /\ pc' \in [Executors -> Places] /\ step' \in [Executors -> Nat]
      /\ result' = result
      /\ \A f \in Executors \ {e} : pc'[f] = pc[f] /\ step'[f] = step[f]
      /\ step'[e] = step[e] + 1
      /\ \/ pc'[e] \in {"look", "act"} /\ step[e] + 1 \in 1..Len(Plan(j))
         \/ pc'[e] = "find" /\ step[e] + 1 = Len(Plan(j)) + 1
  BY <1>1, Entering DEF Advance
<1> HIDE DEF j
<1>3. ASSUME NEW k \in 1..step[e] PROVE Covered(j, Plan(j)[k])'
  <2> DEFINE t == Plan(j)[k]
  <2>1. t \in PlanTasks
    BY <1>1
  <2> HIDE DEF t
  <2>2. t' = t /\ j' = j
    BY DEF t, Plan, Grants, Task, j
  <2>3. CASE k < step[e]
    <3>1. Covered(j, t)
      BY <1>1, <2>3 DEF t
    <3>2. Covered(j, t)'
      BY <3>1, <2>1, <2>2, <1>1 DEF Grows, Covered
    <3> QED
      BY <3>2 DEF t
  <2>4. CASE k = step[e]
    <3>1. t = c
      BY <2>4 DEF t, j, Current
    <3>2. Covered(j, t)'
      BY <3>1, <2>2 DEF j, Covered
    <3> QED
      BY <3>2 DEF t
  <2> QED
    BY <2>3, <2>4, <1>1
<1>4. PlaceShape(e)'
  BY <1>1, <1>2 DEF PlaceShape, j, Plan, Grants, Task
<1>5. Progress(e)'
  <2>1. pc'[e] \in {"look", "act"} => \A k \in 1..step'[e] - 1 : Covered(j, Plan(j)[k])'
    BY <1>1, <1>2, <1>3
  <2>2. pc'[e] = "find" => \A k \in DOMAIN Plan(j) : Covered(j, Plan(j)[k])'
    BY <1>1, <1>2, <1>3
  <2>3. at'[e] = at[e] /\ pc'[e] \in {"look", "act", "find"}
    BY <1>2
  <2> QED
    BY <2>1, <2>2, <2>3 DEF Progress, AllCovered, j, Plan, Grants, Task
<1> QED
  BY <1>2, <1>4, <1>5

\* A failed execution only has its outcome left to record.
LEMMA Stopped ==
    ASSUME IInv, NEW e \in Executors, pc[e] # "idle", NEW r \in Failures, Stop(e, r),
           at' = at
    PROVE  /\ pc' \in [Executors -> Places]
           /\ step' \in [Executors -> Nat]
           /\ result' \in [Executors -> {"ok", "retryable", "terminal"}]
           /\ \A f \in Executors \ {e} :
                 pc'[f] = pc[f] /\ step'[f] = step[f] /\ result'[f] = result[f]
           /\ PlaceShape(e)' /\ Progress(e)'
<1>1. /\ pc \in [Executors -> Places] /\ step \in [Executors -> Nat]
      /\ result \in [Executors -> {"ok", "retryable", "terminal"}]
      /\ at[e] \in Jobs
  BY DEF IInv, TypeOK, PlaceShape
<1>2. /\ pc' = [pc EXCEPT ![e] = "apply"] /\ result' = [result EXCEPT ![e] = r]
      /\ step' = step /\ r \in {"retryable", "terminal"}
  BY DEF Stop, Goto, Failures
<1>3. /\ pc' \in [Executors -> Places]
      /\ result' \in [Executors -> {"ok", "retryable", "terminal"}]
      /\ pc'[e] = "apply" /\ result'[e] # "ok"
      /\ \A f \in Executors \ {e} : pc'[f] = pc[f] /\ result'[f] = result[f]
  BY <1>1, <1>2 DEF Places
<1>4. PlaceShape(e)' /\ Progress(e)'
  BY <1>1, <1>3 DEF PlaceShape, Progress
<1> QED
  BY <1>1, <1>2, <1>3, <1>4

\* The task an execution is at.
LEMMA CurrentShape ==
    ASSUME IInv, NEW e \in Executors, pc[e] \in {"look", "act"}
    PROVE  /\ at[e] \in Jobs /\ step[e] \in 1..Len(Plan(at[e]))
           /\ Current(e) \in PlanTasks
<1>1. at[e] \in Jobs /\ step[e] \in 1..Len(Plan(at[e]))
  BY DEF IInv, PlaceShape
<1> QED
  BY <1>1, PlanShape DEF Current

\* The call of a task speaks for the job and the group of the task.
LEMMA CallOf ==
    ASSUME IInv, NEW e \in Executors, pc[e] = "act"
    PROVE  /\ Call(e) \in Calls /\ Call(e).key = CallKey(e)
           /\ CallKey(e) = KeyOf(CallKey(e).kind, at[e], Current(e).group)
           /\ CallKey(e).job = at[e] /\ CallKey(e).group = Current(e).group
           /\ CallKey(e).kind = "balance" <=> Current(e).kind = "balance"
           /\ CallKey(e).kind \in {"assign", "extend"} <=> Current(e).kind = "sub"
           /\ CallKey(e).kind = "balance" <=> CallKey(e).group = none
<1>1. /\ at[e] \in Jobs /\ Current(e) \in PlanTasks /\ view[e] \subseteq Groups
      /\ none \notin Groups
  BY CurrentShape, PackageAssumption DEF IInv, TypeOK
<1>2. /\ Current(e).kind \in {"balance", "group", "sub", "key"}
      /\ Current(e).group \in Groups \union {none}
      /\ Current(e).kind # "balance" => Current(e).group \in Groups
      /\ Current(e).kind = "balance" => Current(e).group = none
  BY <1>1 DEF PlanTasks, Tasks
<1>3. CallKey(e) \in Keys
  BY <1>1, <1>2 DEF CallKey, ParentKey, Keys
<1>4. Body(e) \in SUBSET Groups
  BY <1>1, <1>2 DEF Body
<1>5. Call(e) \in Calls /\ Call(e).key = CallKey(e)
  BY <1>3, <1>4 DEF Call, Calls
<1>6. /\ CallKey(e).job = at[e] /\ CallKey(e).parent = at[e]
      /\ CallKey(e).group = Current(e).group
      /\ CallKey(e).kind = IF Current(e).kind # "sub" THEN Current(e).kind
                            ELSE IF Current(e).group \in view[e] THEN "extend" ELSE "assign"
  BY DEF CallKey, ParentKey
<1>7. CallKey(e) = KeyOf(CallKey(e).kind, at[e], Current(e).group)
  BY <1>3, <1>6 DEF Keys, KeyOf
<1> QED
  BY <1>1, <1>2, <1>5, <1>6, <1>7

\* What sub2api does with a key that was never carried out.
LEMMA CarriedOut ==
    ASSUME IInv, NEW c \in Calls, c.key = KeyOf(c.key.kind, c.key.job, c.key.group),
           c.key.kind = "balance" <=> c.key.group = none,
           ~Done(c.key), CarryOut(c)
    PROVE  /\ credited' \in [Jobs -> Nat]
           /\ granted' \in [Jobs -> [Groups -> Nat]]
           /\ active' \subseteq Groups /\ allowed' \subseteq Groups /\ keyed' \subseteq Groups
           /\ done' \subseteq Calls
           /\ \A k \in Keys : Done(k)' <=> Done(k) \/ k = c.key
           /\ Counts'
           /\ \A j \in Jobs, t \in PlanTasks : Covered(j, t) => Covered(j, t)'
           /\ c.key.kind = "balance" => credited'[c.key.job] >= 1
           /\ c.key.kind \in {"assign", "extend"} => granted'[c.key.job][c.key.group] >= 1
<1> DEFINE k == c.key
<1>1. /\ k \in Keys /\ c.body \subseteq Groups /\ k.job \in Jobs
      /\ k.group \in Groups \union {none}
      /\ k.kind # "balance" => k.group \in Groups
      /\ none \notin Groups
  BY PackageAssumption DEF Calls, Keys
<1>2. /\ credited \in [Jobs -> Nat] /\ granted \in [Jobs -> [Groups -> Nat]]
      /\ active \subseteq Groups /\ allowed \subseteq Groups /\ keyed \subseteq Groups
      /\ done \subseteq Calls
  BY DEF IInv, TypeOK
<1>3. /\ credited' \in [Jobs -> Nat]
      /\ \A j \in Jobs : credited'[j] =
            IF k.kind = "balance" /\ j = k.job THEN credited[j] + 1 ELSE credited[j]
  BY <1>1, <1>2 DEF CarryOut
<1>4. /\ granted' \in [Jobs -> [Groups -> Nat]]
      /\ \A j \in Jobs : \A g \in Groups : granted'[j][g] =
            IF k.kind \in {"assign", "extend"} /\ j = k.job /\ g = k.group
            THEN granted[j][g] + 1 ELSE granted[j][g]
  BY <1>1, <1>2 DEF CarryOut
<1>5. /\ active' \subseteq Groups /\ allowed' \subseteq Groups /\ keyed' \subseteq Groups
      /\ done' = done \union {c} /\ done' \subseteq Calls
  BY <1>1, <1>2 DEF CarryOut
<1>6. \A q : Done(q)' <=> Done(q) \/ q = k
  BY <1>5 DEF Done
<1> HIDE DEF k
<1>7. k = KeyOf(k.kind, k.job, k.group) /\ ~Done(k) /\ (k.kind = "balance" <=> k.group = none)
  BY DEF k
<1>8. ASSUME NEW j \in Jobs
      PROVE  credited'[j] = IF Done(KeyOf("balance", j, none))' THEN 1 ELSE 0
  <2>1. credited[j] = IF Done(KeyOf("balance", j, none)) THEN 1 ELSE 0
    BY DEF IInv, Counts
  <2>2. k = KeyOf("balance", j, none) <=> k.kind = "balance" /\ j = k.job
    BY <1>7 DEF KeyOf
  <2>3. Done(KeyOf("balance", j, none))' <=>
           Done(KeyOf("balance", j, none)) \/ KeyOf("balance", j, none) = k
    BY <1>6 DEF KeyOf
  <2> QED
    BY <1>3, <1>7, <2>1, <2>2, <2>3
<1>9. ASSUME NEW j \in Jobs, NEW g \in Groups
      PROVE  granted'[j][g] = (IF Done(KeyOf("assign", j, g))' THEN 1 ELSE 0)
                                + (IF Done(KeyOf("extend", j, g))' THEN 1 ELSE 0)
  <2>1. granted[j][g] = (IF Done(KeyOf("assign", j, g)) THEN 1 ELSE 0)
                          + (IF Done(KeyOf("extend", j, g)) THEN 1 ELSE 0)
    BY DEF IInv, Counts
  <2>2. \A q \in {"assign", "extend"} :
           k = KeyOf(q, j, g) <=> k.kind = q /\ j = k.job /\ g = k.group
    BY <1>7 DEF KeyOf
  <2>3. \A q \in {"assign", "extend"} :
           Done(KeyOf(q, j, g))' <=> Done(KeyOf(q, j, g)) \/ KeyOf(q, j, g) = k
    BY <1>6 DEF KeyOf
  <2>4. CASE k.kind \in {"assign", "extend"} /\ j = k.job /\ g = k.group
    <3>1. granted'[j][g] = granted[j][g] + 1
      BY <1>4, <2>4
    <3>2. CASE k.kind = "assign"
      BY <3>1, <3>2, <2>1, <2>2, <2>3, <2>4, <1>7
    <3>3. CASE k.kind = "extend"
      BY <3>1, <3>3, <2>1, <2>2, <2>3, <2>4, <1>7
    <3> QED
      BY <2>4, <3>2, <3>3
  <2>5. CASE ~(k.kind \in {"assign", "extend"} /\ j = k.job /\ g = k.group)
    BY <1>4, <2>5, <2>1, <2>2, <2>3
  <2> QED
    BY <2>4, <2>5
<1>10. Counts'
  BY <1>8, <1>9 DEF Counts, Done, KeyOf
<1>11. /\ \A j \in Jobs : credited'[j] >= credited[j]
       /\ \A j \in Jobs : \A g \in Groups : granted'[j][g] >= granted[j][g]
  BY <1>2, <1>3, <1>4
<1>12. \A j \in Jobs, t \in PlanTasks : Covered(j, t) => Covered(j, t)'
  <2> SUFFICES ASSUME NEW j \in Jobs, NEW t \in PlanTasks, Covered(j, t)
               PROVE  Covered(j, t)'
    OBVIOUS
  <2>1. t.kind = "sub" => t.group \in Groups
    BY DEF PlanTasks
  <2> QED
    BY <1>2, <1>3, <1>4, <1>11, <2>1 DEF Covered
<1>13. k.kind = "balance" => credited'[k.job] >= 1
  BY <1>1, <1>2, <1>3 DEF k
<1>14. k.kind \in {"assign", "extend"} => granted'[k.job][k.group] >= 1
  <2> SUFFICES ASSUME k.kind \in {"assign", "extend"} PROVE granted'[k.job][k.group] >= 1
    OBVIOUS
  <2>1. k.job \in Jobs /\ k.group \in Groups
    BY <1>1 DEF k
  <2>2. granted[k.job][k.group] \in Nat
    BY <2>1, <1>2
  <2> QED
    BY <2>1, <2>2, <1>4
<1> QED
  BY <1>3, <1>4, <1>5, <1>6, <1>10, <1>12, <1>13, <1>14 DEF k

------------------------------------------------------------------------------
(* Each action of an execution.                                               *)

StepOK(e) ==
    /\ TypeOK' /\ Grows /\ SettlesOK /\ CallsOK'
    /\ \A f \in Executors \ {e} : Same(f)
    /\ PlaceShape(e)' /\ Progress(e)'

\* The count of faults stays within its bound.
LEMMA FaultTyped ==
    ASSUME TypeOK, Fault
    PROVE  faults' \in 0..MaxFaults
<1>1. faults \in 0..MaxFaults
  BY DEF TypeOK
<1>2. MaxFaults \in Nat
  BY PackageAssumption
<1> QED
  BY <1>1, <1>2 DEF Fault

\* No job becomes fulfilled when no status changes.
LEMMA QuietStatus ==
    ASSUME status' = status
    PROVE  SettlesOK
BY DEF SettlesOK

\* A notice or a retry begins an execution, which has covered nothing yet.
LEMMA StartOK ==
    ASSUME IInv, NEW e \in Executors, NEW j \in Jobs, Start(e, j)
    PROVE  StepOK(e)
<1>1. TypeOK' /\ \A f \in Executors \ {e} : Same(f)
  BY DEF Start, IInv, TypeOK, Goto, Places, upstream, Same
<1>2. Grows /\ CallsOK'
  BY QuietGrows, QuietCalls DEF Start, upstream
<1>3. SettlesOK
  BY DEF Start, SettlesOK, IInv, TypeOK
<1>4. PlaceShape(e)' /\ Progress(e)'
  <2>1. pc'[e] = "load" /\ at'[e] = j
    BY DEF Start, Goto, IInv, TypeOK
  <2> QED
    BY <2>1 DEF PlaceShape, Progress
<1> QED
  BY <1>1, <1>2, <1>3, <1>4 DEF StepOK

\* The walk begins at the first task.
LEMMA LoadOK ==
    ASSUME IInv, NEW e \in Executors, Load(e)
    PROVE  StepOK(e)
<1>1. at[e] \in Jobs /\ Len(Plan(at[e])) \in Nat
  BY PlanShape DEF Load, IInv, PlaceShape
<1>2. /\ pc' \in [Executors -> Places] /\ step' \in [Executors -> Nat]
      /\ \A f \in Executors \ {e} : pc'[f] = pc[f] /\ step'[f] = step[f]
      /\ step'[e] = 1
      /\ \/ pc'[e] \in {"look", "act"} /\ 1 \in 1..Len(Plan(at[e]))
         \/ pc'[e] = "find" /\ 1 = Len(Plan(at[e])) + 1
  BY <1>1, Entering DEF Load
<1>3. TypeOK' /\ \A f \in Executors \ {e} : Same(f)
  BY <1>2 DEF Load, IInv, TypeOK, upstream, NoFault, Same
<1>4. Grows /\ CallsOK' /\ SettlesOK
  BY QuietGrows, QuietCalls, QuietStatus DEF Load, upstream
<1>5. at'[e] = at[e] /\ Plan(at[e])' = Plan(at[e])
  BY DEF Load, Plan, Grants, Task
<1>6. PlaceShape(e)'
  BY <1>1, <1>2, <1>5 DEF PlaceShape
<1>7. Progress(e)'
  <2>1. \A k \in 1..step'[e] - 1 : FALSE
    BY <1>2
  <2>2. pc'[e] = "find" => DOMAIN Plan(at[e]) = {}
    BY <1>1, <1>2, PlanShape
  <2>3. pc'[e] \in {"look", "act", "find"}
    BY <1>2
  <2> QED
    BY <2>1, <2>2, <2>3, <1>5 DEF Progress, AllCovered
<1> QED
  BY <1>3, <1>4, <1>6, <1>7 DEF StepOK

\* Going on with nothing changed upstream.
LEMMA QuietAdvance ==
    ASSUME IInv, NEW e \in Executors, pc[e] \in {"look", "act"}, Advance(e),
           Covered(at[e], Current(e)),
           UNCHANGED <<status, Memory, upstream, subs>>, view' = view, NoFault
    PROVE  StepOK(e)
<1>1. Grows /\ CallsOK' /\ SettlesOK
  BY QuietGrows, QuietCalls, QuietStatus DEF upstream
<1>2. PICK c \in PlanTasks : c = Current(e)
  BY CurrentShape
<1>3. at' = at /\ Covered(at[e], c)'
  BY <1>2 DEF Covered, upstream, Memory
<1>5. /\ pc' \in [Executors -> Places] /\ step' \in [Executors -> Nat]
      /\ result' = result
      /\ \A f \in Executors \ {e} : pc'[f] = pc[f] /\ step'[f] = step[f]
      /\ PlaceShape(e)' /\ Progress(e)'
  BY <1>1, <1>2, <1>3, Advanced
<1>6. TypeOK' /\ \A f \in Executors \ {e} : Same(f)
  BY <1>5 DEF IInv, TypeOK, upstream, NoFault, Memory, Same
<1> QED
  BY <1>1, <1>5, <1>6 DEF StepOK

\* Stopping with nothing changed upstream.
LEMMA QuietStop ==
    ASSUME IInv, NEW e \in Executors, pc[e] # "idle", NEW r \in Failures, Stop(e, r),
           UNCHANGED <<status, Memory, upstream, subs>>,
           alone' \in BOOLEAN, answered' \in BOOLEAN, whole' \in BOOLEAN, faults' \in 0..MaxFaults
    PROVE  StepOK(e)
<1>1. Grows /\ CallsOK' /\ SettlesOK
  BY QuietGrows, QuietCalls, QuietStatus DEF upstream
<1>2. /\ pc' \in [Executors -> Places]
      /\ step' \in [Executors -> Nat]
      /\ result' \in [Executors -> {"ok", "retryable", "terminal"}]
      /\ \A f \in Executors \ {e} :
            pc'[f] = pc[f] /\ step'[f] = step[f] /\ result'[f] = result[f]
      /\ PlaceShape(e)' /\ Progress(e)'
  BY Stopped DEF Memory
<1>3. TypeOK' /\ \A f \in Executors \ {e} : Same(f)
  BY <1>2 DEF IInv, TypeOK, upstream, Memory, Same
<1> QED
  BY <1>1, <1>2, <1>3 DEF StepOK

\* A look changes nothing upstream, and skips no subscription and no credit.
LEMMA LookOK ==
    ASSUME IInv, NEW e \in Executors, Look(e)
    PROVE  StepOK(e)
<1> DEFINE t == Current(e)
           seen == IF t.kind = "group" THEN allowed
                   ELSE IF t.kind = "sub" THEN active ELSE keyed
<1>1. t \in PlanTasks /\ at[e] \in Jobs /\ pc[e] = "look"
  BY CurrentShape DEF Look
<1>2. seen \subseteq Groups /\ none \notin Groups
  BY PackageAssumption DEF IInv, TypeOK
<1>3. CASE t.kind # "sub" /\ t.group \in seen
  <2>1. Advance(e) /\ view' = view
    BY <1>3 DEF Look
  <2>2. t.kind # "balance"
    BY <1>1, <1>2, <1>3 DEF PlanTasks
  <2>3. Covered(at[e], Current(e))
    BY <1>3, <2>2 DEF Covered
  <2>4. UNCHANGED <<status, Memory, upstream, subs>> /\ NoFault
    BY <2>1 DEF Look, Memory
  <2> QED
    BY <1>1, <2>1, <2>3, <2>4, QuietAdvance
<1>4. CASE ~(t.kind # "sub" /\ t.group \in seen)
  <2>1. /\ view' = [view EXCEPT ![e] = seen] /\ pc' = [pc EXCEPT ![e] = "act"]
        /\ UNCHANGED <<step, result>>
    BY <1>4 DEF Look, Goto
  <2>2. /\ pc' \in [Executors -> Places] /\ pc'[e] = "act"
        /\ view' \in [Executors -> SUBSET Groups]
        /\ \A f \in Executors \ {e} : pc'[f] = pc[f]
    BY <2>1, <1>2 DEF IInv, TypeOK, Places
  <2>3. TypeOK' /\ \A f \in Executors \ {e} : Same(f)
    BY <2>1, <2>2 DEF Look, IInv, TypeOK, upstream, NoFault, Same
  <2>4. Grows /\ CallsOK' /\ SettlesOK
    BY QuietGrows, QuietCalls, QuietStatus DEF Look, upstream
  <2>5. PlaceShape(e)' /\ Progress(e)'
    <3>1. /\ at' = at /\ step' = step /\ credited' = credited /\ granted' = granted
          /\ Plan(at[e])' = Plan(at[e])
      BY <2>1 DEF Look, upstream, Plan, Grants, Task
    <3>2. PlaceShape(e) /\ Progress(e)
      BY DEF IInv
    <3> QED
      BY <1>1, <2>2, <3>1, <3>2 DEF PlaceShape, Progress, Covered
  <2> QED
    BY <2>3, <2>4, <2>5 DEF StepOK
<1> QED
  BY <1>3, <1>4

\* A call carried out keeps what is known of the keys.
LEMMA CarryOutCalls ==
    ASSUME IInv, NEW c \in Calls, c.key = KeyOf(c.key.kind, c.key.job, c.key.group),
           c.key.kind = "balance" <=> c.key.group = none,
           ~Done(c.key), CarryOut(c), running' \subseteq running,
           \A d \in running' : d.key # c.key
    PROVE  CallsOK' /\ \A j \in Jobs, t \in PlanTasks : Covered(j, t) => Covered(j, t)'
<1>1. /\ Counts'
      /\ \A j \in Jobs, t \in PlanTasks : Covered(j, t) => Covered(j, t)'
      /\ done' = done \union {c}
  BY CarriedOut DEF CarryOut
<1>2. CallShape'
  BY <1>1 DEF IInv, CallShape, KeyOf
<1>3. KeysOnce'
  BY <1>1 DEF IInv, KeysOnce, Done
<1> QED
  BY <1>1, <1>2, <1>3 DEF CallsOK

\* A key that is new is counted, and its task covered.
LEMMA WriteOK ==
    ASSUME IInv, NEW e \in Executors, Write(e)
    PROVE  StepOK(e)
<1>1. /\ pc[e] = "act" /\ ~Done(CallKey(e)) /\ ~Running(CallKey(e)) /\ CarryOut(Call(e))
      /\ UNCHANGED <<status, Memory, running, subs>>
  BY DEF Write
<1>2. PICK c \in Calls : c = Call(e)
  BY <1>1, CallOf
<1>3. /\ c.key = KeyOf(c.key.kind, c.key.job, c.key.group)
      /\ c.key.kind = "balance" <=> c.key.group = none
      /\ c.key.job = at[e] /\ c.key.group = Current(e).group
      /\ c.key.kind = "balance" <=> Current(e).kind = "balance"
      /\ c.key.kind \in {"assign", "extend"} <=> Current(e).kind = "sub"
      /\ ~Done(c.key) /\ CarryOut(c)
  BY <1>1, <1>2, CallOf
<1>4. \A d \in running' : d.key # c.key
  BY <1>1, <1>2, CallOf DEF Running
<1>5. CallsOK' /\ \A j \in Jobs, t \in PlanTasks : Covered(j, t) => Covered(j, t)'
  BY <1>1, <1>3, <1>4, CarryOutCalls
<1>6. Grows /\ SettlesOK
  BY <1>1, <1>5, QuietStatus DEF Grows, Entered
<1>7. /\ credited' \in [Jobs -> Nat]
      /\ granted' \in [Jobs -> [Groups -> Nat]]
      /\ active' \subseteq Groups /\ allowed' \subseteq Groups /\ keyed' \subseteq Groups
      /\ done' \subseteq Calls
      /\ c.key.kind = "balance" => credited'[c.key.job] >= 1
      /\ c.key.kind \in {"assign", "extend"} => granted'[c.key.job][c.key.group] >= 1
  BY <1>3, CarriedOut
<1>8. /\ pc' \in [Executors -> Places] /\ step' \in [Executors -> Nat]
      /\ result' \in [Executors -> {"ok", "retryable", "terminal"}]
      /\ \A f \in Executors \ {e} :
            pc'[f] = pc[f] /\ step'[f] = step[f] /\ result'[f] = result[f]
      /\ PlaceShape(e)' /\ Progress(e)'
      /\ alone' \in BOOLEAN /\ answered' \in BOOLEAN /\ whole' \in BOOLEAN /\ faults' \in 0..MaxFaults
  <2>1. CASE Advance(e) /\ NoFault
    <3>1. PICK t \in PlanTasks : t = Current(e)
      BY <1>1, CurrentShape
    <3>2. Covered(at[e], t)'
      BY <1>1, <1>3, <1>7, <3>1 DEF Covered, Memory
    <3>3. at' = at
      BY <1>1 DEF Memory
    <3>4. /\ pc' \in [Executors -> Places] /\ step' \in [Executors -> Nat]
          /\ result' = result
          /\ \A f \in Executors \ {e} : pc'[f] = pc[f] /\ step'[f] = step[f]
          /\ PlaceShape(e)' /\ Progress(e)'
      BY <1>1, <1>6, <2>1, <3>1, <3>2, <3>3, Advanced
    <3> QED
      BY <2>1, <3>4 DEF IInv, TypeOK, NoFault
  <2>2. CASE \E r \in Failures : Stop(e, r) /\ Fault /\ UNCHANGED <<alone, answered, whole>>
    <3>1. PICK r \in Failures : Stop(e, r) /\ Fault /\ UNCHANGED <<alone, answered, whole>>
      BY <2>2
    <3> QED
      BY <1>1, <3>1, Stopped, FaultTyped DEF Memory, IInv, TypeOK
  <2> QED
    BY <2>1, <2>2 DEF Write
<1>9. TypeOK' /\ \A f \in Executors \ {e} : Same(f)
  BY <1>1, <1>7, <1>8 DEF IInv, TypeOK, Memory, Same
<1> QED
  BY <1>5, <1>6, <1>8, <1>9 DEF StepOK

\* A key that was carried out has covered its task before.
LEMMA ReplayedOK ==
    ASSUME IInv, NEW e \in Executors, Replayed(e)
    PROVE  StepOK(e)
<1>1. /\ pc[e] = "act" /\ Done(CallKey(e)) /\ NoFault
      /\ UNCHANGED <<status, Memory, upstream, subs>>
  BY DEF Replayed
<1>2. CASE Advance(e)
  <2>1. /\ at[e] \in Jobs /\ Current(e) \in PlanTasks
        /\ CallKey(e) = KeyOf(CallKey(e).kind, at[e], Current(e).group)
        /\ CallKey(e).kind = "balance" <=> Current(e).kind = "balance"
        /\ CallKey(e).kind \in {"assign", "extend"} <=> Current(e).kind = "sub"
    BY <1>1, CallOf, CurrentShape
  <2>2. Current(e).kind = "balance" => credited[at[e]] >= 1
    <3>1. Current(e).kind = "balance" => Current(e).group = none
      BY <2>1 DEF PlanTasks
    <3>2. Current(e).kind = "balance" => Done(KeyOf("balance", at[e], none))
      BY <1>1, <2>1, <3>1
    <3> QED
      BY <2>1, <3>2 DEF IInv, Counts
  <2>3. Current(e).kind = "sub" => granted[at[e]][Current(e).group] >= 1
    <3> SUFFICES ASSUME Current(e).kind = "sub"
                 PROVE  granted[at[e]][Current(e).group] >= 1
      OBVIOUS
    <3>1. Current(e).group \in Groups
      BY <2>1 DEF PlanTasks
    <3>2. \/ Done(KeyOf("assign", at[e], Current(e).group))
          \/ Done(KeyOf("extend", at[e], Current(e).group))
      BY <1>1, <2>1
    <3>3. granted[at[e]][Current(e).group] =
            (IF Done(KeyOf("assign", at[e], Current(e).group)) THEN 1 ELSE 0)
              + (IF Done(KeyOf("extend", at[e], Current(e).group)) THEN 1 ELSE 0)
      BY <2>1, <3>1 DEF IInv, Counts
    <3> QED
      BY <3>2, <3>3
  <2>4. Covered(at[e], Current(e))
    BY <2>2, <2>3 DEF Covered
  <2> QED
    BY <1>1, <1>2, <2>4, QuietAdvance DEF Memory
<1>3. CASE Stop(e, "terminal")
  BY <1>1, <1>3, QuietStop DEF Failures, NoFault, IInv, TypeOK
<1> QED
  BY <1>2, <1>3 DEF Replayed

\* A conflict lets only the task of an auto-key pass.
LEMMA ConflictsOK ==
    ASSUME IInv, NEW e \in Executors, Conflicts(e)
    PROVE  StepOK(e)
<1>1. /\ pc[e] = "act" /\ NoFault /\ UNCHANGED <<status, Memory, upstream, subs>>
      /\ \/ CallKey(e).kind = "key" /\ Advance(e)
         \/ Stop(e, "retryable")
  BY DEF Conflicts, ConflictIsFine
<1>2. CASE CallKey(e).kind = "key" /\ Advance(e)
  <2>1. Current(e).kind # "balance" /\ Current(e).kind # "sub"
    BY <1>1, <1>2, CallOf
  <2>2. Covered(at[e], Current(e))
    BY <2>1 DEF Covered
  <2> QED
    BY <1>1, <1>2, <2>2, QuietAdvance DEF Memory
<1>3. CASE Stop(e, "retryable")
  BY <1>1, <1>3, QuietStop DEF Failures, NoFault, IInv, TypeOK
<1> QED
  BY <1>1, <1>2, <1>3

\* A failed call stops the walk.
LEMMA CallFailsOK ==
    ASSUME IInv, NEW e \in Executors, CallFails(e)
    PROVE  StepOK(e)
<1>1. PICK r \in Failures : Stop(e, r)
  BY DEF CallFails
<1>2. /\ pc[e] # "idle" /\ Fault /\ UNCHANGED <<alone, answered, whole>>
      /\ UNCHANGED <<status, Memory, upstream, subs>>
  BY DEF CallFails
<1>3. alone' \in BOOLEAN /\ answered' \in BOOLEAN /\ whole' \in BOOLEAN /\ faults' \in 0..MaxFaults
  BY <1>2, FaultTyped DEF IInv, TypeOK
<1> QED
  BY <1>1, <1>2, <1>3, QuietStop

\* A call that outlives its caller is counted once it settles, not before.
LEMMA OutlivedOK ==
    ASSUME IInv, NEW e \in Executors, Outlived(e)
    PROVE  StepOK(e)
<1>1. /\ pc[e] = "act" /\ ~Done(CallKey(e)) /\ ~Running(CallKey(e))
      /\ running' = running \union {Call(e)} /\ Fault /\ alone' = FALSE /\ answered' = FALSE
      /\ UNCHANGED whole
      /\ UNCHANGED <<status, Memory, credited, granted, active, allowed, keyed, done, subs>>
  BY DEF Outlived
<1>2. PICK c \in Calls : c = Call(e)
  BY <1>1, CallOf
<1>3. /\ c.key = KeyOf(c.key.kind, c.key.job, c.key.group)
      /\ c.key.kind = "balance" <=> c.key.group = none
      /\ ~Done(c.key) /\ ~Running(c.key)
      /\ running' = running \union {c} /\ done' = done
  BY <1>1, <1>2, CallOf
<1>4. CallShape'
  BY <1>3 DEF IInv, CallShape, KeyOf
<1>5. KeysOnce'
  BY <1>3 DEF IInv, KeysOnce, Done, Running
<1>6. Counts'
  BY <1>1 DEF IInv, Counts, Done, KeyOf
<1>7. Grows /\ SettlesOK
  BY <1>1, QuietGrows, QuietStatus
<1>8. PICK r \in Failures : Stop(e, r)
  BY DEF Outlived
<1>9. /\ pc' \in [Executors -> Places]
      /\ step' \in [Executors -> Nat]
      /\ result' \in [Executors -> {"ok", "retryable", "terminal"}]
      /\ \A f \in Executors \ {e} :
            pc'[f] = pc[f] /\ step'[f] = step[f] /\ result'[f] = result[f]
      /\ PlaceShape(e)' /\ Progress(e)'
  BY <1>1, <1>8, Stopped DEF Memory
<1>10. /\ running' \subseteq Calls /\ alone' \in BOOLEAN /\ answered' \in BOOLEAN
       /\ whole' \in BOOLEAN /\ faults' \in 0..MaxFaults
  BY <1>1, <1>3, FaultTyped DEF IInv, TypeOK
<1>11. TypeOK' /\ \A f \in Executors \ {e} : Same(f)
  BY <1>1, <1>9, <1>10 DEF IInv, TypeOK, Memory, Same
<1> QED
  BY <1>4, <1>5, <1>6, <1>7, <1>9, <1>11 DEF StepOK, CallsOK

LocalPlaces == {"find", "pick", "end", "insert", "expiry", "lengthen"}

\* Moving on within the local part.
LEMMA LocalMove ==
    ASSUME IInv, NEW e \in Executors, pc[e] \in LocalPlaces, NEW p \in LocalPlaces,
           Goto(e, p), UNCHANGED <<at, step, result>>, Grows,
           p \in {"expiry", "lengthen"} => row'[e] \in DOMAIN subs'
    PROVE  /\ pc' \in [Executors -> Places]
           /\ \A f \in Executors \ {e} : pc'[f] = pc[f]
           /\ PlaceShape(e)' /\ Progress(e)'
<1>1. PICK j \in Jobs : j = at[e] /\ AllCovered(j)
  BY DEF IInv, PlaceShape, Progress, LocalPlaces
<1>2. AllCovered(j)' /\ at'[e] = j
  BY <1>1, CoverageStays
<1>3. /\ pc' \in [Executors -> Places] /\ pc'[e] = p
      /\ \A f \in Executors \ {e} : pc'[f] = pc[f]
  BY DEF Goto, IInv, TypeOK, Places, LocalPlaces
<1>4. PlaceShape(e)'
  BY <1>1, <1>2, <1>3 DEF PlaceShape, LocalPlaces
<1>5. AllCovered(at[e])'
  BY <1>2 DEF AllCovered
<1>6. Progress(e)'
  BY <1>3, <1>5 DEF Progress, LocalPlaces
<1> QED
  BY <1>3, <1>4, <1>6

\* Reporting success at the end of the local part.
LEMMA LocalEnd ==
    ASSUME IInv, NEW e \in Executors, pc[e] \in LocalPlaces, Stop(e, "ok"),
           UNCHANGED at, Grows, Entered(at[e])'
    PROVE  /\ pc' \in [Executors -> Places]
           /\ step' \in [Executors -> Nat]
           /\ result' \in [Executors -> {"ok", "retryable", "terminal"}]
           /\ \A f \in Executors \ {e} :
                 pc'[f] = pc[f] /\ step'[f] = step[f] /\ result'[f] = result[f]
           /\ PlaceShape(e)' /\ Progress(e)'
<1>1. PICK j \in Jobs : j = at[e] /\ AllCovered(j)
  BY DEF IInv, PlaceShape, Progress, LocalPlaces
<1>2. AllCovered(j)' /\ at'[e] = j
  BY <1>1, CoverageStays
<1>3. /\ pc' \in [Executors -> Places] /\ pc'[e] = "apply"
      /\ step' \in [Executors -> Nat]
      /\ result' \in [Executors -> {"ok", "retryable", "terminal"}]
      /\ \A f \in Executors \ {e} :
            pc'[f] = pc[f] /\ step'[f] = step[f] /\ result'[f] = result[f]
  BY DEF Stop, Goto, IInv, TypeOK, Places
<1>4. AllCovered(at[e])'
  BY <1>2 DEF AllCovered
<1>5. PlaceShape(e)' /\ Progress(e)'
  BY <1>1, <1>2, <1>3, <1>4 DEF PlaceShape, Progress
<1> QED
  BY <1>3, <1>5

\* The current subscription is looked up.
LEMMA FindOK ==
    ASSUME IInv, NEW e \in Executors, Find(e)
    PROVE  StepOK(e)
<1>1. Grows /\ CallsOK' /\ SettlesOK
  BY QuietGrows, QuietCalls, QuietStatus DEF Find, upstream
<1>2. PICK p \in {"pick", "end"} : Goto(e, p)
  BY DEF Find
<1>3. /\ pc' \in [Executors -> Places]
      /\ \A f \in Executors \ {e} : pc'[f] = pc[f]
      /\ PlaceShape(e)' /\ Progress(e)'
  BY <1>1, <1>2, LocalMove DEF Find, LocalPlaces, Memory
<1>4. TypeOK' /\ \A f \in Executors \ {e} : Same(f)
  BY <1>3 DEF Find, IInv, TypeOK, upstream, NoFault, Memory, Same
<1> QED
  BY <1>1, <1>3, <1>4 DEF StepOK

\* The row picked exists.
LEMMA PickOK ==
    ASSUME IInv, NEW e \in Executors, Pick(e)
    PROVE  StepOK(e)
<1>1. Grows /\ CallsOK' /\ SettlesOK
  BY QuietGrows, QuietCalls, QuietStatus DEF Pick, upstream
<1>2. PICK p \in {"expiry", "end"} :
        /\ Goto(e, p)
        /\ row' \in [Executors -> Nat] /\ existed' \in [Executors -> BOOLEAN]
        /\ \A f \in Executors \ {e} : row'[f] = row[f]
        /\ p = "expiry" => row'[e] \in DOMAIN subs'
  <2>1. /\ row \in [Executors -> Nat] /\ existed \in [Executors -> BOOLEAN]
        /\ DOMAIN subs \subseteq Nat /\ subs' = subs /\ Live \subseteq DOMAIN subs
    BY DEF IInv, TypeOK, Pick, Live
  <2>2. CASE \E i \in Live : /\ row' = [row EXCEPT ![e] = i]
                             /\ existed' = [existed EXCEPT ![e] = TRUE]
                             /\ Goto(e, "expiry")
    BY <2>1, <2>2
  <2>3. CASE Goto(e, "end") /\ UNCHANGED <<row, existed>>
    BY <2>1, <2>3
  <2> QED
    BY <2>2, <2>3 DEF Pick
<1>3. /\ pc' \in [Executors -> Places]
      /\ \A f \in Executors \ {e} : pc'[f] = pc[f]
      /\ PlaceShape(e)' /\ Progress(e)'
  BY <1>1, <1>2, LocalMove DEF Pick, LocalPlaces
<1>4. TypeOK' /\ \A f \in Executors \ {e} : Same(f)
  BY <1>2, <1>3 DEF Pick, IInv, TypeOK, upstream, NoFault, Same
<1> QED
  BY <1>1, <1>3, <1>4 DEF StepOK

\* The rows to be ended are noted.
LEMMA EndOK ==
    ASSUME IInv, NEW e \in Executors, End(e)
    PROVE  StepOK(e)
<1>1. Grows /\ CallsOK' /\ SettlesOK
  BY QuietGrows, QuietCalls, QuietStatus DEF End, upstream
<1>2. /\ pc' \in [Executors -> Places]
      /\ \A f \in Executors \ {e} : pc'[f] = pc[f]
      /\ PlaceShape(e)' /\ Progress(e)'
  BY <1>1, LocalMove DEF End, LocalPlaces
<1>3. ended' \in [Executors -> SUBSET Nat]
  <2>1. Live \subseteq Nat
    BY DEF Live, IInv, TypeOK
  <2> QED
    BY <2>1 DEF End, IInv, TypeOK
<1>4. TypeOK' /\ \A f \in Executors \ {e} : Same(f)
  BY <1>2, <1>3 DEF End, IInv, TypeOK, upstream, NoFault, Same
<1> QED
  BY <1>1, <1>2, <1>4 DEF StepOK

Rows == [tier: Tiers, live: BOOLEAN, days: Nat, by: SUBSET (Jobs \union {prior})]

\* The new row is added behind the others, whose payers stay.
LEMMA InsertOK ==
    ASSUME IInv, NEW e \in Executors, Insert(e)
    PROVE  StepOK(e)
<1> DEFINE old == [i \in DOMAIN subs |-> [subs[i] EXCEPT !.live = @ /\ i \notin ended[e]]]
           new == [tier |-> Package[at[e]].tier, live |-> TRUE, days |-> 0, by |-> {}]
<1>1. subs \in Seq(Rows) /\ at[e] \in Jobs /\ row \in [Executors -> Nat]
  BY DEF IInv, TypeOK, Rows, PlaceShape, Insert
<1>2. new \in Rows
  BY <1>1, PackageAssumption DEF Rows
<1>3. \A i \in DOMAIN subs : old[i] \in Rows /\ old[i].by = subs[i].by
  <2> SUFFICES ASSUME NEW i \in DOMAIN subs PROVE old[i] \in Rows /\ old[i].by = subs[i].by
    OBVIOUS
  <2>1. subs[i] \in Rows
    BY <1>1
  <2>2. (subs[i].live /\ i \notin ended[e]) \in BOOLEAN
    BY Zenon
  <2> QED
    BY <2>1, <2>2 DEF Rows
<1>4. old \in Seq(Rows) /\ Len(old) = Len(subs) /\ DOMAIN subs = 1..Len(subs)
  BY <1>1, <1>3
<1>5. subs' = Append(old, new)
  BY DEF Insert
<1> HIDE DEF old, new
<1>6. /\ subs' \in Seq(Rows)
      /\ DOMAIN subs' = 1..Len(subs) + 1
      /\ \A i \in DOMAIN subs : subs'[i] = old[i]
  BY <1>2, <1>4, <1>5
<1>7. Grows
  <2>1. DOMAIN subs \subseteq DOMAIN subs'
    BY <1>4, <1>6
  <2>2. ASSUME NEW j \in Jobs, Entered(j) PROVE Entered(j)'
    BY <1>3, <1>6, <2>1, <2>2 DEF Entered
  <2> QED
    BY <2>1, <2>2 DEF Grows, Covered, Insert, upstream
<1>8. CallsOK' /\ SettlesOK
  BY QuietCalls, QuietStatus DEF Insert, upstream
<1>9. /\ row' = [row EXCEPT ![e] = Len(subs) + 1] /\ Len(subs) + 1 \in Nat
      /\ row' \in [Executors -> Nat] /\ row'[e] \in DOMAIN subs'
      /\ existed' \in [Executors -> BOOLEAN]
  BY <1>1, <1>4, <1>6 DEF Insert, IInv, TypeOK
<1>10. /\ pc' \in [Executors -> Places] /\ step' \in [Executors -> Nat]
       /\ result' \in [Executors -> {"ok", "retryable", "terminal"}]
       /\ \A f \in Executors \ {e} :
             pc'[f] = pc[f] /\ step'[f] = step[f] /\ result'[f] = result[f]
       /\ PlaceShape(e)' /\ Progress(e)'
       /\ alone' \in BOOLEAN /\ answered' \in BOOLEAN /\ whole' \in BOOLEAN /\ faults' \in 0..MaxFaults
  <2>1. CASE Goto(e, "expiry") /\ NoFault /\ UNCHANGED <<step, result>>
    <3>1. pc[e] \in LocalPlaces /\ "expiry" \in LocalPlaces /\ UNCHANGED <<at, step, result>>
      BY <2>1 DEF Insert, LocalPlaces
    <3>2. /\ pc' \in [Executors -> Places]
          /\ \A f \in Executors \ {e} : pc'[f] = pc[f]
          /\ PlaceShape(e)' /\ Progress(e)'
      BY <1>7, <1>9, <2>1, <3>1, LocalMove
    <3> QED
      BY <2>1, <3>2 DEF IInv, TypeOK, NoFault
  <2>2. CASE Stop(e, "terminal") /\ Fault /\ whole' = FALSE /\ UNCHANGED <<alone, answered>>
    <3>1. alone' \in BOOLEAN /\ answered' \in BOOLEAN /\ whole' \in BOOLEAN
      BY <2>2 DEF IInv, TypeOK
    <3>2. faults' \in 0..MaxFaults
      BY <2>2, FaultTyped DEF IInv
    <3> QED
      BY <2>2, <3>1, <3>2, Stopped DEF Insert, Failures
  <2> QED
    BY <2>1, <2>2 DEF Insert
<1>11. TypeOK' /\ \A f \in Executors \ {e} : Same(f)
  <2>1. subs' \in Seq([tier: Tiers, live: BOOLEAN, days: Nat, by: SUBSET (Jobs \union {prior})])
    BY <1>6 DEF Rows
  <2> QED
    BY <1>9, <1>10, <2>1 DEF Insert, IInv, TypeOK, upstream, Same
<1> QED
  BY <1>7, <1>8, <1>10, <1>11 DEF StepOK

\* A package without days has nothing to enter.
LEMMA ExpiryOK ==
    ASSUME IInv, NEW e \in Executors, Expiry(e)
    PROVE  StepOK(e)
<1>1. Grows /\ CallsOK' /\ SettlesOK
  BY QuietGrows, QuietCalls, QuietStatus DEF Expiry, upstream
<1>2. /\ pc[e] = "expiry" /\ pc[e] \in LocalPlaces /\ row[e] \in DOMAIN subs
      /\ at[e] \in Jobs /\ subs \in Seq(Rows)
      /\ UNCHANGED <<status, at, view, ended, row, existed, upstream, subs>> /\ NoFault
  BY DEF Expiry, LocalPlaces, IInv, PlaceShape, TypeOK, Rows
<1>3. subs[row[e]].days \in Nat
  <2>1. subs[row[e]] \in Rows
    BY <1>2
  <2> QED
    BY <2>1 DEF Rows
<1>4. /\ pc' \in [Executors -> Places] /\ step' \in [Executors -> Nat]
      /\ result' \in [Executors -> {"ok", "retryable", "terminal"}]
      /\ days' \in [Executors -> Nat]
      /\ \A f \in Executors \ {e} :
            pc'[f] = pc[f] /\ step'[f] = step[f] /\ result'[f] = result[f]
      /\ PlaceShape(e)' /\ Progress(e)'
  <2>1. CASE Package[at[e]].value = "days"
    <3>1. /\ Goto(e, "lengthen") /\ UNCHANGED <<step, result>>
          /\ days' = [days EXCEPT ![e] = subs[row[e]].days]
      BY <2>1 DEF Expiry
    <3>2. /\ pc' \in [Executors -> Places]
          /\ \A f \in Executors \ {e} : pc'[f] = pc[f]
          /\ PlaceShape(e)' /\ Progress(e)'
      BY <1>1, <1>2, <3>1, LocalMove DEF LocalPlaces
    <3> QED
      BY <1>3, <3>1, <3>2 DEF IInv, TypeOK
  <2>2. CASE Package[at[e]].value # "days"
    <3>1. Stop(e, "ok") /\ days' = days
      BY <2>2 DEF Expiry
    <3>2. Entered(at[e])'
      BY <1>2, <2>2 DEF Entered
    <3> QED
      BY <1>1, <1>2, <3>1, <3>2, LocalEnd DEF IInv, TypeOK
  <2> QED
    BY <2>1, <2>2
<1>5. TypeOK' /\ \A f \in Executors \ {e} : Same(f)
  BY <1>2, <1>4 DEF IInv, TypeOK, upstream, NoFault, Same
<1> QED
  BY <1>1, <1>4, <1>5 DEF StepOK

\* The purchase enters its days.
LEMMA LengthenOK ==
    ASSUME IInv, NEW e \in Executors, Lengthen(e)
    PROVE  StepOK(e)
<1> DEFINE r == row[e]
           new == [subs[r] EXCEPT !.days = Lengthened(e), !.by = @ \union {at[e]}]
<1>1. /\ pc[e] \in LocalPlaces /\ r \in DOMAIN subs /\ at[e] \in Jobs /\ subs \in Seq(Rows)
      /\ Stop(e, "ok") /\ UNCHANGED <<status, Memory, upstream>> /\ NoFault
  BY DEF Lengthen, LocalPlaces, IInv, PlaceShape, TypeOK, Rows
<1>2. Lengthened(e) \in Nat
  BY DEF Lengthened, IInv, TypeOK
<1>3. new \in Rows /\ new.by = subs[r].by \union {at[e]}
  <2>1. subs[r] \in Rows
    BY <1>1
  <2> QED
    BY <1>1, <1>2, <2>1 DEF Rows
<1>4. subs' = [subs EXCEPT ![r] = new]
  BY <1>1, <1>3 DEF Lengthen, Rows
<1> HIDE DEF r, new
<1>5. /\ subs' \in Seq(Rows) /\ DOMAIN subs' = DOMAIN subs
      /\ \A i \in DOMAIN subs : subs[i].by \subseteq subs'[i].by
      /\ at[e] \in subs'[r].by
  BY <1>1, <1>3, <1>4
<1>6. Grows
  BY <1>1, <1>5 DEF Grows, Covered, Entered, upstream
<1>7. CallsOK' /\ SettlesOK
  BY <1>1, QuietCalls, QuietStatus DEF upstream
<1>8. Entered(at[e])'
  BY <1>1, <1>5 DEF Entered, Memory
<1>9. /\ pc' \in [Executors -> Places] /\ step' \in [Executors -> Nat]
      /\ result' \in [Executors -> {"ok", "retryable", "terminal"}]
      /\ \A f \in Executors \ {e} :
            pc'[f] = pc[f] /\ step'[f] = step[f] /\ result'[f] = result[f]
      /\ PlaceShape(e)' /\ Progress(e)'
  BY <1>1, <1>6, <1>8, LocalEnd DEF Memory
<1>10. TypeOK' /\ \A f \in Executors \ {e} : Same(f)
  <2>1. subs' \in Seq([tier: Tiers, live: BOOLEAN, days: Nat, by: SUBSET (Jobs \union {prior})])
    BY <1>5 DEF Rows
  <2> QED
    BY <1>1, <1>9, <2>1 DEF IInv, TypeOK, upstream, NoFault, Memory, Same
<1> QED
  BY <1>6, <1>7, <1>9, <1>10 DEF StepOK

\* A failed statement never ends in success.
LEMMA StoreFailsOK ==
    ASSUME IInv, NEW e \in Executors, StoreFails(e)
    PROVE  StepOK(e)
<1>0. alone' \in BOOLEAN /\ answered' \in BOOLEAN /\ whole' \in BOOLEAN
  BY DEF StoreFails, IInv, TypeOK
<1>1. /\ UNCHANGED <<status, Memory, upstream, subs>> /\ Fault
      /\ alone' \in BOOLEAN /\ answered' \in BOOLEAN /\ whole' \in BOOLEAN /\ faults' \in 0..MaxFaults
  BY <1>0, FaultTyped DEF StoreFails, IInv
<1>2. CASE pc[e] \in {"find", "pick"} /\ Goto(e, "end") /\ UNCHANGED <<step, result>>
  <2>1. Grows /\ CallsOK' /\ SettlesOK
    BY <1>1, QuietGrows, QuietCalls, QuietStatus DEF upstream
  <2>2. /\ pc' \in [Executors -> Places]
        /\ \A f \in Executors \ {e} : pc'[f] = pc[f]
        /\ PlaceShape(e)' /\ Progress(e)'
    BY <1>1, <1>2, <2>1, LocalMove DEF LocalPlaces, Memory
  <2>3. TypeOK' /\ \A f \in Executors \ {e} : Same(f)
    BY <1>1, <1>2, <2>2 DEF IInv, TypeOK, upstream, Memory, Same
  <2> QED
    BY <2>1, <2>2, <2>3 DEF StepOK
<1>3. CASE pc[e] \in {"end", "insert", "expiry", "lengthen"} /\ Stop(e, "terminal")
  BY <1>1, <1>3, QuietStop DEF Failures
<1> QED
  BY <1>2, <1>3 DEF StoreFails

\* An execution that is over is at no task.
LEMMA Forgotten ==
    ASSUME IInv, NEW e \in Executors, Forget(e), UNCHANGED <<upstream, subs>>,
           status' \in [Jobs -> {"open", "retry", "fulfilled", "failed"}],
           alone' \in BOOLEAN, answered' \in BOOLEAN, whole' \in BOOLEAN, faults' \in 0..MaxFaults
    PROVE  /\ TypeOK' /\ \A f \in Executors \ {e} : Same(f)
           /\ PlaceShape(e)' /\ Progress(e)' /\ Grows /\ CallsOK'
<1>1. /\ pc' \in [Executors -> Places] /\ pc'[e] = "idle"
      /\ TypeOK' /\ \A f \in Executors \ {e} : Same(f)
  BY DEF Forget, Goto, IInv, TypeOK, Places, upstream, Same
<1>2. PlaceShape(e)' /\ Progress(e)'
  BY <1>1 DEF PlaceShape, Progress
<1>3. Grows /\ CallsOK'
  BY QuietGrows, QuietCalls DEF upstream
<1> QED
  BY <1>1, <1>2, <1>3

\* Only a success that has covered and entered everything is recorded.
LEMMA ApplyOK ==
    ASSUME IInv, NEW e \in Executors, Apply(e)
    PROVE  StepOK(e)
<1>1. /\ pc[e] = "apply" /\ Forget(e) /\ UNCHANGED <<upstream, subs>> /\ NoFault
      /\ at[e] \in Jobs
  BY DEF Apply, IInv, PlaceShape
<1>2. /\ status' \in [Jobs -> {"open", "retry", "fulfilled", "failed"}]
      /\ \A j \in Jobs : status'[j] = "fulfilled" =>
            status[j] = "fulfilled" \/ (j = at[e] /\ result[e] = "ok")
  <2>1. CASE \E s \in Outcome(result[e]) : status' = [status EXCEPT ![at[e]] = s]
    <3>1. PICK s \in Outcome(result[e]) : status' = [status EXCEPT ![at[e]] = s]
      BY <2>1
    <3>2. /\ s \in {"open", "retry", "fulfilled", "failed"}
          /\ s = "fulfilled" => result[e] = "ok"
      BY DEF Outcome
    <3> QED
      BY <1>1, <3>1, <3>2 DEF IInv, TypeOK
  <2>2. CASE status' = status
    BY <2>2 DEF IInv, TypeOK
  <2> QED
    BY <2>1, <2>2 DEF Apply
<1>3. SettlesOK
  <2>1. result[e] = "ok" => AllCovered(at[e]) /\ Entered(at[e])
    BY <1>1 DEF IInv, Progress
  <2> QED
    BY <1>2, <2>1 DEF SettlesOK
<1>4. alone' \in BOOLEAN /\ answered' \in BOOLEAN /\ whole' \in BOOLEAN /\ faults' \in 0..MaxFaults
  BY <1>1 DEF NoFault, IInv, TypeOK
<1> QED
  BY <1>1, <1>2, <1>3, <1>4, Forgotten DEF StepOK

\* A dead execution leaves the job as it is.
LEMMA CrashOK ==
    ASSUME IInv, NEW e \in Executors, Crash(e)
    PROVE  StepOK(e)
<1>1. /\ Forget(e) /\ UNCHANGED <<status, upstream, subs>>
      /\ alone' \in BOOLEAN /\ answered' \in BOOLEAN /\ whole' \in BOOLEAN /\ faults' \in 0..MaxFaults
      /\ status' \in [Jobs -> {"open", "retry", "fulfilled", "failed"}]
  BY FaultTyped DEF Crash, IInv, TypeOK
<1> QED
  BY <1>1, Forgotten, QuietStatus DEF StepOK

------------------------------------------------------------------------------
(* What happens upstream without an execution.                                *)

\* A step that changes nothing of the executions and keeps what was covered.
LEMMA UpstreamKeeps ==
    ASSUME IInv, TypeOK', CallsOK', UNCHANGED <<status, execs, subs>>,
           \A j \in Jobs, t \in PlanTasks : Covered(j, t) => Covered(j, t)'
    PROVE  IInv'
<1>1. Grows /\ SettlesOK /\ \A f \in Executors : Same(f)
  BY QuietStatus DEF Grows, Entered, Same, execs
<1>2. CASE Executors = {}
  <2>1. ASSUME NEW j \in Jobs PROVE Settled(j)'
    <3>1. Settled(j) /\ status' = status
      BY DEF IInv
    <3> QED
      BY <1>1, <3>1, CoverageStays DEF Settled, Grows
  <2> QED
    BY <1>2, <2>1 DEF IInv, CallsOK
<1>3. CASE Executors # {}
  <2>1. PICK e \in Executors : TRUE
    BY <1>3
  <2>2. PlaceShape(e)'
    BY DEF IInv, PlaceShape, execs, Plan, Grants, Task
  <2>3. Progress(e)'
    <3>1. /\ PlaceShape(e) /\ Progress(e)
          /\ pc' = pc /\ at' = at /\ step' = step /\ result' = result
      BY DEF IInv, execs
    <3>2. ASSUME pc[e] \in {"look", "act"}, NEW k \in 1..step[e] - 1
          PROVE  Covered(at[e], Plan(at[e])[k])'
      <4>1. at[e] \in Jobs /\ step[e] \in 1..Len(Plan(at[e]))
        BY <3>1, <3>2 DEF PlaceShape
      <4>2. Plan(at[e])[k] \in PlanTasks /\ Covered(at[e], Plan(at[e])[k])
        BY <4>1, <3>1, <3>2, PlanShape DEF Progress
      <4>3. PICK j \in Jobs, t \in PlanTasks : j = at[e] /\ t = Plan(j)[k]
        BY <4>1, <4>2
      <4>4. Covered(j, t)'
        BY <4>2, <4>3
      <4> QED
        BY <3>1, <4>3, <4>4 DEF Covered, Plan, Grants, Task
    <3>3. ASSUME \/ pc[e] \in {"find", "pick", "end", "insert", "expiry", "lengthen"}
                 \/ pc[e] = "apply" /\ result[e] = "ok"
          PROVE  AllCovered(at[e])'
      <4>1. PICK j \in Jobs : j = at[e] /\ AllCovered(j)
        BY <3>1, <3>3 DEF PlaceShape, Progress
      <4> QED
        BY <1>1, <3>1, <4>1, CoverageStays DEF AllCovered
    <3>4. ASSUME pc[e] = "apply", result[e] = "ok" PROVE Entered(at[e])'
      BY <3>1, <3>4 DEF Progress, Entered
    <3> QED
      BY <3>1, <3>2, <3>3, <3>4 DEF Progress
  <2> QED
    BY <1>1, <2>1, <2>2, <2>3, StepKeeps
<1> QED
  BY <1>2, <1>3

\* A call that outlived its caller is carried out, or is not.
LEMMA SettleOK ==
    ASSUME IInv, NEW c \in running, Settle(c)
    PROVE  IInv'
<1>1. /\ running' = running \ {c} /\ UNCHANGED <<status, execs, subs, alone, answered, whole, faults>>
      /\ c \in Calls
  BY DEF Settle, IInv, TypeOK
<1>2. CASE CarryOut(c)
  <2>1. /\ c.key = KeyOf(c.key.kind, c.key.job, c.key.group)
        /\ c.key.kind = "balance" <=> c.key.group = none
        /\ ~Done(c.key) /\ \A d \in running' : d.key # c.key
    BY <1>1 DEF IInv, CallShape, KeysOnce
  <2>2. CallsOK' /\ \A j \in Jobs, t \in PlanTasks : Covered(j, t) => Covered(j, t)'
    BY <1>1, <1>2, <2>1, CarryOutCalls
  <2>3. /\ credited' \in [Jobs -> Nat]
        /\ granted' \in [Jobs -> [Groups -> Nat]]
        /\ active' \subseteq Groups /\ allowed' \subseteq Groups /\ keyed' \subseteq Groups
        /\ done' \subseteq Calls
    BY <1>1, <1>2, <2>1, CarriedOut
  <2>4. TypeOK'
    BY <1>1, <2>3 DEF IInv, TypeOK, execs
  <2> QED
    BY <1>1, <2>2, <2>4, UpstreamKeeps
<1>3. CASE UNCHANGED <<credited, granted, active, allowed, keyed, done>>
  <2>1. TypeOK'
    BY <1>1, <1>3 DEF IInv, TypeOK, execs
  <2>2. CallsOK'
    BY <1>1, <1>3 DEF IInv, CallsOK, CallShape, KeysOnce, Counts, Done, KeyOf
  <2>3. \A j \in Jobs, t \in PlanTasks : Covered(j, t) => Covered(j, t)'
    BY <1>3 DEF Covered
  <2> QED
    BY <1>1, <2>1, <2>2, <2>3, UpstreamKeeps
<1> QED
  BY <1>2, <1>3 DEF Settle

\* A lapse takes nothing from what was counted.
LEMMA LapseOK ==
    ASSUME IInv, NEW g \in Groups, Lapse(g)
    PROVE  IInv'
<1>1. TypeOK'
  BY FaultTyped DEF Lapse, IInv, TypeOK, execs
<1>2. CallsOK'
  BY QuietCalls DEF Lapse
<1>3. \A j \in Jobs, t \in PlanTasks : Covered(j, t) => Covered(j, t)'
  BY DEF Lapse, Covered
<1> QED
  BY <1>1, <1>2, <1>3, UpstreamKeeps DEF Lapse

------------------------------------------------------------------------------
(* The invariant, and what follows from it.                                   *)

\* Nothing has been done at the start.
LEMMA InitOK ==
    ASSUME Init
    PROVE  IInv
<1>1. SubscriptionGroups \subseteq Groups
  <2> SUFFICES ASSUME NEW j \in Jobs, NEW i \in DOMAIN Package[j].sub
               PROVE  Package[j].sub[i] \in Groups
    BY DEF SubscriptionGroups, Elements
  <2>1. Package[j].sub \in Seq(Groups)
    BY PackageAssumption
  <2> QED
    BY <2>1
<1>2. subs \in Seq(Rows)
  <2>1. CASE subs = <<>>
    BY <2>1
  <2>2. ASSUME NEW t \in Tiers, NEW d \in {0, 1},
               subs = <<[tier |-> t, live |-> TRUE, days |-> d, by |-> {prior}]>>
        PROVE  subs \in Seq(Rows)
    <3>1. [tier |-> t, live |-> TRUE, days |-> d, by |-> {prior}] \in Rows
      BY DEF Rows
    <3> QED
      BY <2>2, <3>1
  <2> QED
    BY <2>1, <2>2 DEF Init, StartRows, Expiries
<1>3. TypeOK
  <2>1. active \subseteq Groups /\ keyed \subseteq Groups /\ allowed \subseteq Groups
    BY <1>1 DEF Init
  <2>2. subs \in Seq([tier: Tiers, live: BOOLEAN, days: Nat, by: SUBSET (Jobs \union {prior})])
    BY <1>2 DEF Rows
  <2>3. MaxFaults \in Nat /\ faults = 0 /\ alone = TRUE /\ answered = TRUE /\ whole = TRUE
    BY PackageAssumption DEF Init
  <2>4. faults \in 0..MaxFaults /\ alone \in BOOLEAN /\ answered \in BOOLEAN /\ whole \in BOOLEAN
    BY <2>3
  <2> QED
    BY <2>1, <2>2, <2>4 DEF Init, TypeOK, Places
<1>4. CallShape /\ KeysOnce /\ Counts
  BY DEF Init, CallShape, KeysOnce, Counts, Done
<1>5. ASSUME NEW e \in Executors PROVE PlaceShape(e) /\ Progress(e)
  BY DEF Init, PlaceShape, Progress
<1>6. ASSUME NEW j \in Jobs PROVE Settled(j)
  BY DEF Init, Settled
<1> QED
  BY <1>3, <1>4, <1>5, <1>6 DEF IInv

\* Every step keeps the invariant.
LEMMA NextOK ==
    ASSUME IInv, [Next]_vars
    PROVE  IInv'
<1>1. ASSUME NEW e \in Executors, StepOK(e) PROVE IInv'
  BY <1>1, StepKeeps DEF StepOK
<1>2. ASSUME NEW e \in Executors, NEW j \in Jobs, Start(e, j) PROVE IInv'
  BY <1>1, <1>2, StartOK
<1>3. ASSUME NEW e \in Executors, Walk(e) PROVE IInv'
  BY <1>1, <1>3, LoadOK, LookOK, WriteOK, ReplayedOK, ConflictsOK, OutlivedOK, CallFailsOK
     DEF Walk
<1>4. ASSUME NEW e \in Executors, Local(e) PROVE IInv'
  BY <1>1, <1>4, FindOK, PickOK, EndOK, InsertOK, ExpiryOK, LengthenOK, StoreFailsOK
     DEF Local
<1>5. ASSUME NEW e \in Executors, Apply(e) \/ Crash(e) PROVE IInv'
  BY <1>1, <1>5, ApplyOK, CrashOK
<1>6. CASE UNCHANGED vars
  <2>1. TypeOK' /\ UNCHANGED <<status, execs, subs, credited, granted, done, running>>
    BY <1>6 DEF vars, execs, upstream, IInv, TypeOK
  <2>2. CallsOK' /\ \A j \in Jobs, t \in PlanTasks : Covered(j, t) => Covered(j, t)'
    BY <2>1, QuietCalls DEF Covered
  <2> QED
    BY <2>1, <2>2, UpstreamKeeps
<1> QED
  BY <1>2, <1>3, <1>4, <1>5, <1>6, SettleOK, LapseOK DEF Next

\* The strengthening of the properties below is an invariant.
THEOREM Invariant == Spec => []IInv
BY InitOK, NextOK, PTL DEF Spec

\* Every variable keeps its type, whatever the packages hold.
THEOREM TypeCorrect == Spec => []TypeOK
<1>1. IInv => TypeOK
  BY DEF IInv
<1> QED
  BY <1>1, Invariant, PTL

\* However often and however concurrently a purchase is executed, and whatever
\* is lost or repeated on the way, it is credited at most once.
THEOREM CreditsOnce == Spec => []CreditedOnce
<1>1. IInv => CreditedOnce
  BY DEF IInv, Counts, CreditedOnce
<1> QED
  BY <1>1, Invariant, PTL

\* One purchase assigns a group's subscription at most once and extends it at
\* most once.
THEOREM GrantsAtMostTwice == Spec => []GrantedAtMostTwice
<1>1. IInv => GrantedAtMostTwice
  BY DEF IInv, Counts, GrantedAtMostTwice
<1> QED
  BY <1>1, Invariant, PTL

\* A purchase recorded as fulfilled has been credited, granted and entered.
THEOREM FulfilledMeansGranted == Spec => []FulfilledIsGranted
<1>1. ASSUME IInv, NEW j \in Jobs, status[j] = "fulfilled",
             Package[j].value = "balance"
      PROVE  credited[j] = 1
  <2>1. 1 \in DOMAIN Plan(j) /\ Plan(j)[1] = Task("balance", none) /\ AllCovered(j)
    BY <1>1, PlanShape DEF IInv, Settled
  <2>2. Covered(j, Task("balance", none))
    BY <2>1 DEF AllCovered
  <2> QED
    BY <1>1, <2>2 DEF Covered, Task, IInv, Counts
<1>2. ASSUME IInv, NEW j \in Jobs, status[j] = "fulfilled", Package[j].value = "days",
             NEW g \in Elements(Package[j].sub)
      PROVE  granted[j][g] >= 1
  <2>1. PICK i \in DOMAIN Package[j].sub : g = Package[j].sub[i]
    BY DEF Elements
  <2>2. PICK k \in DOMAIN Plan(j) : Plan(j)[k] = Task("sub", g)
    BY <1>2, <2>1, PlanShape
  <2>3. Covered(j, Task("sub", g))
    BY <1>2, <2>2 DEF IInv, Settled, AllCovered
  <2> QED
    BY <2>3 DEF Covered, Task
<1>3. ASSUME IInv, NEW j \in Jobs, status[j] = "fulfilled", Package[j].value = "days"
      PROVE  \E i \in DOMAIN subs : j \in subs[i].by
  BY <1>3 DEF IInv, Settled, Entered
<1>4. IInv => FulfilledIsGranted
  BY <1>1, <1>2, <1>3 DEF FulfilledIsGranted
<1> QED
  BY <1>4, Invariant, PTL
------------------------------------------------------------------------------
(* While no two executions overlap and no call outlives its caller: processes *)
(* may die and statements may fail.                                           *)

AtWork(e) == pc[e] # "idle"

Alone ==
    alone =>
        /\ \A e, f \in Executors : AtWork(e) /\ AtWork(f) => e = f
        /\ running = {}
        /\ \A e \in Executors : AtWork(e) => status[at[e]] = "open"

ExecutorMoves(e) ==
    \/ \E j \in Jobs : Start(e, j)
    \/ Walk(e) \/ Local(e) \/ Apply(e) \/ Crash(e)

\* A step of one execution leaves the others where they are.
LEMMA OthersStay ==
    ASSUME IInv, NEW e \in Executors, ExecutorMoves(e)
    PROVE  \A f \in Executors \ {e} : Same(f)
<1>1. StepOK(e)
  BY StartOK, LoadOK, LookOK, WriteOK, ReplayedOK, ConflictsOK, OutlivedOK, CallFailsOK,
     FindOK, PickOK, EndOK, InsertOK, ExpiryOK, LengthenOK, StoreFailsOK, ApplyOK, CrashOK
     DEF ExecutorMoves, Walk, Local
<1> QED
  BY <1>1 DEF StepOK

\* Whoever moves meanwhile is alone, and works on an open job.
LEMMA MovesAlone ==
    ASSUME IInv, Alone, NEW e \in Executors, ExecutorMoves(e), alone'
    PROVE  /\ alone /\ running = {} /\ running' = {}
           /\ \A f \in Executors \ {e} : pc[f] = "idle" /\ pc'[f] = "idle"
           /\ AtWork(e) => at[e] \in Jobs /\ status[at[e]] = "open"
<1>1. alone
  BY DEF ExecutorMoves, Start, Walk, Load, Look, Write, Replayed, Conflicts, Outlived, CallFails,
         Local, Find, Pick, End, Insert, Expiry, Lengthen, StoreFails, Apply, Crash, NoFault
<1>2. /\ running = {}
      /\ AtWork(e) => status[at[e]] = "open"
      /\ \A f \in Executors : AtWork(e) /\ AtWork(f) => e = f
  BY <1>1 DEF Alone
<1>3. running' = running
  BY DEF ExecutorMoves, Start, Walk, Load, Look, Write, Replayed, Conflicts, Outlived, CallFails,
         Local, Find, Pick, End, Insert, Expiry, Lengthen, StoreFails, Apply, Crash, upstream
<1>4. \A f \in Executors \ {e} : pc[f] = "idle"
  <2>1. CASE AtWork(e)
    BY <1>2, <2>1 DEF AtWork
  <2>2. CASE ~AtWork(e)
    <3>1. \E j \in Jobs : Start(e, j)
      BY <2>2 DEF AtWork, ExecutorMoves, Walk, Load, Look, Write, Replayed, Conflicts, Outlived,
                  CallFails, Local, Find, Pick, End, Insert, Expiry, Lengthen, StoreFails, Apply,
                  Crash
    <3> QED
      BY <3>1 DEF Start
  <2> QED
    BY <2>1, <2>2
<1>5. \A f \in Executors \ {e} : pc'[f] = pc[f]
  BY OthersStay DEF Same
<1>6. AtWork(e) => at[e] \in Jobs
  BY DEF AtWork, IInv, PlaceShape
<1>7. running' = {} /\ \A f \in Executors \ {e} : pc[f] = "idle" /\ pc'[f] = "idle"
  BY <1>2, <1>3, <1>4, <1>5
<1> QED
  BY <1>1, <1>2, <1>6, <1>7

\* Nothing is under way at the start.
LEMMA AloneInit == Init => Alone
BY DEF Init, Alone, AtWork

\* Executions that do not overlap stay so.
LEMMA AloneNext == IInv /\ Alone /\ [Next]_vars => Alone'
<1> SUFFICES ASSUME IInv, Alone, [Next]_vars, alone'
             PROVE  /\ \A e, f \in Executors : AtWork(e)' /\ AtWork(f)' => e = f
                    /\ running' = {}
                    /\ \A e \in Executors : AtWork(e)' => (status[at[e]] = "open")'
  BY DEF Alone
<1>1. ASSUME NEW e \in Executors, ExecutorMoves(e)
      PROVE  /\ \A d, f \in Executors : AtWork(d)' /\ AtWork(f)' => d = f
             /\ running' = {}
             /\ \A d \in Executors : AtWork(d)' => (status[at[d]] = "open")'
  <2>1. running' = {} /\ \A f \in Executors \ {e} : pc'[f] = "idle"
    BY <1>1, MovesAlone
  <2>2. AtWork(e) => status[at[e]] = "open"
    BY <1>1, MovesAlone
  <2>3. pc'[e] # "idle" => status'[at'[e]] = "open"
    <3>1. CASE \E j \in Jobs : Start(e, j)
      BY <3>1 DEF Start, IInv, TypeOK
    <3>2. CASE Walk(e) \/ Local(e)
      <4>1. AtWork(e) /\ status' = status /\ at' = at
        BY <3>2 DEF AtWork, Walk, Load, Look, Write, Replayed, Conflicts, Outlived, CallFails,
             Local, Find, Pick, End, Insert, Expiry, Lengthen, StoreFails, Memory
      <4> QED
        BY <2>2, <4>1
    <3>3. CASE Apply(e) \/ Crash(e)
      BY <3>3 DEF Apply, Crash, Forget, Goto, IInv, TypeOK
    <3> QED
      BY <1>1, <3>1, <3>2, <3>3 DEF ExecutorMoves
  <2> QED
    BY <2>1, <2>3 DEF AtWork
<1>2. CASE \E c \in running : Settle(c)
  BY <1>2 DEF Settle, Alone
<1>3. CASE (\E g \in Groups : Lapse(g)) \/ UNCHANGED vars
  BY <1>3 DEF Lapse, vars, upstream, execs, Alone, AtWork
<1> QED
  BY <1>1, <1>2, <1>3 DEF Next, ExecutorMoves

------------------------------------------------------------------------------
(* What a plan names.                                                         *)

\* The even places of Grants hold the keys.
LEMMA GrantsKeys ==
    ASSUME NEW k \in {"group", "sub"}, NEW s \in Seq(Groups), NEW i \in DOMAIN s
    PROVE  /\ 2 * i \in 1..2 * Len(s)
           /\ Grants(k, s)[2 * i] = Task("key", s[i])
<1>1. Len(s) \in Nat /\ i \in 1..Len(s) /\ i \in Nat
  OBVIOUS
<1>2. 2 * i \in 1..2 * Len(s)
  BY <1>1
<1>3. (2 * i) % 2 # 1 /\ (2 * i + 1) \div 2 = i
  BY <1>1
<1>4. Grants(k, s)[2 * i] = Task(IF (2 * i) % 2 = 1 THEN k ELSE "key", s[(2 * i + 1) \div 2])
  BY <1>2 DEF Grants
<1> QED
  BY <1>2, <1>3, <1>4

\* A plan names each standard group with its key, and, for a package sold by
\* the day, the key of each of its subscription groups.
LEMMA PlanNames ==
    ASSUME NEW j \in Jobs
    PROVE  /\ \A g \in Elements(Package[j].std), kind \in {"group", "key"} :
                 \E k \in DOMAIN Plan(j) : Plan(j)[k] = Task(kind, g)
           /\ Package[j].value = "days" =>
                 \A g \in Elements(Package[j].sub) :
                     \E k \in DOMAIN Plan(j) : Plan(j)[k] = Task("key", g)
<1> DEFINE p == Package[j]
           G == Grants("group", p.std)
           S == Grants("sub", p.sub)
           B == <<Task("balance", none)>>
<1>1. p.std \in Seq(Groups) /\ p.sub \in Seq(Groups)
  BY PackageAssumption
<1>2. /\ G \in Seq(PlanTasks) /\ Len(G) = 2 * Len(p.std)
      /\ S \in Seq(PlanTasks) /\ Len(S) = 2 * Len(p.sub)
      /\ \A i \in DOMAIN p.std : 2 * i - 1 \in 1..Len(G) /\ G[2 * i - 1] = Task("group", p.std[i])
  BY <1>1, GrantsShape
<1>3. /\ \A i \in DOMAIN p.std : 2 * i \in 1..Len(G) /\ G[2 * i] = Task("key", p.std[i])
      /\ \A i \in DOMAIN p.sub : 2 * i \in 1..Len(S) /\ S[2 * i] = Task("key", p.sub[i])
  BY <1>1, <1>2, GrantsKeys
<1>4. B \in Seq(PlanTasks) /\ Len(B) = 1
  BY DEF Task, PlanTasks, Tasks
<1>5. Plan(j) = IF p.value = "balance" THEN B \o G ELSE G \o S
  BY DEF Plan
<1> HIDE DEF G, S, B
<1>6. /\ \A i \in 1..Len(G) : \E k \in DOMAIN Plan(j) : Plan(j)[k] = G[i]
      /\ p.value # "balance" =>
            \A i \in 1..Len(S) : \E k \in DOMAIN Plan(j) : Plan(j)[k] = S[i]
  <2>1. CASE p.value = "balance"
    <3>1. B \o G \in Seq(PlanTasks) /\ Len(B \o G) = Len(B) + Len(G)
      BY <1>2, <1>4, ConcatProperties
    <3>2. \A i \in 1..Len(B) + Len(G) :
             (B \o G)[i] = IF i <= Len(B) THEN B[i] ELSE G[i - Len(B)]
      BY <1>2, <1>4, ConcatProperties
    <3>3. Plan(j) = B \o G /\ Len(G) \in Nat
      BY <1>2, <1>5, <2>1
    <3>4. DOMAIN Plan(j) = 1..1 + Len(G)
      BY <1>4, <3>1, <3>3
    <3>5. ASSUME NEW i \in 1..Len(G)
          PROVE  i + 1 \in DOMAIN Plan(j) /\ Plan(j)[i + 1] = G[i]
      <4>1. /\ i + 1 \in 1..1 + Len(G) /\ ~(i + 1 <= 1) /\ (i + 1) - 1 = i
        BY <3>3
      <4> QED
        BY <1>4, <3>2, <3>3, <3>4, <4>1
    <3> QED
      BY <2>1, <3>5
  <2>2. CASE p.value # "balance"
    <3>1. G \o S \in Seq(PlanTasks) /\ Len(G \o S) = Len(G) + Len(S)
      BY <1>2, ConcatProperties
    <3>2. \A i \in 1..Len(G) + Len(S) :
             (G \o S)[i] = IF i <= Len(G) THEN G[i] ELSE S[i - Len(G)]
      BY <1>2, ConcatProperties
    <3>3. Plan(j) = G \o S /\ Len(G) \in Nat /\ Len(S) \in Nat
      BY <1>2, <1>5, <2>2
    <3>4. DOMAIN Plan(j) = 1..Len(G) + Len(S)
      BY <3>1, <3>3
    <3>5. ASSUME NEW i \in 1..Len(G) PROVE i \in DOMAIN Plan(j) /\ Plan(j)[i] = G[i]
      <4>1. i \in 1..Len(G) + Len(S) /\ i <= Len(G)
        BY <3>3
      <4> QED
        BY <3>2, <3>3, <3>4, <4>1
    <3>6. ASSUME NEW i \in 1..Len(S)
          PROVE  Len(G) + i \in DOMAIN Plan(j) /\ Plan(j)[Len(G) + i] = S[i]
      <4>1. /\ Len(G) + i \in 1..Len(G) + Len(S) /\ ~(Len(G) + i <= Len(G))
            /\ (Len(G) + i) - Len(G) = i
        BY <3>3
      <4> QED
        BY <3>2, <3>3, <3>4, <4>1
    <3> QED
      BY <3>5, <3>6
  <2> QED
    BY <2>1, <2>2
<1>7. ASSUME NEW i \in DOMAIN p.std, NEW kind \in {"group", "key"}
      PROVE  \E k \in DOMAIN Plan(j) : Plan(j)[k] = Task(kind, p.std[i])
  <2>1. \E n \in 1..Len(G) : G[n] = Task(kind, p.std[i])
    BY <1>2, <1>3
  <2> QED
    BY <1>6, <2>1
<1>8. ASSUME NEW i \in DOMAIN p.sub, p.value = "days"
      PROVE  \E k \in DOMAIN Plan(j) : Plan(j)[k] = Task("key", p.sub[i])
  <2>1. \E n \in 1..Len(S) : S[n] = Task("key", p.sub[i])
    BY <1>3
  <2> QED
    BY <1>6, <1>8, <2>1
<1> QED
  BY <1>7, <1>8 DEF Elements

------------------------------------------------------------------------------
(* How far an execution has come in its plan.                                 *)

\* The tasks it is past.
Passed(e) ==
    IF pc[e] \in {"look", "act"} THEN 1..step[e] - 1
    ELSE IF pc[e] \in LocalPlaces \/ (pc[e] = "apply" /\ result[e] = "ok")
    THEN DOMAIN Plan(at[e]) ELSE {}

Passes(e) == Advance(e) /\ (Look(e) \/ Write(e) \/ Replayed(e) \/ Conflicts(e))

\* Plans do not change.
LEMMA PlanStays == \A j \in Jobs : Plan(j)' = Plan(j)
BY DEF Plan, Grants, Task

\* Who enters a task is past those before it.
LEMMA PassedEntering ==
    ASSUME IInv, NEW e \in Executors, at[e] \in Jobs, at' = at,
           NEW n \in Nat \ {0}, n <= Len(Plan(at[e])) + 1, EnterTask(e, n)
    PROVE  Passed(e)' = 1..n - 1
<1>0. Len(Plan(at[e])) \in Nat /\ DOMAIN Plan(at[e]) = 1..Len(Plan(at[e]))
  BY PlanShape
<1>1. Plan(at[e])' = Plan(at[e])
  BY DEF Plan, Grants, Task
<1>2. /\ step'[e] = n
      /\ \/ pc'[e] \in {"look", "act"}
         \/ pc'[e] = "find" /\ n = Len(Plan(at[e])) + 1
  BY Entering
<1>3. CASE pc'[e] \in {"look", "act"}
  BY <1>2, <1>3 DEF Passed
<1>4. CASE pc'[e] = "find" /\ n = Len(Plan(at[e])) + 1
  BY <1>0, <1>1, <1>4 DEF Passed, LocalPlaces
<1> QED
  BY <1>2, <1>3, <1>4

\* An execution gets past a task only by going on from it.
LEMMA PassedStep ==
    ASSUME IInv, NEW e \in Executors, ExecutorMoves(e), NEW k \in Passed(e)'
    PROVE  /\ at' = at /\ at[e] \in Jobs /\ k \in DOMAIN Plan(at[e])
           /\ k \in Passed(e) \/ (Passes(e) /\ k = step[e])
<1>1. /\ pc \in [Executors -> Places] /\ step \in [Executors -> Nat]
      /\ result \in [Executors -> {"ok", "retryable", "terminal"}]
  BY DEF IInv, TypeOK
<1>2. ASSUME NEW r \in Failures, Stop(e, r) PROVE FALSE
  BY <1>1, <1>2 DEF Stop, Goto, Failures, Passed, LocalPlaces
<1>3. CASE \E j \in Jobs : Start(e, j)
  BY <1>1, <1>3 DEF Start, Goto, Passed, LocalPlaces
<1>4. CASE Apply(e) \/ Crash(e)
  BY <1>1, <1>4 DEF Apply, Crash, Forget, Goto, Passed, LocalPlaces
<1>5. CASE Load(e)
  <2>1. at[e] \in Jobs /\ Len(Plan(at[e])) \in Nat /\ EnterTask(e, 1) /\ at' = at
    BY <1>5, PlanShape DEF Load, IInv, PlaceShape
  <2>2. Passed(e)' = 1..1 - 1
    BY <2>1, PassedEntering
  <2> QED
    BY <2>2
<1>6. CASE Passes(e)
  <2>1. pc[e] \in {"look", "act"} /\ at' = at /\ EnterTask(e, step[e] + 1)
    BY <1>6 DEF Passes, Look, Write, Replayed, Conflicts, Memory, Advance
  <2>2. /\ at[e] \in Jobs /\ step[e] \in 1..Len(Plan(at[e])) /\ Len(Plan(at[e])) \in Nat
        /\ DOMAIN Plan(at[e]) = 1..Len(Plan(at[e]))
    BY <2>1, CurrentShape, PlanShape
  <2>3. Passed(e)' = 1..(step[e] + 1) - 1
    BY <2>1, <2>2, PassedEntering
  <2>4. Passed(e) = 1..step[e] - 1
    BY <2>1 DEF Passed
  <2> QED
    BY <1>6, <2>1, <2>2, <2>3, <2>4
<1>7. CASE Look(e) /\ ~Passes(e)
  <2>1. /\ pc[e] = "look" /\ pc'[e] = "act" /\ at' = at /\ step' = step
    BY <1>1, <1>7 DEF Look, Goto, Passes
  <2>2. at[e] \in Jobs /\ step[e] \in 1..Len(Plan(at[e])) /\ DOMAIN Plan(at[e]) = 1..Len(Plan(at[e]))
    BY <2>1, CurrentShape, PlanShape
  <2>3. Passed(e)' = Passed(e) /\ Passed(e) = 1..step[e] - 1
    BY <2>1 DEF Passed
  <2> QED
    BY <2>1, <2>2, <2>3
<1>8. CASE (Write(e) \/ Replayed(e) \/ Conflicts(e) \/ Outlived(e) \/ CallFails(e)) /\ ~Passes(e)
  <2>1. \E r \in Failures : Stop(e, r)
    BY <1>8 DEF Write, Replayed, Conflicts, Outlived, CallFails, Passes, Failures
  <2> QED
    BY <1>2, <2>1
<1>9. CASE Local(e)
  <2>1. pc[e] \in LocalPlaces /\ at' = at
    BY <1>9 DEF Local, Find, Pick, End, Insert, Expiry, Lengthen, StoreFails, Memory, LocalPlaces
  <2>2. at[e] \in Jobs
    BY <2>1 DEF IInv, PlaceShape, LocalPlaces
  <2>3. pc'[e] \notin {"look", "act"}
    BY <1>1, <1>9 DEF Local, Find, Pick, End, Insert, Expiry, Lengthen, StoreFails, Stop, Goto
  <2>4. Plan(at[e])' = Plan(at[e])
    BY <2>1 DEF Plan, Grants, Task
  <2>5. Passed(e) = DOMAIN Plan(at[e])
    BY <2>1 DEF Passed, LocalPlaces
  <2>6. Passed(e)' \subseteq DOMAIN Plan(at[e])
    BY <2>3, <2>4 DEF Passed
  <2> QED
    BY <2>1, <2>2, <2>5, <2>6
<1> QED
  BY <1>3, <1>4, <1>5, <1>6, <1>7, <1>8, <1>9 DEF ExecutorMoves, Walk

\* Only an execution that is past its whole plan has its job recorded as
\* fulfilled.
LEMMA FulfilledStep ==
    ASSUME IInv, NEW e \in Executors, ExecutorMoves(e), NEW j \in Jobs,
           status'[j] = "fulfilled", status[j] # "fulfilled"
    PROVE  j = at[e] /\ Passed(e) = DOMAIN Plan(j)
<1>1. CASE Apply(e)
  <2>1. PICK s \in Outcome(result[e]) : status' = [status EXCEPT ![at[e]] = s]
    BY <1>1 DEF Apply
  <2>2. j = at[e] /\ s = "fulfilled"
    BY <1>1, <2>1 DEF IInv, TypeOK
  <2>3. pc[e] = "apply" /\ result[e] = "ok"
    BY <1>1, <2>2 DEF Apply, Outcome
  <2> QED
    BY <2>2, <2>3 DEF Passed
<1>2. CASE \E i \in Jobs : Start(e, i)
  BY <1>2 DEF Start, IInv, TypeOK
<1>3. CASE Walk(e) \/ Local(e) \/ Crash(e)
  BY <1>3 DEF Walk, Load, Look, Write, Replayed, Conflicts, Outlived, CallFails, Local, Find, Pick,
              End, Insert, Expiry, Lengthen, StoreFails, Crash
<1> QED
  BY <1>1, <1>2, <1>3 DEF ExecutorMoves

\* The call of a task, by its kind.
LEMMA CallTask ==
    ASSUME IInv, NEW e \in Executors, pc[e] = "act"
    PROVE  /\ Current(e) \in PlanTasks
           /\ Call(e).key = CallKey(e) /\ CallKey(e).group = Current(e).group
           /\ \A kind \in {"group", "key"} : CallKey(e).kind = kind <=> Current(e).kind = kind
           /\ Current(e).kind = "group" => Call(e).body = view[e] \union {Current(e).group}
<1>1. \A kind \in {"group", "key"} : CallKey(e).kind = kind <=> Current(e).kind = kind
  BY DEF CallKey
<1> QED
  BY <1>1, CurrentShape, CallOf DEF Call, Body

------------------------------------------------------------------------------
(* Keys that exist: executions may overlap.                                   *)

Keyed(t) == t.kind = "key" => t.group \in keyed
AllKeyed(j) == \A k \in DOMAIN Plan(j) : Keyed(Plan(j)[k])
PassedKeyed(e) == \A k \in Passed(e) : Keyed(Plan(at[e])[k])

\* A key carried out exists.
DoneKeyed == \A c \in done : c.key.kind = "key" => c.key.group \in keyed

KeysInv ==
    answered =>
        /\ running = {}
        /\ DoneKeyed
        /\ \A e \in Executors : PassedKeyed(e)
        /\ \A j \in Jobs : status[j] = "fulfilled" => AllKeyed(j)

\* No step takes a key away, and none that is answered leaves a call running.
LEMMA KeysGrow ==
    ASSUME IInv, KeysInv, [Next]_vars, answered'
    PROVE  /\ answered /\ keyed \subseteq keyed' /\ running' = {}
           /\ \A j \in Jobs : AllKeyed(j) => AllKeyed(j)'
<1>1. /\ answered /\ keyed \subseteq keyed'
      /\ running' = running \/ \E c \in running : Settle(c)
  <2>1. ASSUME NEW e \in Executors, ExecutorMoves(e)
        PROVE  answered /\ keyed \subseteq keyed' /\ running' = running
    <3>1. CASE Write(e)
      BY <3>1 DEF Write, CarryOut, NoFault
    <3>2. CASE ~Write(e)
      BY <2>1, <3>2 DEF ExecutorMoves, Start, Walk, Load, Look, Replayed, Conflicts, Outlived,
         CallFails, Local, Find, Pick, End, Insert, Expiry, Lengthen, StoreFails, Apply, Crash,
         NoFault, upstream
    <3> QED
      BY <3>1, <3>2
  <2>2. CASE \E c \in running : Settle(c)
    BY <2>2 DEF Settle, CarryOut
  <2>3. CASE (\E g \in Groups : Lapse(g)) \/ UNCHANGED vars
    BY <2>3 DEF Lapse, vars, upstream
  <2> QED
    BY <2>1, <2>2, <2>3 DEF Next, ExecutorMoves
<1>2. running = {}
  BY <1>1 DEF KeysInv
<1>3. ASSUME NEW j \in Jobs, AllKeyed(j) PROVE AllKeyed(j)'
  <2>1. Plan(j)' = Plan(j)
    BY PlanStays
  <2> QED
    BY <1>1, <1>3, <2>1 DEF AllKeyed, Keyed
<1> QED
  BY <1>1, <1>2, <1>3

\* Whoever goes on from the task of a key leaves the key behind.
LEMMA KeyPassed ==
    ASSUME IInv, KeysInv, NEW e \in Executors, ExecutorMoves(e), Passes(e), answered',
           Current(e).kind = "key"
    PROVE  Current(e).group \in keyed'
<1>1. answered /\ keyed \subseteq keyed' /\ running = {} /\ DoneKeyed
  BY KeysGrow DEF KeysInv, Next, ExecutorMoves
<1>2. CASE Look(e)
  <2>1. step'[e] # step[e]
    BY <1>2 DEF Passes, Advance, EnterTask, IInv, TypeOK
  <2>2. Current(e).group \in keyed
    BY <1>2, <2>1 DEF Look
  <2> QED
    BY <1>1, <2>2
<1>3. CASE Write(e)
  BY <1>3, CallTask DEF Write, CarryOut
<1>4. CASE Replayed(e)
  <2>1. pc[e] = "act" /\ Done(CallKey(e))
    BY <1>4 DEF Replayed
  <2> QED
    BY <1>1, <2>1, CallTask DEF Done, DoneKeyed
<1>5. CASE Conflicts(e)
  BY <1>1, <1>5, CallTask DEF Conflicts, Running, NameTaken
<1> QED
  BY <1>2, <1>3, <1>4, <1>5 DEF Passes

\* A call carried out for a key leaves the key.
LEMMA DoneKeyedStays ==
    ASSUME IInv, KeysInv, NEW e \in Executors, ExecutorMoves(e), answered'
    PROVE  DoneKeyed'
<1>1. keyed \subseteq keyed' /\ DoneKeyed
  BY KeysGrow DEF KeysInv, Next, ExecutorMoves
<1>2. CASE Write(e)
  BY <1>1, <1>2 DEF Write, CarryOut, DoneKeyed
<1>3. CASE ~Write(e)
  <2>1. done' = done
    BY <1>3 DEF ExecutorMoves, Start, Walk, Load, Look, Replayed, Conflicts, Outlived, CallFails,
       Local, Find, Pick, End, Insert, Expiry, Lengthen, StoreFails, Apply, Crash, upstream
  <2> QED
    BY <1>1, <2>1 DEF DoneKeyed
<1> QED
  BY <1>2, <1>3

\* A step of one execution keeps the keys of all.
LEMMA KeysMove ==
    ASSUME IInv, KeysInv, NEW e \in Executors, ExecutorMoves(e)
    PROVE  KeysInv'
<1> SUFFICES ASSUME answered'
             PROVE  /\ running' = {} /\ DoneKeyed'
                    /\ \A f \in Executors : PassedKeyed(f)'
                    /\ \A j \in Jobs : (status[j] = "fulfilled" => AllKeyed(j))'
  BY DEF KeysInv
<1>1. /\ answered /\ keyed \subseteq keyed' /\ running' = {}
      /\ \A j \in Jobs : AllKeyed(j) => AllKeyed(j)'
  BY KeysGrow DEF Next, ExecutorMoves
<1>2. /\ \A f \in Executors : PassedKeyed(f)
      /\ \A j \in Jobs : status[j] = "fulfilled" => AllKeyed(j)
  BY <1>1 DEF KeysInv
<1>3. PassedKeyed(e)'
  <2> SUFFICES ASSUME NEW k \in Passed(e)' PROVE Keyed(Plan(at[e])[k])'
    BY DEF PassedKeyed
  <2>1. PICK j \in Jobs : at[e] = j /\ at'[e] = j
    BY PassedStep
  <2>2. PICK t : t = Plan(j)[k]
    OBVIOUS
  <2>3. t.kind = "key" => t.group \in keyed'
    <3>1. CASE k \in Passed(e)
      BY <1>1, <1>2, <2>1, <2>2, <3>1 DEF PassedKeyed, Keyed
    <3>2. CASE Passes(e) /\ k = step[e]
      <4>1. t = Current(e)
        BY <2>1, <2>2, <3>2 DEF Current
      <4> QED
        BY <3>2, <4>1, KeyPassed
    <3> QED
      BY <3>1, <3>2, PassedStep
  <2>4. Plan(at[e])[k]' = t
    BY <2>1, <2>2, PlanStays
  <2> QED
    BY <2>3, <2>4 DEF Keyed
<1>4. ASSUME NEW f \in Executors \ {e} PROVE PassedKeyed(f)'
  <2>1. Same(f)
    BY OthersStay
  <2>2. Passed(f)' = Passed(f) /\ Plan(at[f])' = Plan(at[f])
    BY <2>1 DEF Same, Passed, LocalPlaces, Plan, Grants, Task
  <2> QED
    BY <1>1, <1>2, <2>2 DEF PassedKeyed, Keyed
<1>5. ASSUME NEW j \in Jobs, status'[j] = "fulfilled" PROVE AllKeyed(j)'
  <2>1. CASE status[j] = "fulfilled"
    BY <1>1, <1>2, <2>1
  <2>2. CASE status[j] # "fulfilled"
    <3>1. AllKeyed(j)
      BY <1>2, <1>5, <2>2, FulfilledStep DEF PassedKeyed, AllKeyed
    <3> QED
      BY <1>1, <3>1
  <2> QED
    BY <2>1, <2>2
<1> QED
  BY <1>1, <1>3, <1>4, <1>5, DoneKeyedStays

\* Every step keeps the keys; no call settles late while all are answered.
LEMMA KeysNext == IInv /\ KeysInv /\ [Next]_vars => KeysInv'
<1> SUFFICES ASSUME IInv, KeysInv, [Next]_vars PROVE KeysInv'
  OBVIOUS
<1>1. CASE \E c \in running : Settle(c)
  BY <1>1 DEF Settle, KeysInv
<1>2. CASE (\E g \in Groups : Lapse(g)) \/ UNCHANGED vars
  <2>1. UNCHANGED <<status, execs, keyed, done, running, answered>>
    BY <1>2 DEF Lapse, vars, upstream
  <2>2. ASSUME NEW e \in Executors, PassedKeyed(e) PROVE PassedKeyed(e)'
    <3>1. Passed(e)' = Passed(e) /\ Plan(at[e])' = Plan(at[e])
      BY <2>1 DEF execs, Passed, LocalPlaces, Plan, Grants, Task
    <3> QED
      BY <2>1, <2>2, <3>1 DEF PassedKeyed, Keyed
  <2>3. ASSUME NEW j \in Jobs, AllKeyed(j) PROVE AllKeyed(j)'
    BY <2>1, <2>3, PlanStays DEF AllKeyed, Keyed
  <2> QED
    BY <2>1, <2>2, <2>3 DEF KeysInv, DoneKeyed
<1> QED
  BY <1>1, <1>2, KeysMove DEF Next, ExecutorMoves

\* Nothing is under way at the start.
LEMMA KeysInit == Init => KeysInv
BY DEF Init, KeysInv, DoneKeyed, PassedKeyed, Passed, LocalPlaces

------------------------------------------------------------------------------
(* Groups that are allowed: executions do not overlap.                        *)

Allowed(t) == t.kind = "group" => t.group \in allowed
AllAllowed(j) == \A k \in DOMAIN Plan(j) : Allowed(Plan(j)[k])
PassedAllowed(e) == \A k \in Passed(e) : Allowed(Plan(at[e])[k])

\* Before the list of allowed groups is written it is held as it is.
ViewIsNow(e) == pc[e] = "act" /\ Current(e).kind = "group" => view[e] = allowed

\* Nobody has taken back what a call has allowed.
DoneAllowed ==
    \A c \in done : c.key.kind = "group" => c.key.group \in c.body /\ c.body \subseteq allowed

AllowedInv ==
    alone =>
        /\ DoneAllowed
        /\ \A e \in Executors : PassedAllowed(e) /\ ViewIsNow(e)
        /\ \A j \in Jobs : status[j] = "fulfilled" => AllAllowed(j)

\* A write adds the group of its task, and nothing else changes the list.
LEMMA AllowedGrows ==
    ASSUME IInv, Alone, AllowedInv, NEW e \in Executors, ExecutorMoves(e), alone'
    PROVE  /\ alone /\ DoneAllowed /\ allowed \subseteq allowed'
           /\ \/ UNCHANGED <<allowed, done>>
              \/ /\ Write(e) /\ done' = done \union {Call(e)}
                 /\ Current(e).kind # "group" => allowed' = allowed
                 /\ Current(e).kind = "group" =>
                       allowed' = Call(e).body /\ Current(e).group \in allowed'
<1>1. alone /\ DoneAllowed /\ ViewIsNow(e)
  BY MovesAlone DEF AllowedInv
<1>2. CASE Write(e)
  <2>1. pc[e] = "act" /\ CarryOut(Call(e))
    BY <1>2 DEF Write
  <2>2. /\ done' = done \union {Call(e)}
        /\ allowed' = IF Current(e).kind = "group" THEN Call(e).body ELSE allowed
    BY <2>1, CallTask DEF CarryOut
  <2>3. Current(e).kind = "group" => Call(e).body = allowed \union {Current(e).group}
    BY <1>1, <2>1, CallTask DEF ViewIsNow
  <2> QED
    BY <1>1, <1>2, <2>2, <2>3
<1>3. CASE ~Write(e)
  <2>1. UNCHANGED <<allowed, done>>
    BY <1>3 DEF ExecutorMoves, Start, Walk, Load, Look, Replayed, Conflicts, Outlived, CallFails,
       Local, Find, Pick, End, Insert, Expiry, Lengthen, StoreFails, Apply, Crash, upstream
  <2> QED
    BY <1>1, <2>1
<1> QED
  BY <1>2, <1>3

\* Whoever goes on from the task of a group leaves the group allowed.
LEMMA GroupPassed ==
    ASSUME IInv, Alone, AllowedInv, NEW e \in Executors, ExecutorMoves(e), Passes(e), alone',
           Current(e).kind = "group"
    PROVE  Current(e).group \in allowed'
<1>1. allowed \subseteq allowed' /\ DoneAllowed /\ running = {}
  BY AllowedGrows, MovesAlone
<1>2. CASE Look(e)
  <2>1. step'[e] # step[e]
    BY <1>2 DEF Passes, Advance, EnterTask, IInv, TypeOK
  <2>2. Current(e).group \in allowed
    BY <1>2, <2>1 DEF Look
  <2> QED
    BY <1>1, <2>2
<1>3. CASE Write(e)
  <2>1. pc[e] = "act" /\ CarryOut(Call(e))
    BY <1>3 DEF Write
  <2> QED
    BY <2>1, CallTask DEF CarryOut
<1>4. CASE Replayed(e)
  <2>1. pc[e] = "act" /\ Call(e) \in done
    <3>1. step'[e] # step[e]
      BY DEF Passes, Advance, EnterTask, IInv, TypeOK
    <3> QED
      BY <1>4, <3>1 DEF Replayed, Stop
  <2> QED
    BY <1>1, <2>1, CallTask DEF DoneAllowed
<1>5. CASE Conflicts(e)
  <2>1. pc[e] = "act" /\ NameTaken(CallKey(e))
    BY <1>1, <1>5 DEF Conflicts, Running
  <2> QED
    BY <2>1, CallTask DEF NameTaken
<1> QED
  BY <1>2, <1>3, <1>4, <1>5 DEF Passes

\* What an execution holds is what it has just read.
LEMMA ViewStays ==
    ASSUME IInv, Alone, AllowedInv, NEW e \in Executors, ExecutorMoves(e), alone'
    PROVE  ViewIsNow(e)'
<1>1. /\ pc \in [Executors -> Places] /\ view \in [Executors -> SUBSET Groups]
      /\ step \in [Executors -> Nat]
  BY DEF IInv, TypeOK
<1>2. CASE pc'[e] # "act"
  BY <1>2 DEF ViewIsNow
<1>3. CASE pc'[e] = "act" /\ (Load(e) \/ Passes(e))
  <2>1. PICK k \in Nat : EnterTask(e, k)
    BY <1>1, <1>3 DEF Load, Passes, Advance
  <2>2. pc'[e] = "act" => Plan(at[e])[k].kind = "balance" /\ step'[e] = k
    BY <1>1, <2>1 DEF EnterTask, Goto
  <2>3. at' = at
    BY <1>3 DEF Load, Passes, Look, Write, Replayed, Conflicts, Memory
  <2>4. Current(e)' = Plan(at[e])[k]
    BY <1>3, <2>2, <2>3 DEF Current, Plan, Grants, Task
  <2> QED
    BY <1>3, <2>2, <2>4 DEF ViewIsNow
<1>4. CASE Look(e) /\ ~Passes(e)
  <2>1. /\ at' = at /\ step' = step /\ allowed' = allowed
        /\ Current(e).kind = "group" => view' = [view EXCEPT ![e] = allowed]
    BY <1>4 DEF Look, Passes, upstream
  <2>2. Current(e)' = Current(e)
    BY <2>1 DEF Current, Plan, Grants, Task
  <2> QED
    BY <1>1, <2>1, <2>2 DEF ViewIsNow
<1>5. CASE ~Load(e) /\ ~Look(e) /\ ~Passes(e)
  BY <1>1, <1>5 DEF ExecutorMoves, Start, Walk, Write, Replayed, Conflicts, Outlived, CallFails,
     Local, Find, Pick, End, Insert, Expiry, Lengthen, StoreFails, Apply, Crash, Passes, Stop,
     Forget, Goto, ViewIsNow
<1> QED
  BY <1>2, <1>3, <1>4, <1>5

\* A step of one execution takes no group away.
LEMMA AllowedMove ==
    ASSUME IInv, Alone, AllowedInv, NEW e \in Executors, ExecutorMoves(e)
    PROVE  AllowedInv'
<1> SUFFICES ASSUME alone'
             PROVE  /\ DoneAllowed'
                    /\ \A f \in Executors : PassedAllowed(f)' /\ ViewIsNow(f)'
                    /\ \A j \in Jobs : (status[j] = "fulfilled" => AllAllowed(j))'
  BY DEF AllowedInv
<1>1. alone /\ DoneAllowed /\ allowed \subseteq allowed'
  BY AllowedGrows
<1>2. /\ PassedAllowed(e)
      /\ \A j \in Jobs : status[j] = "fulfilled" => AllAllowed(j)
  BY <1>1 DEF AllowedInv
<1>3. PassedAllowed(e)'
  <2> SUFFICES ASSUME NEW k \in Passed(e)' PROVE Allowed(Plan(at[e])[k])'
    BY DEF PassedAllowed
  <2>1. PICK j \in Jobs : at[e] = j /\ at'[e] = j
    BY PassedStep
  <2>2. PICK t : t = Plan(j)[k]
    OBVIOUS
  <2>3. t.kind = "group" => t.group \in allowed'
    <3>1. CASE k \in Passed(e)
      BY <1>1, <1>2, <2>1, <2>2, <3>1 DEF PassedAllowed, Allowed
    <3>2. CASE Passes(e) /\ k = step[e]
      <4>1. t = Current(e)
        BY <2>1, <2>2, <3>2 DEF Current
      <4> QED
        BY <3>2, <4>1, GroupPassed
    <3> QED
      BY <3>1, <3>2, PassedStep
  <2>4. Plan(at[e])[k]' = t
    BY <2>1, <2>2, PlanStays
  <2> QED
    BY <2>3, <2>4 DEF Allowed
<1>4. ASSUME NEW f \in Executors \ {e} PROVE PassedAllowed(f)' /\ ViewIsNow(f)'
  <2>1. pc'[f] = "idle"
    BY MovesAlone
  <2> QED
    BY <2>1 DEF PassedAllowed, Passed, LocalPlaces, ViewIsNow
<1>5. ASSUME NEW j \in Jobs, AllAllowed(j) PROVE AllAllowed(j)'
  BY <1>1, <1>5, PlanStays DEF AllAllowed, Allowed
<1>6. ASSUME NEW j \in Jobs, status'[j] = "fulfilled" PROVE AllAllowed(j)'
  <2>1. status[j] # "fulfilled" => AllAllowed(j)
    BY <1>2, <1>6, FulfilledStep DEF PassedAllowed, AllAllowed
  <2> QED
    BY <1>2, <1>5, <2>1
<1>7. DoneAllowed'
  <2> SUFFICES ASSUME NEW c \in done', c.key.kind = "group"
               PROVE  c.key.group \in c.body /\ c.body \subseteq allowed'
    BY DEF DoneAllowed
  <2>1. CASE c \in done
    BY <1>1, <2>1 DEF DoneAllowed
  <2>2. CASE c \notin done
    <3>1. /\ Write(e) /\ c = Call(e)
          /\ Current(e).kind = "group" =>
                allowed' = Call(e).body /\ Current(e).group \in allowed'
      BY <2>2, AllowedGrows
    <3>2. pc[e] = "act"
      BY <3>1 DEF Write
    <3> QED
      BY <3>1, <3>2, CallTask
  <2> QED
    BY <2>1, <2>2
<1> QED
  BY <1>3, <1>4, <1>6, <1>7, ViewStays

\* What a step outside the executions takes away is a subscription that ran
\* out; a call carried out late was not alone.
LEMMA AllowedNext == IInv /\ Alone /\ AllowedInv /\ [Next]_vars => AllowedInv'
<1> SUFFICES ASSUME IInv, Alone, AllowedInv, [Next]_vars PROVE AllowedInv'
  OBVIOUS
<1>1. CASE \E c \in running : Settle(c)
  BY <1>1 DEF Settle, Alone, AllowedInv
<1>2. CASE (\E g \in Groups : Lapse(g)) \/ UNCHANGED vars
  <2>1. UNCHANGED <<status, execs, allowed, done, alone>>
    BY <1>2 DEF Lapse, vars, upstream
  <2>2. ASSUME NEW e \in Executors, PassedAllowed(e) /\ ViewIsNow(e)
        PROVE  PassedAllowed(e)' /\ ViewIsNow(e)'
    <3>1. /\ Passed(e)' = Passed(e) /\ Plan(at[e])' = Plan(at[e])
          /\ Current(e)' = Current(e) /\ pc' = pc /\ view' = view
      BY <2>1 DEF execs, Passed, LocalPlaces, Current, Plan, Grants, Task
    <3> QED
      BY <2>1, <2>2, <3>1 DEF PassedAllowed, Allowed, ViewIsNow
  <2>3. ASSUME NEW j \in Jobs, AllAllowed(j) PROVE AllAllowed(j)'
    BY <2>1, <2>3, PlanStays DEF AllAllowed, Allowed
  <2> QED
    BY <2>1, <2>2, <2>3 DEF AllowedInv, DoneAllowed
<1> QED
  BY <1>1, <1>2, AllowedMove DEF Next, ExecutorMoves

\* No group is allowed at the start, and none need be.
LEMMA AllowedInit == Init => AllowedInv
BY DEF Init, AllowedInv, DoneAllowed, PassedAllowed, Passed, ViewIsNow, LocalPlaces

\* Whatever fails, dies and is retried, a purchase recorded as fulfilled leaves
\* a key in each of its groups, while no call outlives its caller, and each
\* standard group of its package allowed, while executions do not overlap
\* either.
THEOREM FulfilledMeansUsable == Spec => []FulfilledIsUsable
<1>1. ASSUME NEW j \in Jobs, NEW g
      PROVE  /\ AllAllowed(j) /\ (\E k \in DOMAIN Plan(j) : Plan(j)[k] = Task("group", g)) =>
                   g \in allowed
             /\ AllKeyed(j) /\ (\E k \in DOMAIN Plan(j) : Plan(j)[k] = Task("key", g)) =>
                   g \in keyed
  <2>1. Allowed(Task("group", g)) => g \in allowed
    BY DEF Allowed, Task
  <2>2. Keyed(Task("key", g)) => g \in keyed
    BY DEF Keyed, Task
  <2> QED
    BY <2>1, <2>2 DEF AllAllowed, AllKeyed
<1>2. IInv /\ KeysInv /\ AllowedInv => FulfilledIsUsable
  <2> SUFFICES ASSUME KeysInv, AllowedInv, NEW j \in Jobs, status[j] = "fulfilled"
               PROVE  LET p == Package[j]
                      IN  /\ alone => Elements(p.std) \subseteq allowed
                          /\ answered => Elements(p.std) \subseteq keyed
                          /\ answered /\ p.value = "days" => Elements(p.sub) \subseteq keyed
    BY DEF FulfilledIsUsable
  <2>1. (alone => AllAllowed(j)) /\ (answered => AllKeyed(j))
    BY DEF KeysInv, AllowedInv
  <2>2. ASSUME NEW g \in Elements(Package[j].std)
        PROVE  (alone => g \in allowed) /\ (answered => g \in keyed)
    <3>1. \A kind \in {"group", "key"} : \E k \in DOMAIN Plan(j) : Plan(j)[k] = Task(kind, g)
      BY PlanNames
    <3> QED
      BY <1>1, <2>1, <3>1
  <2>3. ASSUME NEW g \in Elements(Package[j].sub), Package[j].value = "days", answered
        PROVE  g \in keyed
    <3>1. \E k \in DOMAIN Plan(j) : Plan(j)[k] = Task("key", g)
      BY <2>3, PlanNames
    <3> QED
      BY <1>1, <2>1, <2>3, <3>1
  <2> QED
    BY <2>2, <2>3
<1>3. Init => IInv /\ Alone /\ KeysInv /\ AllowedInv
  BY InitOK, AloneInit, KeysInit, AllowedInit
<1>4. IInv /\ Alone /\ KeysInv /\ AllowedInv /\ [Next]_vars
         => IInv' /\ Alone' /\ KeysInv' /\ AllowedInv'
  BY NextOK, AloneNext, KeysNext, AllowedNext
<1> QED
  BY <1>2, <1>3, <1>4, PTL DEF Spec

------------------------------------------------------------------------------
(* The local rows.                                                            *)

\* A package is looked up by its code, so purchases of one tier buy one kind of
\* value; an admin does not change it between two of them.
TierFixesValue ==
    \A i, j \in Jobs : Package[i].tier = Package[j].tier => Package[i].value = Package[j].value

\* An execution has inserted row i and has not entered its days.
Fresh(i) ==
    \E e \in Executors : pc[e] \in {"expiry", "lengthen"} /\ ~existed[e] /\ row[e] = i

\* Row i belongs to a package that is not sold by the day.
Unlimited(i) == \E j \in Jobs : Package[j].tier = subs[i].tier /\ Package[j].value # "days"

\* A row with an expiry has a period for each of its payers; one that nobody
\* has paid for is being worked on, or has no expiry at all.
RowFits(i) ==
    LET r == subs[i]
    IN  /\ r.days = 0 => r.by \subseteq {prior}
        /\ r.days # 0 => IsFiniteSet(r.by) /\ r.days = Cardinality(r.by)
        /\ r.days = 0 /\ r.by = {} => Fresh(i) \/ Unlimited(i)

\* A purchase has been recorded as fulfilled, or is about to be.
Reported(j) ==
    \/ status[j] = "fulfilled"
    \/ \E e \in Executors : at[e] = j /\ pc[e] = "apply" /\ result[e] = "ok"

\* Whoever works on a row works on the right one, and what it has read is still
\* so.
PlaceFits(e) ==
    /\ pc[e] = "pick" => \A i \in Live : subs[i].tier = Package[at[e]].tier
    /\ pc[e] = "insert" => ended[e] = Live
    /\ pc[e] \in {"expiry", "lengthen"} =>
          /\ subs[row[e]].tier = Package[at[e]].tier
          /\ ~existed[e] => subs[row[e]].days = 0 /\ subs[row[e]].by = {}
    /\ pc[e] = "lengthen" => Package[at[e]].value = "days" /\ days[e] = subs[row[e]].days

OneLive == \A i, k \in Live : i = k
AllRowsFit == \A i \in DOMAIN subs : RowFits(i)
PayersReported == \A i \in DOMAIN subs : \A j \in Jobs \intersect subs[i].by : Reported(j)

RowsInv ==
    Clean =>
        /\ OneLive /\ AllRowsFit /\ PayersReported
        /\ \A e \in Executors : PlaceFits(e)

\* While moreover no process dies and no statement fails, it was so before.
LEMMA MovesClean ==
    ASSUME IInv, Alone, NEW e \in Executors, ExecutorMoves(e), Clean'
    PROVE  /\ Clean /\ running = {} /\ running' = {}
           /\ \A f \in Executors \ {e} : pc[f] = "idle" /\ pc'[f] = "idle"
           /\ AtWork(e) => at[e] \in Jobs /\ status[at[e]] = "open"
<1>1. alone' /\ whole'
  BY DEF Clean
<1>2. whole
  BY <1>1
     DEF ExecutorMoves, Start, Walk, Load, Look, Write, Replayed, Conflicts, Outlived, CallFails,
         Local, Find, Pick, End, Insert, Expiry, Lengthen, StoreFails, Apply, Crash, NoFault
<1> QED
  BY <1>1, <1>2, MovesAlone DEF Clean

\* An execution keeps the invariant when it keeps its own place and the rows.
LEMMA RowsKeep ==
    ASSUME IInv, Alone, RowsInv, NEW e \in Executors, ExecutorMoves(e),
           Clean' => OneLive' /\ AllRowsFit' /\ PayersReported' /\ PlaceFits(e)'
    PROVE  RowsInv'
<1> SUFFICES ASSUME Clean' PROVE \A f \in Executors : PlaceFits(f)'
  BY DEF RowsInv
<1>1. \A f \in Executors \ {e} : pc'[f] = "idle"
  BY MovesClean
<1>2. \A f \in Executors \ {e} : PlaceFits(f)'
  BY <1>1 DEF PlaceFits
<1> QED
  BY <1>2

\* What was reported stays so.
LEMMA ReportsStay ==
    ASSUME IInv, Alone, NEW e \in Executors, ExecutorMoves(e), Clean'
    PROVE  \A j \in Jobs : Reported(j) => Reported(j)'
<1> SUFFICES ASSUME NEW j \in Jobs, Reported(j) PROVE Reported(j)'
  OBVIOUS
<1>1. /\ Clean /\ \A f \in Executors \ {e} : pc[f] = "idle"
      /\ pc[e] # "idle" => at[e] \in Jobs /\ status[at[e]] = "open"
  BY MovesClean DEF AtWork
<1>2. CASE status[j] = "fulfilled"
  <2>1. status' = status \/ \E i \in Jobs \ {j} : \E s : status' = [status EXCEPT ![i] = s]
    <3>1. CASE \E i \in Jobs : Start(e, i)
      <4>1. PICK i \in Jobs : Start(e, i)
        BY <3>1
      <4>2. i # j /\ status' = [status EXCEPT ![i] = "open"]
        BY <1>2, <4>1 DEF Start
      <4> QED
        BY <4>2
    <3>2. CASE Apply(e)
      <4>1. at[e] \in Jobs \ {j}
        BY <1>1, <1>2, <3>2 DEF Apply
      <4> QED
        BY <3>2, <4>1 DEF Apply
    <3>3. CASE Walk(e) \/ Local(e) \/ Crash(e)
      BY <3>3 DEF Walk, Load, Look, Write, Replayed, Conflicts, Outlived, CallFails,
                  Local, Find, Pick, End, Insert, Expiry, Lengthen, StoreFails, Crash
    <3> QED
      BY <3>1, <3>2, <3>3 DEF ExecutorMoves
  <2>2. status'[j] = "fulfilled"
    BY <1>2, <2>1 DEF IInv, TypeOK
  <2> QED
    BY <2>2 DEF Reported
<1>3. CASE status[j] # "fulfilled"
  <2>1. at[e] = j /\ pc[e] = "apply" /\ result[e] = "ok" /\ status[j] = "open"
    BY <1>1, <1>3 DEF Reported
  <2>2. Apply(e)
    BY <2>1 DEF Clean, ExecutorMoves, Start, Walk, Load, Look, Write, Replayed, Conflicts, Outlived,
                CallFails, Local, Find, Pick, End, Insert, Expiry, Lengthen, StoreFails, Crash
  <2>3. status'[j] = "fulfilled"
    BY <2>1, <2>2 DEF Apply, Outcome, IInv, TypeOK
  <2> QED
    BY <2>3 DEF Reported
<1> QED
  BY <1>2, <1>3

\* A step that writes no row keeps them, when the rows it has stopped working
\* on have no expiry.
LEMMA QuietRows ==
    ASSUME IInv, Alone, RowsInv, NEW e \in Executors, ExecutorMoves(e),
           subs' = subs, Clean' => PlaceFits(e)',
           \A i \in DOMAIN subs : Clean' /\ Fresh(i) => Fresh(i)' \/ Unlimited(i)
    PROVE  RowsInv'
<1> SUFFICES ASSUME Clean' PROVE OneLive' /\ AllRowsFit' /\ PayersReported'
  BY RowsKeep
<1>1. OneLive /\ AllRowsFit /\ PayersReported
  BY MovesClean DEF RowsInv
<1>2. OneLive' /\ PayersReported'
  BY <1>1, ReportsStay DEF OneLive, Live, PayersReported
<1>3. ASSUME NEW i \in DOMAIN subs PROVE RowFits(i)'
  <2>1. RowFits(i) /\ (Fresh(i) => Fresh(i)' \/ Unlimited(i))
    BY <1>1 DEF AllRowsFit
  <2>2. Unlimited(i)' <=> Unlimited(i)
    BY DEF Unlimited
  <2> QED
    BY <2>1, <2>2 DEF RowFits
<1> QED
  BY <1>2, <1>3 DEF AllRowsFit

\* Nothing outside the local part touches a row or leaves one half done.
LEMMA OutsideRows ==
    ASSUME IInv, Alone, RowsInv, NEW e \in Executors, ExecutorMoves(e), ~Local(e)
    PROVE  RowsInv'
<1>1. subs' = subs
  BY DEF ExecutorMoves, Start, Walk, Load, Look, Write, Replayed, Conflicts, Outlived, CallFails,
         Apply, Crash
<1>2. Clean' => pc[e] \notin {"expiry", "lengthen"}
  BY DEF Clean, ExecutorMoves, Start, Walk, Load, Look, Write, Replayed, Conflicts, Outlived, CallFails,
         Apply, Crash
<1>3. Clean' => \A i : ~Fresh(i)
  BY <1>2, MovesClean DEF Fresh
<1>4. Clean' => pc'[e] \notin {"pick", "insert", "expiry", "lengthen"}
  BY DEF Clean, ExecutorMoves, Start, Walk, Load, Look, Write, Replayed, Conflicts, Outlived, CallFails,
         Apply, Crash, Forget, Advance, EnterTask, Stop, Goto, IInv, TypeOK
<1>5. Clean' => PlaceFits(e)'
  BY <1>4 DEF PlaceFits
<1> QED
  BY <1>1, <1>3, <1>5, QuietRows

\* The current subscription is the one live row.
LEMMA FindRows ==
    ASSUME IInv, Alone, RowsInv, NEW e \in Executors, Find(e)
    PROVE  RowsInv'
<1>1. ExecutorMoves(e) /\ subs' = subs /\ at' = at /\ pc[e] = "find"
  BY DEF ExecutorMoves, Local, Find, Memory
<1>2. Clean' => PlaceFits(e)'
  <2> SUFFICES ASSUME Clean' PROVE PlaceFits(e)'
    OBVIOUS
  <2>1. OneLive /\ pc'[e] \in {"pick", "end"}
    BY <1>1, MovesClean DEF RowsInv, Find, Goto, IInv, TypeOK
  <2>2. pc'[e] = "pick" => \E i \in Live : Newest(i) /\ subs[i].tier = Package[at[e]].tier
    BY DEF Find, Goto, IInv, TypeOK
  <2>3. pc'[e] = "pick" => \A i \in Live : subs[i].tier = Package[at[e]].tier
    BY <2>1, <2>2 DEF OneLive
  <2> QED
    BY <1>1, <2>1, <2>3 DEF PlaceFits, Live
<1>3. Clean' => \A i : ~Fresh(i)
  BY <1>1, MovesClean DEF Fresh
<1> QED
  BY <1>1, <1>2, <1>3, QuietRows

\* The row picked is of the package's tier.
LEMMA PickRows ==
    ASSUME IInv, Alone, RowsInv, NEW e \in Executors, Pick(e)
    PROVE  RowsInv'
<1>1. ExecutorMoves(e) /\ subs' = subs /\ at' = at /\ pc[e] = "pick"
  BY DEF ExecutorMoves, Local, Pick
<1>2. Clean' => PlaceFits(e)'
  <2> SUFFICES ASSUME Clean' PROVE PlaceFits(e)'
    OBVIOUS
  <2>1. \A i \in Live : subs[i].tier = Package[at[e]].tier
    BY <1>1, MovesClean DEF RowsInv, PlaceFits
  <2>2. CASE \E i \in Live : /\ Newest(i)
                             /\ row' = [row EXCEPT ![e] = i]
                             /\ existed' = [existed EXCEPT ![e] = TRUE]
                             /\ Goto(e, "expiry")
    <3>1. PICK i \in Live : /\ row' = [row EXCEPT ![e] = i]
                            /\ existed' = [existed EXCEPT ![e] = TRUE]
                            /\ Goto(e, "expiry")
      BY <2>2
    <3>2. pc'[e] = "expiry" /\ row'[e] = i /\ existed'[e]
      BY <3>1 DEF Goto, IInv, TypeOK
    <3> QED
      BY <1>1, <2>1, <3>2 DEF PlaceFits
  <2>3. CASE Goto(e, "end")
    BY <2>3 DEF PlaceFits, Goto, IInv, TypeOK
  <2> QED
    BY <2>2, <2>3 DEF Pick
<1>3. Clean' => \A i : ~Fresh(i)
  BY <1>1, MovesClean DEF Fresh
<1> QED
  BY <1>1, <1>2, <1>3, QuietRows

\* The rows to be ended are the live ones.
LEMMA EndRows ==
    ASSUME IInv, Alone, RowsInv, NEW e \in Executors, End(e)
    PROVE  RowsInv'
<1>1. ExecutorMoves(e) /\ subs' = subs /\ at' = at /\ pc[e] = "end"
  BY DEF ExecutorMoves, Local, End
<1>2. PlaceFits(e)'
  <2>1. pc'[e] = "insert" /\ ended'[e] = Live
    BY DEF End, Goto, IInv, TypeOK
  <2> QED
    BY <1>1, <2>1 DEF PlaceFits, Live
<1>3. Clean' => \A i : ~Fresh(i)
  BY <1>1, MovesClean DEF Fresh
<1> QED
  BY <1>1, <1>2, <1>3, QuietRows

\* What the insert leaves: the old rows ended, a live one of the package's
\* tier behind them.
LEMMA Inserted ==
    ASSUME IInv, NEW e \in Executors, Insert(e)
    PROVE  /\ DOMAIN subs' = DOMAIN subs \union {Len(subs) + 1} /\ Len(subs) + 1 \notin DOMAIN subs
           /\ \A i \in DOMAIN subs :
                 /\ subs'[i].tier = subs[i].tier /\ subs'[i].days = subs[i].days
                 /\ subs'[i].by = subs[i].by
                 /\ subs'[i].live => subs[i].live /\ i \notin ended[e]
           /\ subs'[Len(subs) + 1] = [tier |-> Package[at[e]].tier, live |-> TRUE, days |-> 0,
                                      by |-> {}]
<1> DEFINE old == [i \in DOMAIN subs |-> [subs[i] EXCEPT !.live = @ /\ i \notin ended[e]]]
           new == [tier |-> Package[at[e]].tier, live |-> TRUE, days |-> 0, by |-> {}]
<1>1. subs \in Seq(Rows) /\ at[e] \in Jobs
  BY DEF IInv, TypeOK, Rows, PlaceShape, Insert
<1>2. \A i \in DOMAIN subs :
         /\ old[i] \in Rows /\ old[i].tier = subs[i].tier /\ old[i].days = subs[i].days
         /\ old[i].by = subs[i].by
         /\ old[i].live => subs[i].live /\ i \notin ended[e]
  <2> SUFFICES ASSUME NEW i \in DOMAIN subs
               PROVE  /\ old[i] \in Rows /\ old[i].tier = subs[i].tier
                      /\ old[i].days = subs[i].days /\ old[i].by = subs[i].by
                      /\ old[i].live => subs[i].live /\ i \notin ended[e]
    OBVIOUS
  <2>1. subs[i] \in Rows
    BY <1>1
  <2>2. (subs[i].live /\ i \notin ended[e]) \in BOOLEAN
    BY Zenon
  <2>3. old[i] = [subs[i] EXCEPT !.live = subs[i].live /\ i \notin ended[e]]
    OBVIOUS
  <2> QED
    BY <2>1, <2>2, <2>3 DEF Rows
<1>3. old \in Seq(Rows) /\ Len(old) = Len(subs) /\ DOMAIN subs = 1..Len(subs) /\ Len(subs) \in Nat
  <2>1. \A i \in DOMAIN subs : old[i] \in Rows
    BY <1>2
  <2> QED
    BY <1>1, <2>1
<1>4. subs' = Append(old, new)
  BY DEF Insert
<1> HIDE DEF old, new
<1>5. new \in Rows
  BY <1>1, PackageAssumption DEF Rows, new
<1>6. /\ DOMAIN subs' = 1..Len(subs) + 1 /\ subs'[Len(subs) + 1] = new
      /\ \A i \in DOMAIN subs : subs'[i] = old[i]
  BY <1>3, <1>4, <1>5
<1>7. DOMAIN subs' = DOMAIN subs \union {Len(subs) + 1} /\ Len(subs) + 1 \notin DOMAIN subs
  BY <1>3, <1>6
<1> QED
  BY <1>2, <1>6, <1>7 DEF new

\* The inserted row is the only live one, and is being worked on.
LEMMA InsertRows ==
    ASSUME IInv, Alone, RowsInv, NEW e \in Executors, Insert(e)
    PROVE  RowsInv'
<1>0. PICK n : n = Len(subs) + 1
  OBVIOUS
<1>1. ExecutorMoves(e) /\ at' = at /\ pc[e] = "insert"
  BY DEF ExecutorMoves, Local, Insert
<1> SUFFICES ASSUME Clean'
             PROVE  OneLive' /\ AllRowsFit' /\ PayersReported' /\ PlaceFits(e)'
  BY <1>1, RowsKeep
<1>2. /\ AllRowsFit /\ PayersReported /\ ended[e] = Live /\ at[e] \in Jobs
      /\ \A i : ~Fresh(i)
  BY <1>1, MovesClean DEF RowsInv, PlaceFits, Fresh, AtWork
<1>3. /\ DOMAIN subs' = DOMAIN subs \union {n} /\ n \notin DOMAIN subs
      /\ \A i \in DOMAIN subs :
            /\ subs'[i].tier = subs[i].tier /\ subs'[i].days = subs[i].days
            /\ subs'[i].by = subs[i].by
            /\ subs'[i].live => subs[i].live /\ i \notin ended[e]
      /\ subs'[n].tier = Package[at[e]].tier /\ subs'[n].days = 0 /\ subs'[n].by = {}
  <2>1. subs'[n] = [tier |-> Package[at[e]].tier, live |-> TRUE, days |-> 0, by |-> {}]
    BY <1>0, Inserted
  <2>2. subs'[n].tier = Package[at[e]].tier /\ subs'[n].days = 0 /\ subs'[n].by = {}
    BY <2>1
  <2> QED
    BY <1>0, <2>2, Inserted
<1>4. /\ pc'[e] = "expiry" /\ row' = [row EXCEPT ![e] = n]
      /\ existed' = [existed EXCEPT ![e] = FALSE]
  BY <1>0 DEF Clean, Insert, Goto, IInv, TypeOK
<1>5. row'[e] = n /\ ~existed'[e]
  BY <1>4 DEF IInv, TypeOK
<1>6. OneLive'
  <2>1. \A i \in DOMAIN subs : ~subs'[i].live
    BY <1>2, <1>3 DEF Live
  <2> QED
    BY <1>3, <2>1 DEF OneLive, Live
<1>7. PayersReported'
  BY <1>1, <1>2, <1>3, ReportsStay DEF PayersReported
<1>8. PlaceFits(e)'
  BY <1>1, <1>3, <1>4, <1>5 DEF PlaceFits
<1>9. ASSUME NEW i \in DOMAIN subs PROVE RowFits(i)'
  <2>1. RowFits(i) /\ ~Fresh(i)
    BY <1>2 DEF AllRowsFit
  <2>2. Unlimited(i) => Unlimited(i)'
    BY <1>3 DEF Unlimited
  <2> QED
    BY <1>3, <2>1, <2>2 DEF RowFits
<1>10. RowFits(n)'
  <2>1. Fresh(n)'
    BY <1>4, <1>5 DEF Fresh
  <2> QED
    BY <1>3, <2>1 DEF RowFits
<1> QED
  BY <1>3, <1>6, <1>7, <1>8, <1>9, <1>10 DEF AllRowsFit

\* A package that is not sold by the day leaves its row without an expiry; one
\* that is reads the expiry it will lengthen.
LEMMA ExpiryRows ==
    ASSUME IInv, Alone, RowsInv, NEW e \in Executors, Expiry(e)
    PROVE  RowsInv'
<1>1. /\ ExecutorMoves(e) /\ UNCHANGED <<subs, at, row, existed>> /\ pc[e] = "expiry"
      /\ at[e] \in Jobs
  BY DEF ExecutorMoves, Local, Expiry, IInv, PlaceShape
<1>2. Clean' => PlaceFits(e) /\ \A f \in Executors \ {e} : pc[f] = "idle"
  BY <1>1, MovesClean DEF RowsInv
<1>3. CASE Package[at[e]].value = "days"
  <2>1. pc'[e] = "lengthen" /\ days'[e] = subs[row[e]].days
    BY <1>3 DEF Expiry, Goto, IInv, TypeOK
  <2>2. Clean' => PlaceFits(e)'
    BY <1>1, <1>2, <1>3, <2>1 DEF PlaceFits
  <2>3. \A i : Clean' /\ Fresh(i) => Fresh(i)'
    BY <1>1, <1>2, <2>1 DEF Fresh
  <2> QED
    BY <1>1, <2>2, <2>3, QuietRows
<1>4. CASE Package[at[e]].value # "days"
  <2>1. pc'[e] = "apply"
    BY <1>4 DEF Expiry, Stop, Goto, IInv, TypeOK
  <2>2. PlaceFits(e)'
    BY <2>1 DEF PlaceFits
  <2>3. ASSUME NEW i \in DOMAIN subs, Clean', Fresh(i) PROVE Unlimited(i)
    <3>1. row[e] = i /\ subs[i].tier = Package[at[e]].tier
      BY <1>1, <1>2, <2>3 DEF Fresh, PlaceFits
    <3> QED
      BY <1>1, <1>4, <3>1 DEF Unlimited
  <2> QED
    BY <1>1, <2>2, <2>3, QuietRows
<1> QED
  BY <1>3, <1>4

\* The row that is lengthened gets one more payer and one more period.
LEMMA LengthenRows ==
    ASSUME TierFixesValue, IInv, Alone, RowsInv, NEW e \in Executors, Lengthen(e)
    PROVE  RowsInv'
<1>0. PICK r, j : r = row[e] /\ j = at[e]
  OBVIOUS
<1>1. /\ ExecutorMoves(e) /\ pc[e] = "lengthen" /\ at' = at
      /\ j \in Jobs /\ r \in DOMAIN subs /\ subs \in Seq(Rows) /\ subs[r] \in Rows
  <2>1. ExecutorMoves(e) /\ pc[e] = "lengthen" /\ at' = at
    BY DEF ExecutorMoves, Local, Lengthen, Memory
  <2>2. j \in Jobs /\ r \in DOMAIN subs
    BY <1>0, <2>1 DEF IInv, PlaceShape
  <2>3. subs \in Seq(Rows)
    BY DEF IInv, TypeOK, Rows
  <2> QED
    BY <2>1, <2>2, <2>3
<1> SUFFICES ASSUME Clean'
             PROVE  OneLive' /\ AllRowsFit' /\ PayersReported' /\ PlaceFits(e)'
  BY <1>1, RowsKeep
<1>2. /\ OneLive /\ AllRowsFit /\ PayersReported /\ PlaceFits(e)
      /\ \A f \in Executors \ {e} : pc[f] = "idle"
      /\ status[j] = "open"
  BY <1>0, <1>1, MovesClean DEF RowsInv, AtWork
<1>3. /\ Package[j].value = "days" /\ subs[r].tier = Package[j].tier
      /\ days[e] = subs[r].days
      /\ ~existed[e] => subs[r].days = 0 /\ subs[r].by = {}
  BY <1>0, <1>1, <1>2 DEF PlaceFits
<1>4. PICK d : d = Lengthened(e)
  OBVIOUS
<1>5. /\ d \in Nat \ {0}
      /\ subs[r].days # 0 => d = subs[r].days + 1
      /\ subs[r].days = 0 => IF existed[e] THEN d = 2 ELSE d = 1
  <2>1. days[e] \in Nat
    BY DEF IInv, TypeOK
  <2>2. CASE existed[e]
    BY <1>3, <1>4, <2>1, <2>2 DEF Lengthened
  <2>3. CASE ~existed[e]
    BY <1>3, <1>4, <2>3 DEF Lengthened
  <2> QED
    BY <2>2, <2>3
<1>6. /\ DOMAIN subs' = DOMAIN subs
      /\ \A i \in DOMAIN subs \ {r} : subs'[i] = subs[i]
      /\ subs'[r].tier = subs[r].tier /\ subs'[r].live = subs[r].live
      /\ subs'[r].days = d /\ subs'[r].by = subs[r].by \union {j}
  <2>1. subs' = [subs EXCEPT ![r] = [subs[r] EXCEPT !.days = d, !.by = subs[r].by \union {j}]]
    BY <1>0, <1>1, <1>4 DEF Lengthen, Rows
  <2>2. subs'[r] = [subs[r] EXCEPT !.days = d, !.by = subs[r].by \union {j}]
    BY <1>1, <2>1
  <2> QED
    BY <1>1, <2>1, <2>2 DEF Rows
<1>7. pc'[e] = "apply" /\ result'[e] = "ok"
  BY DEF Lengthen, Stop, Goto, IInv, TypeOK
<1>8. PlaceFits(e)'
  BY <1>7 DEF PlaceFits
<1>9. OneLive'
  BY <1>2, <1>6 DEF OneLive, Live
<1>10. PayersReported'
  <2>1. Reported(j)'
    BY <1>0, <1>1, <1>7 DEF Reported
  <2>2. \A i \in Jobs : Reported(i) => Reported(i)'
    BY <1>1, ReportsStay
  <2>3. \A i \in DOMAIN subs : \A k \in Jobs \intersect subs'[i].by : k = j \/ k \in subs[i].by
    BY <1>6
  <2> QED
    BY <1>2, <1>6, <2>1, <2>2, <2>3 DEF PayersReported
<1>11. j \notin subs[r].by
  <2>1. ~Reported(j)
    BY <1>1, <1>2 DEF Reported
  <2> QED
    BY <1>1, <1>2, <2>1 DEF PayersReported
<1>12. RowFits(r)'
  <2>1. IsFiniteSet(subs[r].by) /\ Cardinality(subs[r].by) = d - 1
    <3>1. RowFits(r)
      BY <1>1, <1>2 DEF AllRowsFit
    <3>2. CASE subs[r].days # 0
      <4>1. IsFiniteSet(subs[r].by) /\ subs[r].days = Cardinality(subs[r].by)
        BY <3>1, <3>2 DEF RowFits
      <4>2. d - 1 = subs[r].days
        BY <1>1, <1>5, <3>2 DEF Rows
      <4> QED
        BY <4>1, <4>2
    <3>3. CASE subs[r].days = 0 /\ ~existed[e]
      <4>1. subs[r].by = {} /\ d = 1
        BY <1>3, <1>5, <3>3
      <4> QED
        BY <4>1, FS_EmptySet
    <3>4. CASE subs[r].days = 0 /\ existed[e]
      <4>1. d = 2 /\ subs[r].by \subseteq {prior}
        BY <1>5, <3>1, <3>4 DEF RowFits
      <4>2. ~Fresh(r)
        BY <1>0, <1>2, <3>4 DEF Fresh
      <4>3. ~Unlimited(r)
        BY <1>1, <1>3 DEF Unlimited, TierFixesValue
      <4>4. subs[r].by # {}
        BY <3>1, <3>4, <4>2, <4>3 DEF RowFits
      <4>5. subs[r].by = {prior}
        BY <4>1, <4>4
      <4>6. IsFiniteSet({prior}) /\ Cardinality({prior}) = 1
        BY FS_Singleton
      <4>7. d - 1 = 1
        BY <4>1
      <4> QED
        BY <4>5, <4>6, <4>7
    <3> QED
      BY <3>2, <3>3, <3>4
  <2>2. /\ IsFiniteSet(subs[r].by \union {j})
        /\ Cardinality(subs[r].by \union {j}) = Cardinality(subs[r].by) + 1
    BY <1>11, <2>1, FS_AddElement
  <2>3. IsFiniteSet(subs'[r].by) /\ d = Cardinality(subs'[r].by)
    BY <1>5, <1>6, <2>1, <2>2
  <2> QED
    BY <1>5, <1>6, <2>3 DEF RowFits
<1>13. ASSUME NEW i \in DOMAIN subs \ {r} PROVE RowFits(i)'
  <2>1. RowFits(i) /\ ~Fresh(i)
    BY <1>0, <1>2 DEF AllRowsFit, Fresh
  <2>2. Unlimited(i) => Unlimited(i)'
    BY <1>6 DEF Unlimited
  <2> QED
    BY <1>6, <2>1, <2>2 DEF RowFits
<1> QED
  BY <1>6, <1>8, <1>9, <1>10, <1>12, <1>13 DEF AllRowsFit

\* Every step keeps the rows.
LEMMA RowsNext ==
    ASSUME TierFixesValue, IInv, Alone, RowsInv, [Next]_vars
    PROVE  RowsInv'
<1>1. ASSUME UNCHANGED <<status, execs, subs, alone, whole>> PROVE RowsInv'
  <2>1. UNCHANGED <<pc, at, ended, row, existed, days, result>>
    BY <1>1 DEF execs
  <2>2. OneLive => OneLive'
    BY <1>1 DEF OneLive, Live
  <2>3. AllRowsFit => AllRowsFit'
    BY <1>1, <2>1 DEF AllRowsFit, RowFits, Fresh, Unlimited
  <2>4. PayersReported => PayersReported'
    BY <1>1, <2>1 DEF PayersReported, Reported
  <2>5. \A e \in Executors : PlaceFits(e) => PlaceFits(e)'
    BY <1>1, <2>1 DEF PlaceFits, Live
  <2> QED
    BY <1>1, <2>2, <2>3, <2>4, <2>5 DEF RowsInv, Clean
<1>2. CASE (\E c \in running : Settle(c)) \/ (\E g \in Groups : Lapse(g)) \/ UNCHANGED vars
  BY <1>1, <1>2 DEF Settle, Lapse, vars, upstream
<1>3. ASSUME NEW e \in Executors, ExecutorMoves(e) PROVE RowsInv'
  <2>1. CASE StoreFails(e)
    BY <2>1 DEF StoreFails, RowsInv, Clean
  <2> QED
    BY <1>3, <2>1, OutsideRows, FindRows, PickRows, EndRows, InsertRows, ExpiryRows, LengthenRows
       DEF Local
<1> QED
  BY <1>2, <1>3 DEF Next, ExecutorMoves

\* The row the customer starts with has a period for the one who paid for it.
LEMMA RowsInit ==
    ASSUME Init
    PROVE  RowsInv
<1>1. \A e \in Executors : PlaceFits(e)
  BY DEF Init, PlaceFits
<1>2. CASE subs = <<>>
  BY <1>1, <1>2 DEF RowsInv, OneLive, Live, AllRowsFit, PayersReported
<1>3. ASSUME NEW t \in Tiers, NEW d \in {0, 1},
             subs = <<[tier |-> t, live |-> TRUE, days |-> d, by |-> {prior}]>>
      PROVE  RowsInv
  <2>1. /\ DOMAIN subs = {1} /\ subs[1].days = d /\ subs[1].by = {prior}
    BY <1>3
  <2>2. IsFiniteSet({prior}) /\ Cardinality({prior}) = 1
    BY FS_Singleton
  <2>3. AllRowsFit
    BY <2>1, <2>2 DEF AllRowsFit, RowFits
  <2>4. OneLive /\ PayersReported
    BY <2>1, PackageAssumption DEF OneLive, Live, PayersReported
  <2> QED
    BY <1>1, <2>3, <2>4 DEF RowsInv
<1> QED
  BY <1>2, <1>3 DEF Init, StartRows, Expiries

\* While executions do not overlap, no statement fails and no process dies, the
\* customer has one live row and a row that has an expiry one period for each
\* purchase that paid for it, provided purchases of one tier buy one kind of
\* value.
THEOREM RowsAreRight == ASSUME TierFixesValue PROVE Spec => []LocalOnce
<1>1. RowsInv => LocalOnce
  BY DEF RowsInv, OneLive, AllRowsFit, RowFits, LocalOnce
<1>2. Init => IInv /\ Alone /\ RowsInv
  BY InitOK, AloneInit, RowsInit
<1>3. IInv /\ Alone /\ RowsInv /\ [Next]_vars => IInv' /\ Alone' /\ RowsInv'
  BY NextOK, AloneNext, RowsNext
<1> QED
  BY <1>1, <1>2, <1>3, PTL DEF Spec
=============================================================================
