--------------------------- MODULE PaymentPromise ---------------------------
(* What the portal promises a customer who has paid, whatever number of       *)
(* deliveries, retries, polls and crashes it takes to keep the promise: the   *)
(* payment is owed until its product was granted upstream or the job is given *)
(* up for manual intervention, and either outcome is irrevocable.             *)
(* Fulfillment implements this specification (PromiseKept there).             *)
CONSTANTS Jobs, Products, Payload

VARIABLES phase, granted

vars == <<phase, granted>>

Init ==
    /\ phase = [j \in Jobs |-> "none"]
    /\ granted = {}

(* Everything the payment bought exists upstream. *)
Complete(j) == \A s \in Payload[j] : <<j, s>> \in granted

(* A payment notice is accepted once, as a debt. *)
Accept(j) ==
    /\ phase[j] = "none"
    /\ phase' = [phase EXCEPT ![j] = "owed"]
    /\ UNCHANGED granted

(* A grant lands upstream; a slow executor may still land one after the end. *)
Grant(j, s) ==
    /\ phase[j] # "none"
    /\ s \in Payload[j]
    /\ granted' = granted \union {<<j, s>>}
    /\ UNCHANGED phase

Deliver(j) ==
    /\ phase[j] = "owed"
    /\ Complete(j)
    /\ phase' = [phase EXCEPT ![j] = "delivered"]
    /\ UNCHANGED granted

Abandon(j) ==
    /\ phase[j] = "owed"
    /\ phase' = [phase EXCEPT ![j] = "abandoned"]
    /\ UNCHANGED granted

Next ==
    \E j \in Jobs :
        \/ Accept(j)
        \/ \E s \in Products : Grant(j, s)
        \/ Deliver(j)
        \/ Abandon(j)

Spec == Init /\ [][Next]_vars
=============================================================================
