---------------------------- MODULE MCFulfillment ----------------------------
(* Instances of Fulfillment for TLC: who exists, and what the payments ask    *)
(* for.  Each run's cfg picks one payload and one set of callers.             *)
EXTENDS Fulfillment, TLC

CONSTANTS j1, j2, w1, w2, h1, h2

OneJob == {j1}
TwoJobs == {j1, j2}
OneWorker == {w1}
TwoWorkers == {w1, w2}
OneHandler == {h1}
TwoHandlers == {h1, h2}

\* A Stripe checkout buys a package; an admin may also post a recharge with a
\* key for the customer.
PackageOnly == [j \in Jobs |-> {"package"}]
RechargeAndKey == [j \in Jobs |-> {"balance", "api_key"}]

NoCallers == {}
AllCallers == CallerKinds

\* Handlers are interchangeable, and so are workers.
Symmetry == {f @@ g : f \in Permutations(Handlers), g \in Permutations(Workers)}
=============================================================================
