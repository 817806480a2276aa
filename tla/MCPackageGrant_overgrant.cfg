\* One subscription, one executor: a call fails after the assignment.
SPECIFICATION Spec
CONSTANTS
    j1 = j1
    j2 = j2
    e1 = e1
    e2 = e2
    g1 = g1
    g2 = g2
    g3 = g3
    pro = pro
    topup = topup
    none = none
    prior = prior
    Jobs = {j1}
    Executors = {e1}
    Groups = {g1, g2}
    Tiers = {pro}
    Package <- JustPro
    MaxFaults = 1
INVARIANT GrantedOnce
CHECK_DEADLOCK FALSE
