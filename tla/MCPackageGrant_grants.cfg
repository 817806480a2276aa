\* A subscription and a top-up bought together, executed by two goroutines.
SPECIFICATION Spec
CONSTANTS
    j1 = j1
    j2 = j2
    e1 = e1
    e2 = e2
    g1 = g1
    g2 = g2
    g3 = g3
    pro = pro
    topup = topup
    none = none
    prior = prior
    Jobs = {j1, j2}
    Executors = {e1, e2}
    Groups = {g1, g2, g3}
    Tiers = {pro, topup}
    Package <- ProAndTopUp
    MaxFaults = 1
SYMMETRY Symmetry
INVARIANTS
    TypeOK
    CreditedOnce
    GrantedAtMostTwice
    FulfilledIsGranted
    FulfilledIsUsable
    LocalOnce
CHECK_DEADLOCK FALSE
