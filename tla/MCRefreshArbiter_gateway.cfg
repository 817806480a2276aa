\* A gateway between the portal and sub2api answers 5xx for a refresh that happened.
SPECIFICATION Spec
CONSTANTS
    r1 = r1
    r2 = r2
    r3 = r3
    FirstSession = FirstSession
    nobody = nobody
    Requests <- ThreeRequests
    Serves <- AnyKind
    Starts <- LegacyUser
    EmailDrift = FALSE
    GatewayErrors = TRUE
    MaxFaults = 0
    MaxLockLoss = 0
INVARIANTS NoReuse
CHECK_DEADLOCK FALSE
