\* A known user, three requests of any kind, three faults, one lost lock: tokens,
\* sessions and families.
SPECIFICATION Spec
CONSTANTS
    r1 = r1
    r2 = r2
    r3 = r3
    FirstSession = FirstSession
    nobody = nobody
    Requests <- ThreeRequests
    Serves <- AnyKind
    Starts <- KnownUser
    EmailDrift = FALSE
    GatewayErrors = FALSE
    MaxFaults = 3
    MaxLockLoss = 1
SYMMETRY Symmetry
INVARIANTS TypeOK NoReuse SuccessIsBacked NoSessionOutlivesFamily
PROPERTIES EndedStaysEnded ClearsOwnFamily
CHECK_DEADLOCK FALSE
