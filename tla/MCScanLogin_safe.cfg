\* Three requests of two users' apps on one code, in every order.
SPECIFICATION Spec
CONSTANTS
    alice = alice
    bob = bob
    r1 = r1
    r2 = r2
    r3 = r3
    none = none
    Users <- TwoUsers
    Requests <- ThreeRequests
    MaxCodes = 1
    MaxFaults = 1
SYMMETRY Symmetry
INVARIANTS TypeOK RightSession AnswersAgree
PROPERTIES DecidedIsFinal SignInKept
CHECK_DEADLOCK FALSE
