\* A recharge followed by a key, a worker and two request goroutines, every
\* kind of caller and two failures, on a store that serialises transactions.
SPECIFICATION Spec
CONSTANTS
    j1 = j1
    j2 = j2
    w1 = w1
    w2 = w2
    h1 = h1
    h2 = h2
    Jobs <- OneJob
    Workers <- OneWorker
    Handlers <- TwoHandlers
    Payload <- RechargeAndKey
    Callers <- AllCallers
    MaxRetries = 2
    SerialTx = TRUE
    MaxRequests = 2
    MaxFaults = 2
    MaxFlaky = 3
    AttemptCap = 2
SYMMETRY Symmetry
INVARIANTS TypeOK RetryCountWithinBudget FulfilledWasGranted
PROPERTIES FinalIsFinal
CHECK_DEADLOCK FALSE
