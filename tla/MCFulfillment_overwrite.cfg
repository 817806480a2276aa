\* Two executors whose transitions interleave between read and write.
SPECIFICATION Spec
CONSTANTS
    j1 = j1
    j2 = j2
    w1 = w1
    w2 = w2
    h1 = h1
    h2 = h2
    Jobs <- OneJob
    Workers <- OneWorker
    Handlers <- TwoHandlers
    Payload <- PackageOnly
    Callers <- AllCallers
    MaxRetries = 2
    SerialTx = FALSE
    MaxRequests = 3
    MaxFaults = 0
    MaxFlaky = 2
    AttemptCap = 4
PROPERTIES FinalIsFinal
CHECK_DEADLOCK FALSE
