\* Progress when the upstream answers retryably exactly as often as the
\* budget allows.
SPECIFICATION FairSpec
CONSTANTS
    j1 = j1
    j2 = j2
    w1 = w1
    w2 = w2
    h1 = h1
    h2 = h2
    Jobs <- OneJob
    Workers <- TwoWorkers
    Handlers <- OneHandler
    Payload <- PackageOnly
    Callers <- NoCallers
    MaxRetries = 2
    SerialTx = TRUE
    MaxRequests = 2
    MaxFaults = 0
    MaxFlaky = 2
    AttemptCap = 9
PROPERTIES RetryableSettles
CHECK_DEADLOCK FALSE
