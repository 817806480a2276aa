\* Liveness of every machine that has work to finish, and what one worker owes its jobs.
SPECIFICATION ProgressSpec
CONSTANTS
    None = None
    NoBase = NoBase
    AutoKey = AutoKey
    row1 = row1
    k1 = k1
    week = week
    month = month
    ann = ann
    old = old
    j1 = j1
    j2 = j2
    w1 = w1
    w2 = w2
    h1 = h1
    Jobs = {j1, j2}
    Instances = {w1, w2}
    r1 = r1
    r2 = r2
    FirstSession = FirstSession
    nobody = nobody
    Bases = {old}
    Env = NoBase
    MaxTries = 1
    Rows = {row1}
    MaxKeys = 1
    MaxCodes = 1
    MaxTokens = 1
    MaxRequests = 1
    MaxRetries = 2
    MaxErrors = 1
    Others = {k1}
    Ranges = {week, month}
    Users = {ann}
    Clerks = {ann}
    MaxOpen = 1
    MaxForms = 0
    EditorCalls = {1}
    KeyCalls = {1}
    HomeCalls = {1, 2}
    Pages = {"checkout", "home", "one worker", "two workers", "arbiter", "scan"}
INVARIANTS
    SingleExecutor
PROPERTIES
    RetriesInOrder
    EverySettles
    PromiseKept
    EveryRequestAnswered
    PanelMovesOn
    PaymentIsRecorded
    PollingComesToAnEnd
    LoadingEnds
CHECK_DEADLOCK FALSE
