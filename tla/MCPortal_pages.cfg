\* Every page in turn, with one request or two under way at once.
SPECIFICATION Spec
CONSTANTS
    None = None
    NoBase = NoBase
    AutoKey = AutoKey
    old = old
    new = new
    row1 = row1
    k1 = k1
    week = week
    month = month
    ann = ann
    bea = bea
    cid = cid
    Bases = {old, new}
    Env = NoBase
    MaxTries = 2
    Rows <- OneRow
    MaxKeys = 2
    MaxCodes = 1
    MaxTokens = 1
    MaxRequests = 2
    MaxRetries = 2
    MaxErrors = 1
    Others = {k1}
    Ranges = {week, month}
    Users <- ThreeUsers
    Clerks = {ann, bea}
    MaxOpen = 1
    MaxForms = 2
    EditorCalls = {1, 2}
    KeyCalls = {1, 2}
    HomeCalls = {1, 2}
    Pages <- AllPages
INVARIANTS
    TypeOK
    ToldWhatHappened
    DoneAsAsked
    NoDeadRoute
    EveryAttemptPays
    CheckoutIsHonest
    HomeIsConsistent
PROPERTIES
    SavesInOrder
    NoKeyLost
    OwnUsersOnly
CHECK_DEADLOCK FALSE
