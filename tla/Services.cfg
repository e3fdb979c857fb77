SPECIFICATION MCSpec
CONSTANTS
    Alerts <- MCAlerts
    EventAlerts <- MCEventAlerts
    SloAlerts <- MCSloAlerts
    LabelKeys = {"service"}
    Labels <- MCLabels
    Past = {"ev"}
    Matchers <- MCMatchers
    NoAlert = "none"
    Notifiers = {n1, n2}
    Clients = {c1}
    BufCap = 1
    MaxRequests = 3
    MaxCrashes = 1
    Traces = {t1, t2, t3}
    MaxSize = 2
    KeepTarget = 1
    SpanScores <- MCSpanScores
    Memory = 2
    MaxTime = 3
    Pairs <- MCPairs
    BudgetInv = 2
    MaxMinute = 5
    MaxObservations = 4
    Rows = {l1, l2, l3}
    BatchCap = 2
    LookBack = 1
    Second = 2
    BadRows = {l3}
    MaxNow = 4
    Keys = {k1, k2}
    NoKey = NoKey
    Validations = {r1, r2}
    CacheTTL = 1
    CacheSize = 1
    QueryTimeout = 1
    MaxVerify = 1
    Expiries = {1}
    MaxClock = 4
    ApiRequests = {1, 2}
    BufSize = 1
    FlushAtCount = 2
    MaxPutErrors = 2
    Worker = worker
    Ticker = ticker
    Closer = closer
    Tenants = {"acme", "new"}
    Existing = {"acme"}
    Tables <- MCTables
    MaxDays = 2
    Ops <- MCOps
INVARIANTS
    HistoryReplays
    DuplicateNeedsRace
    FiringIsAccounted
    CountedWasDelivered
    NoSendOnClosed
    BurnDecisionExact
    KeptWithSibling
    TailExact
    TypeOK
    RevocationBound
    ExpiryBound
    CacheBounded
    AuditTruthful
    ExportAccounted
    ActsOnLiveTenant
SYMMETRY Symm
CHECK_DEADLOCK FALSE
