SPECIFICATION ApiSpec
CONSTANTS
    ApiRequests = {1, 2}
    BufSize = 1
    FlushAtCount = 2
    MaxPutErrors = 2
    Worker = worker
    Ticker = ticker
    Closer = closer
    Tenants = {"acme", "new"}
    Existing = {"acme"}
    Tables <- MCTables
    MaxDays = 2
    Ops <- MCOps
INVARIANT RevokeIsRecorded
CHECK_DEADLOCK FALSE
