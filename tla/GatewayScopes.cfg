SPECIFICATION ReceiversSpec
CONSTANTS
    Calls = {1, 2}
    Keys = {"ingest", "query", "odd", "revoked"}
    KeyRow <- MCKeyRow
    Claims = {"none", "rival"}
    DefaultTenant = "default"
    Packets <- MCPackets
    BatchSize = 2
    QueueSize = 1
    MaxTries = 2
INVARIANT ScopeOpensEveryEndpoint
CHECK_DEADLOCK FALSE
