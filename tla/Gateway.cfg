SPECIFICATION Spec
CONSTANTS
    Services = {api}
    Buckets = 2
    ErrThreshold = 2
    LatThreshold = 2
    Durations = {1, 2}
    MaxEpoch = 4
    MaxSignals = 3
    BufferSize = 1
    Attempts = 2
    Calls = {1, 2}
    Keys = {"ingest", "query", "odd", "revoked"}
    KeyRow <- MCKeyRow
    Claims = {"none", "rival"}
    DefaultTenant = "default"
    Packets <- MCPackets
    BatchSize = 2
    QueueSize = 1
    MaxTries = 2
    Tokens = {q1, q2}
    AdminGroups = {ops}
    Groups = {ops}
    MaxRotations = 2
    MaxFaults = 2
INVARIANTS
    EventsAreEdges
    EventAccounted
    AnswersTruthful
PROPERTIES
    SinkStops
    OrderlyEnd
    KeysCatchUp
CHECK_DEADLOCK FALSE
