SPECIFICATION KeyStoreSpec
CONSTANTS
    Keys = {k1}
    NoKey = NoKey
    Validations = {r1}
    CacheTTL = 1
    CacheSize = 1
    QueryTimeout = 1
    MaxVerify = 1
    Expiries = {}
    MaxClock = 4
INVARIANTS
    RevokedWithinTTL
CHECK_DEADLOCK FALSE
