SPECIFICATION WalSpec
CONSTANTS
    Callers = {w1}
    MaxSegmentBytes = 4
    Lens = {0, 1}
    MaxEntries = 2
    MaxSegments = 2
    MaxCrashes = 1
    MaxFaults = 0
INVARIANTS
    PersistedEntriesReturned
CHECK_DEADLOCK FALSE
