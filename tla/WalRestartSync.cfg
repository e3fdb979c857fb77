SPECIFICATION WalSpec
CONSTANTS
    Callers = {w1}
    MaxSegmentBytes = 4
    Lens = {1}
    MaxEntries = 1
    MaxSegments = 2
    MaxCrashes = 1
    MaxFaults = 0
INVARIANTS
    CloseFsyncsSegment
CHECK_DEADLOCK FALSE
