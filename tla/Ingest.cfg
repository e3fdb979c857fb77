SPECIFICATION MCSpec
CONSTANTS
    m = m
    t = t
    x = x
    Signals <- MCSignals
    TypeOf <- MCTypeOf
    BadPayload <- MCBadPayload
    NoTenant = {}
    NoSignal = NoSignal
    Writers = {w1, w2}
    Loop = Loop
    Stopper = Stopper
    BatchSize = 2
    TripAfter = 2
    IngestBufferSize = 1
    StageBuffer = 1
    MailboxSize = 1
    Callers = {w1, w2}
    MaxSegmentBytes = 4
    Lens = {1, 2}
    MaxEntries = 3
    MaxSegments = 3
    MaxCrashes = 2
    MaxFaults = 1
INVARIANTS
    OnePlace
    BufferBelowBatchSize
    NoSilentLoss
    WalFirst
    CleanStop
    WalkReturnsLog
PROPERTIES
    EventuallySettled
    EventuallyHandled
    StopTerminates
    CloseMakesOwnDurable
    ImplementsDurableLog
    EventuallyDurable
CHECK_DEADLOCK FALSE
