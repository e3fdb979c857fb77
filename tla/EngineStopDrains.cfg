SPECIFICATION Spec
CONSTANTS
    m = m
    t = t
    x = x
    Signals <- MCSignals
    TypeOf <- MCTypeOf
    BadPayload <- MCBadPayload
    NoTenant = {}
    NoSignal = NoSignal
    Writers = {w1, w2}
    Loop = Loop
    Stopper = Stopper
    BatchSize = 2
    TripAfter = 2
    IngestBufferSize = 1
    StageBuffer = 1
    MailboxSize = 1
INVARIANTS
    StopDrains
CHECK_DEADLOCK FALSE
