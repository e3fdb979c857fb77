SPECIFICATION Spec
CONSTANTS
    t1 = t1
    s1 = s1
    s2 = s2
    Tenants <- MCTenants
    Signals <- MCSignals
    TenantOf <- MCTenantOf
    Direct <- MCDirect
    Spillover = TRUE
    MailboxSize = 1
    MaxRestarts = 2
    RestartWindow = 8
    HealthInterval = 2
    BackoffMin = 1
    BackoffMax = 6
    MaxManaged = 2
    MaxActors = 7
    MaxCrashes = 3
    MaxLate = 0
INVARIANT QuarantineTakesCrashes
CHECK_DEADLOCK FALSE
