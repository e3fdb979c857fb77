SPECIFICATION FairSpec
CONSTANTS
    t1 = t1
    s1 = s1
    s2 = s2
    Tenants <- MCTenants
    Signals <- MCSignals
    TenantOf <- MCTenantOf
    Direct <- MCDirect
    Spillover = TRUE
    MailboxSize = 1
    MaxRestarts = 1
    RestartWindow = 1
    HealthInterval = 1
    BackoffMin = 2
    BackoffMax = 3
    MaxManaged = 2
    MaxActors = 5
    MaxCrashes = 1
    MaxLate = 1
PROPERTY QuarantinedMailDropped
CHECK_DEADLOCK FALSE
