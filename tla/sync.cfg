SPECIFICATION SyncSpec

CONSTANTS
    i1 = i1
    i2 = i2
    m1 = m1
    a1 = a1
    a2 = a2
    Instances = {i1, i2}
    Models = {m1}
    Policies <- BothPolicies
    Admins = {i1, i2}
    Periods <- AnyPeriod
    Bounds <- MCBounds
    Accounts = {a1, a2}
    SyncBounds <- MCSyncBounds

INVARIANT RemovesOnlyDeleted
PROPERTY PoolsConverge

CHECK_DEADLOCK FALSE
