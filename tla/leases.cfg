SPECIFICATION Spec

CONSTANTS
    r1 = r1
    r2 = r2
    r3 = r3
    p1 = p1
    p2 = p2
    Rids = {r1, r2, r3}
    Procs = {p1, p2}
    Owner <- MCOwner
    Probes = {r3}
    ConcurrentLimit = 1
    ReqMetrics = {}
    TokMetrics = {}
    ModelMetrics = {}
    DayMetrics = {"rpd", "tpd"}
    WinLen <- MCWinLen
    Limit <- MCOneEach
    Estimate = 0
    Actuals = {0}
    AllowOverflow = TRUE
    LeaseTTL = 2
    HeartbeatTTL = 9
    HeartbeatEvery = 9
    MetaTTL = 5
    Grace = 1
    Cooldowns = {}
    Attempts = 2
    MaxFaults = 1
    Horizon = 2
    MaxTime = 2

INVARIANT ConcurrencyWithinLimit
INVARIANT LeaseBacked
INVARIANT ServingWithinLimit
PROPERTY ReleasedStaysOut
PROPERTY ImplementsSlots
SYMMETRY MCSymmetry

CHECK_DEADLOCK FALSE
