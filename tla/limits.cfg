SPECIFICATION Spec

CONSTANTS
    r1 = r1
    r2 = r2
    r3 = r3
    p1 = p1
    p2 = p2
    Rids = {r1, r2}
    Procs = {p1}
    Owner <- MCOneOwner
    Probes = {}
    ConcurrentLimit = 0
    ReqMetrics = {"rpm", "rpd"}
    TokMetrics = {}
    ModelMetrics = {}
    DayMetrics = {"rpd", "tpd"}
    WinLen <- MCLongDay
    Limit <- MCOneEach
    Estimate = 0
    Actuals = {1}
    AllowOverflow = FALSE
    LeaseTTL = 2
    HeartbeatTTL = 9
    HeartbeatEvery = 9
    MetaTTL = 6
    Grace = 1
    Cooldowns = {1}
    Attempts = 1
    MaxFaults = 1
    Horizon = 3
    MaxTime = 4

INVARIANT RequestCap
SYMMETRY MCSymmetry

CHECK_DEADLOCK FALSE
