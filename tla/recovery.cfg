SPECIFICATION FairSpec

CONSTANTS
    r1 = r1
    r2 = r2
    r3 = r3
    p1 = p1
    p2 = p2
    Rids = {r1, r3}
    Procs = {p1, p2}
    Owner <- MCOwner
    Probes = {}
    ConcurrentLimit = 1
    ReqMetrics = {"rpd"}
    TokMetrics = {}
    ModelMetrics = {}
    DayMetrics = {"rpd", "tpd"}
    WinLen <- MCWinLen
    Limit <- MCLooseLimit
    Estimate = 0
    Actuals = {0}
    AllowOverflow = TRUE
    LeaseTTL = 1
    HeartbeatTTL = 1
    HeartbeatEvery = 1
    MetaTTL = 9
    Grace = 1
    Cooldowns = {}
    Attempts = 1
    MaxFaults = 1
    Horizon = 0
    MaxTime = 2

PROPERTY SlotReclaimed
PROPERTY OrphanReaped

CHECK_DEADLOCK FALSE
