SPECIFICATION Spec

CONSTANTS
    r1 = r1
    r2 = r2
    r3 = r3
    p1 = p1
    p2 = p2
    Rids = {r1, r3}
    Procs = {p1, p2}
    Owner <- MCOwner
    Probes = {}
    ConcurrentLimit = 0
    ReqMetrics = {"rpd"}
    TokMetrics = {"tpm"}
    ModelMetrics = {}
    DayMetrics = {"rpd", "tpd"}
    WinLen <- MCWinLen
    Limit <- MCLooseLimit
    Estimate = 0
    Actuals = {0, 1}
    AllowOverflow = TRUE
    LeaseTTL = 2
    HeartbeatTTL = 2
    HeartbeatEvery = 1
    MetaTTL = 5
    Grace = 1
    Cooldowns = {}
    Attempts = 1
    MaxFaults = 1
    Horizon = 1
    MaxTime = 2

INVARIANT TypeOK
INVARIANT LedgersExact
INVARIANT UnsettledIsRecoverable

CHECK_DEADLOCK FALSE
