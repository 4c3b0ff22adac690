SPECIFICATION FairSpec

CONSTANTS
    r1 = r1
    r2 = r2
    p1 = p1
    p2 = p2
    Requests = {r1, r2}
    Processes = {p1, p2}
    RequestFields <- MCRequestFields
    TokenFields <- MCTokenFields
    Limit <- MCLimit
    Window <- MCWindow
    Calendar <- MCCalendar
    ConcurrentLimit = 1
    SlotTtl = 2
    MaxTokens = 1
    MaxTries = 2
    Faults = {"slot", "count", "read", "handler"}
    MaxTrouble = 1
    MaxAge = 2
    Restarts = TRUE
    LongCalls = FALSE

INVARIANT SlotsExact
INVARIANT BlockedWhileFull
PROPERTY KeyEnds

CHECK_DEADLOCK FALSE
