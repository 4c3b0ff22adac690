SPECIFICATION FairSpec

CONSTANTS
    s1 = s1
    s2 = s2
    create = create
    recover = recover
    p1 = p1
    p2 = p2
    None = None
    Sends = {s1, s2}
    Creators = {create}
    Recoverers = {recover}
    ProcessOf <- TwoProcesses
    Crews <- Pairs
    CalmCrews <- SendersAndCreator
    MaxAttempt = 3
    MaxTrouble = 2

INVARIANT RowExact
INVARIANT OneTurn
PROPERTY Delivered

CHECK_DEADLOCK FALSE
