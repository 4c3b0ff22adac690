SPECIFICATION MCSpec

CONSTANTS
    p1 = p1
    p2 = p2
    t1 = t1
    t2 = t2
    None = None
    Processes = {p1, p2}
    Outcomes = {"ok", "failed"}
    Retry = TRUE
    MaxEvents = 3
    MaxRuns = 4
    MaxFaults = 1
    Nodes <- MCNodes
    Graphs <- MCGraphs
    MaxItems = 2
    Triggers = {t1, t2}
    Saves <- MCSaves
    Refreshes = {"r1"}
    Deletes <- MCDeletes
    Reloads = {"l1"}
    Faults = TRUE
    MaxRequests = 3

INVARIANT RunsExact
INVARIANT GraphExact
INVARIANT JobsExact
PROPERTY SourcesSettled
PROPERTY RunFinishes

CHECK_DEADLOCK FALSE
