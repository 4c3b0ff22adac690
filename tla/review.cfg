SPECIFICATION Spec

CONSTANTS
    e1 = e1
    e2 = e2
    p = p
    q = q
    n1 = n1
    n2 = n2
    None = None
    Events = {e1, e2}
    Projects = {p, q}
    TargetOf <- MCTargetOf
    Nodes = {n1, n2}
    Capacity <- MCCapacity
    Cap = 1
    LatestOnly = TRUE
    MaxAttempts = 2
    Abandons = TRUE
    MaxCrashes = 1
    MaxFaults = 1

INVARIANT SlotsKept
INVARIANT DispatchedOnce
SYMMETRY MCSymmetry
