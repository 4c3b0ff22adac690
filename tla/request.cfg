SPECIFICATION MCSpec

CONSTANTS
    g1 = g1
    g2 = g2
    a1 = a1
    a2 = a2
    m1 = m1
    m2 = m2
    Groups = {g1, g2}
    Main = g1
    NoGroup = NoGroup
    Accounts = {a1, a2}
    Attempts = 3
    Inner = 2
    Modes <- AllModes
    KeyStates = {"ok", "bad"}
    MaxCancels = 2
    MaxUpdates = 1
    Requests = {1, 2}
    Models = {m1, m2}
    Lists <- TwoLists
    Limit = 1
    MaxResends = 1
    MaxBreaks = 1

INVARIANT CandidatesApart
INVARIANT CleanEnd
INVARIANT SelectionExact
INVARIANT SharedAccount
PROPERTY NoReplay
PROPERTY Terminates

CHECK_DEADLOCK FALSE
