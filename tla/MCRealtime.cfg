CONSTANTS
    t1 = t1
    t2 = t2
    s1 = s1
    s2 = s2
    Tabs <- MCTabs
    Sockets <- MCSockets
    None = None
    MaxChanges = 1
    MaxFaults = 1
    MaxMoves = 1
    Gaps = {}
SPECIFICATION FairSpec
CHECK_DEADLOCK FALSE
INVARIANTS FetchesWhatItHears OneSocket PresenceIsTrue
PROPERTIES SeenAtLast Reconnects
