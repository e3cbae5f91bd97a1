CONSTANTS
    o1 = o1
    o2 = o2
    Orders <- MCOneOrder
    Payers = {"owner"}
    Tabs = {"t1"}
    Calls = {"webhook", "recheck"}
    Plans = {"studio", "studio2"}
    Length <- MCLength
    ReuseTime = 1
    Keys = {"k1", "k2"}
    MaxTime = 0
    MaxDecisions = 2
    MaxFaults = 2
    Gaps = {}
SPECIFICATION FairSpec
CHECK_DEADLOCK FALSE
PROPERTIES KeepsPromise PaidIsApplied
