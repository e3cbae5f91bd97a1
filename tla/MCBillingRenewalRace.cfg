CONSTANTS
    o1 = o1
    o2 = o2
    Orders <- MCOrders
    Payers = {"owner"}
    Tabs = {"t1"}
    Calls = {"webhook", "recheck"}
    Plans = {"studio"}
    Length <- MCLength
    ReuseTime = 1
    Keys = {"k1"}
    MaxTime = 0
    MaxDecisions = 1
    MaxFaults = 0
    Gaps = {"renewal"}
SPECIFICATION Spec
CHECK_DEADLOCK FALSE
SYMMETRY MCSymmetry
INVARIANTS PeriodsDoNotOverlap
