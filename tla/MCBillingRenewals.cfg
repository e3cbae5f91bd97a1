CONSTANTS
    o1 = o1
    o2 = o2
    Orders <- MCOrders
    Payers = {"owner"}
    Tabs = {"t1", "t2"}
    Calls = {"browser", "webhook"}
    Plans = {"studio"}
    Length <- MCLength
    ReuseTime = 1
    Keys = {"k1"}
    MaxTime = 1
    MaxDecisions = 2
    MaxFaults = 0
    Gaps = {}
SPECIFICATION Spec
CHECK_DEADLOCK FALSE
SYMMETRY MCSymmetry
INVARIANTS PeriodsDoNotOverlap OneOpenCheckout
PROPERTIES PaidTimeIsKept
