CONSTANTS
    h1 = h1
    h2 = h2
    q1 = q1
    q2 = q2
    r1 = r1
    Links = {"l1"}
    Requests = {q1}
    Refunds = {r1}
    Handlers <- MCHandlers
    Total = 2
    MaxFaults = 0
SPECIFICATION FairSpec
CHECK_DEADLOCK FALSE
PROPERTIES KeepsPaidLinks PaidIsShown
