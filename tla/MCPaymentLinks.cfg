CONSTANTS
    h1 = h1
    h2 = h2
    q1 = q1
    q2 = q2
    r1 = r1
    Links = {"l1", "l2"}
    Requests <- MCRequests
    Refunds = {r1}
    Handlers = {h1}
    Total = 2
    MaxFaults = 1
SPECIFICATION Spec
CHECK_DEADLOCK FALSE
SYMMETRY MCSymmetry
INVARIANTS AnnouncedOnce AsksNoMoreThanOwed CountedAtRest OneLinkPerRequest
PROPERTIES OnlyForward RefundsAreFinal
