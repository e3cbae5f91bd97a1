CONSTANTS
    boss = boss
    ann = ann
    bob = bob
    i1 = i1
    h1 = h1
    h2 = h2
    None = None
    People <- MCPeople
    Applicant = boss
    Plans <- MCPlans
    Handlers = {h1, h2}
    Invites = {i1}
    DefaultLimit = 2
    MaxCalls = 4
    MaxFaults = 1
    Gaps = {}
SPECIFICATION Spec
CHECK_DEADLOCK FALSE
SYMMETRY MCSymmetry
INVARIANTS SetUpAsApproved AlwaysAnOwner
PROPERTIES NewMembersFitPlan
