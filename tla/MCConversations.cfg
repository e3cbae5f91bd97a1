CONSTANTS
    a = a
    b = b
    m1 = m1
    r1 = r1
    h1 = h1
    h2 = h2
    Nobody = Nobody
    People <- MCPeople
    Admins = {a}
    Messages <- MCMessages
    Author <- MCAuthor
    Emoji = {"like"}
    RoomHandlers = {r1}
    Handlers = {h1, h2}
    Rosters <- MCRosters
    MaxEdits = 2
    MaxSends = 3
    Gaps = {}
SPECIFICATION FairSpec
CHECK_DEADLOCK FALSE
INVARIANTS PushedOnce
PROPERTIES ReceiptsKept OnlyResendGoesBack PrivateByManagers Quiet
