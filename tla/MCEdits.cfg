CONSTANTS
    Items <- MCItems
    Invoices = {}
    Artworks <- MCArtwork
    Answered <- MCContact
    Identities <- MCOnePerson
    Readable <- MCReadsAll
    MaxChanges = 2
    PageSize = 1
    MaxPages = 2
    MaxFaults = 1
    MaxRestarts = 1
    MaxEdits = 1
    Gaps = {}
SPECIFICATION EditsSpec
CONSTRAINT MCOneDisturbance
INVARIANTS EditsSettle
