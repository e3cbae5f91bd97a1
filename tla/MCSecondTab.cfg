CONSTANTS
    Items <- MCItems
    Invoices = {}
    Identities <- MCOnePerson
    Readable <- MCReadsAll
    MaxChanges = 3
    PageSize = 2
    MaxPages = 2
    MaxFaults = 1
    MaxRestarts = 1
    Gaps = {}
SPECIFICATION TabsFairSpec
CONSTRAINT MCOneDisturbance
INVARIANTS MarkNeverAheadAtRest
PROPERTIES Converges
