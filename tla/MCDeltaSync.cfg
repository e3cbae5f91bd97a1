CONSTANTS
    Items <- MCItems
    Invoices <- MCInvoices
    Identities <- MCIdentities
    Readable <- MCReadable
    MaxChanges = 2
    PageSize = 1
    MaxPages = 2
    MaxFaults = 1
    MaxRestarts = 1
    Gaps = {}
SPECIFICATION Spec
INVARIANTS TypeOK CursorNeverSkips MarkNeverAhead
PROPERTIES OnlyFullCopyRenewsMark
