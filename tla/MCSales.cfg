CONSTANTS
    h1 = h1
    c = c
    p = p
    t = t
    u = u
    n = n
    m = m
    s1 = s1
    s2 = s2
    Sales = {s1, s2}
    y1 = y1
    y2 = y2
    Series = {y1, y2}
    MayBeIn <- MCMayBeIn
    DocGaps = {}
    a = a
    b = b
    Tills = {a, b}
    MaxEdits = 1
    BesideDocs = {t}
    MaxInUse = 3
    MaxBeside = 1
    SaleGaps = {}
    None = None
    Docs <- MCDocs
    Kind <- MCKind
    Source <- MCSource
    Worth <- MCWorth
    Handlers = {h1}
    Stock = 2
    MaxUnits = 3
    MaxNumber <- MCMaxNumber
    MaxFaults = 1
SPECIFICATION SalesSpec
CHECK_DEADLOCK FALSE
INVARIANTS OneDocumentPerNumber NoneLeftOut CreditWithinInvoice OnlyOnIssued UnitsAddUp OutboxIsTrue
PROPERTIES IssuedForever
SYMMETRY MCSymmetry
