CONSTANTS
    h1 = h1
    h2 = h2
    ana = ana
    luis = luis
    lb = lb
    la = la
    a1 = a1
    a2 = a2
    Handlers <- MCHandlers
    Leads <- MCLeads
    Sellers <- MCSellers
    SellerOf <- MCSellerOf
    SellerRows <- MCSellerRows
    Kinds <- MCKinds
    NoRow = NoRow
    NoAgent = NoAgent
    Nothing = Nothing
    Overrides <- MCOverrides
    Bodies <- MCBodies
    MaxTime = 1
    MaxRuns = 2
    MaxRows = 3
    MaxEvents = 2
    MaxCopies = 2
SYMMETRY MCSymmetry
SPECIFICATION PingsSpec
INVARIANTS
    PingsTypeOK
    PingsAreAskedFor
CHECK_DEADLOCK FALSE
