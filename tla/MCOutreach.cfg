CONSTANTS
    s1 = s1
    s2 = s2
    one = one
    two = two
    bad = bad
    ana = ana
    bob = bob
    hello = hello
    stop = stop
    a = a
    Slots <- MCSlots
    Drafts <- MCDrafts
    Recipient <- MCRecipient
    Text <- MCText
    Links <- MCLinks
    AutoReplies = {}
    OptOuts <- MCOptOuts
    Personal <- MCPersonal
    Pixel = Pixel
    RedactPii = TRUE
    NoDraft = NoDraft
    LoopMax = 2
    LoopWindow = 1
    RateMax = 1
    RateWindow = 1
    MaxAttempts = 3
    MaxTime = 1
    MaxRuns = 2
SYMMETRY MCSymmetry
SPECIFICATION Spec
INVARIANTS
    TypeOK
    GateHolds
PROPERTY
    ImplementsTracking
CHECK_DEADLOCK FALSE
