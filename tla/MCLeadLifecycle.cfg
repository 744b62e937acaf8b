CONSTANTS
    r1 = r1
    r2 = r2
    d1 = d1
    d2 = d2
    Requests <- MCRequests
    Drafts <- MCDrafts
    Goals = {"cold", "engaged", "meeting_scheduled", "qualified", "lost"}
    MayAbort = TRUE
    Latest = 3
SYMMETRY MCSymmetry
SPECIFICATION Spec
INVARIANTS
    TypeOK
    FunnelNotSkipped
    ClosingSweepsDrafts
PROPERTIES
    SettledDraftsStay
    ImplementsMachine
