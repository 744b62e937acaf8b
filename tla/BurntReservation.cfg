CONSTANTS
    r1 = r1
    a1 = a1
    a2 = a2
    d1 = d1
    d2 = d2
    Requests <- MCRequests
    Approvals <- MCApprovals
    Drafts <- MCDrafts
    Goals = {"lost"}
    MayAbort = FALSE
    NoDraft = NoDraft
    MaxRestarts = 0
SPECIFICATION ASpec
INVARIANTS
    ReservedMeansSent
