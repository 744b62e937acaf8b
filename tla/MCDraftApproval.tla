--------------------------- MODULE MCDraftApproval ---------------------------
EXTENDS DraftApproval, TLC

CONSTANTS r1, a1, a2, d1, d2

MCRequests == {r1}
MCApprovals == {a1, a2}
MCDrafts == {d1, d2}
MCSymmetry == Permutations(MCApprovals) \cup Permutations(MCDrafts)

==============================================================================
