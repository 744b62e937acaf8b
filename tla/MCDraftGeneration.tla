-------------------------- MODULE MCDraftGeneration --------------------------
(* Three callers, so that one can leave the queue from the middle while     *)
(* another holds the lock.                                                  *)
EXTENDS DraftGeneration

CONSTANTS c1, c2, c3, d1, d2, d3, m1, s1

MCCallers == {c1, c2, c3}
MCRows == {d1, d2, d3}
MCStages == {s1}
MCMessages == {m1}

==============================================================================
