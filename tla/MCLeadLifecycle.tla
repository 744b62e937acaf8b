--------------------------- MODULE MCLeadLifecycle ---------------------------
(* Two transition requests, which is what it takes for one to write on top  *)
(* of a state it did not validate, and two drafts, so that a sweep has      *)
(* something to hit and something to miss.  FollowUp's operators are looked *)
(* at over small times: what a sweep leaves, the sweep after it finds, and  *)
(* every page there is keeps the order.                                     *)
EXTENDS LeadLifecycle, FollowUp, TLC

CONSTANTS r1, r2, d1, d2

MCRequests == {r1, r2}
MCDrafts == {d1, d2}
MCDraftSymmetry == Permutations(MCDrafts)
MCSymmetry == Permutations(MCRequests) \cup MCDraftSymmetry

ASSUME SweepsCatchUp ==
    \A deadline \in [MCDrafts -> -Latest - 1 .. Latest], limit \in 1 .. 2 :
        \A page \in Pages(deadline, Latest, limit) :
            LET left == DueAt(deadline, Latest) \ page
            IN  /\ Pages(deadline, Latest, limit) # {}
                /\ left # {} <=> NextTickHint(deadline, Latest, limit) = 30000
                /\ left \in Pages([l \in left |-> deadline[l]], Latest, limit)

ASSUME JitterIsCentred ==
    \A asked \in Times, window \in 0 .. 2 * Latest :
        /\ asked \in NextChecks(asked, window, Latest + 1)
        /\ NextChecks(asked, window, Latest + 1) \subseteq Times
        /\ window < 2 => Jittered(asked, window) = {asked}

==============================================================================
