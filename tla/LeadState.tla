------------------------------ MODULE LeadState ------------------------------
(***************************************************************************)
(* The lifecycle of a lead: its states and the moves that are legal        *)
(* between them (lead/state.rs).  Every module that keeps a lead row       *)
(* extends this one.                                                       *)
(***************************************************************************)

LeadStates == {"cold", "engaged", "meeting_scheduled", "qualified", "lost"}

\* The states LeadStore::transition treats as closing the lead: it then
\* rejects the pending drafts and clears the follow-up deadline.
Terminal == {"qualified", "lost"}

Forward == { <<"cold", "engaged">>,
             <<"engaged", "meeting_scheduled">>,
             <<"meeting_scheduled", "qualified">> }

\* The meeting fell through.
Backward == { <<"meeting_scheduled", "engaged">> }

\* Any other state may drop to lost; lost itself has no way out.
Drop == { <<s, "lost">> : s \in LeadStates \ {"lost"} }

Legal == Forward \cup Backward \cup Drop

\* Mutant: the move is checked against the goal alone.
BugAllows(from, to) == \E s \in LeadStates \ {to} : <<s, to>> \in Legal

Allows(from, to) == <<from, to>> \in Legal

==============================================================================
