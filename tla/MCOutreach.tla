------------------------------ MODULE MCOutreach ------------------------------
(* Two drafts with one text, to two recipients, one of them with a link,     *)
(* and one whose text the gate refuses.  The text of the two has personal    *)
(* data in it.                                                               *)
EXTENDS Outreach, TLC

CONSTANTS s1, s2, one, two, bad, ana, bob, hello, stop, a

MCSlots == {s1, s2}
MCDrafts == {one, two, bad}
MCRecipient == (one :> ana) @@ (two :> bob) @@ (bad :> bob)
MCText == (one :> hello) @@ (two :> hello) @@ (bad :> stop)
MCLinks == (one :> {a}) @@ (two :> {}) @@ (bad :> {})
MCOptOuts == {stop}
MCPersonal == {hello}
MCSymmetry == Permutations(MCSlots)

==============================================================================
