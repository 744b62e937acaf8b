----------------------------- MODULE TrackedMail -----------------------------
(* What click tracking promises (tracking.rs): a rewritten link leaves only  *)
(* when it can be resolved, and it stays resolvable for as long as somebody  *)
(* may click it.                                                             *)

CONSTANT Marks        \* what a rewritten link stands for: one link of one mail

VARIABLES prepared,   \* the marks that resolve
          out         \* the marks that are in some mail that left

trackedVars == <<prepared, out>>

TrackedInit == prepared = {} /\ out = {}

Prepare(mark) == prepared' = prepared \cup {mark} /\ out' = out

(* A mail leaves, with some of what was prepared in it.                      *)
Leave ==
    /\ \E mail \in SUBSET prepared : out' = out \cup mail
    /\ prepared' = prepared

TrackedNext == Leave \/ \E mark \in Marks : Prepare(mark)

TrackedSpec == TrackedInit /\ [][TrackedNext]_trackedVars

==============================================================================
