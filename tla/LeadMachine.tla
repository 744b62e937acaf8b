----------------------------- MODULE LeadMachine -----------------------------
(***************************************************************************)
(* What the lead store promises about a lead's state when requests         *)
(* overlap.  LeadStore::transition reads the row, validates the move and   *)
(* writes the new state as three separate awaits, so the state it          *)
(* validates against may be any state the lead has already been in, not    *)
(* the one it is in now.  The promise that is left is that every state     *)
(* written is one legal move away from a state the lead really had.        *)
(***************************************************************************)
EXTENDS LeadState

VARIABLES state,    \* the lead's current state
          visited   \* every state it has been in

machineVars == <<state, visited>>

MachineInit ==
    /\ state = "cold"
    /\ visited = {"cold"}

\* A move validated against some state the lead has been in.
Move(from, to) ==
    /\ from \in visited
    /\ Allows(from, to)
    /\ state' = to
    /\ visited' = visited \cup {to}

MachineNext == \E from, to \in LeadStates : Move(from, to)

MachineSpec == MachineInit /\ [][MachineNext]_machineVars

==============================================================================
