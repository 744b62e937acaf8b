------------------------------- MODULE MCPings -------------------------------
(* Two sellers with a lead each; a seller may be on WhatsApp, on e-mail,     *)
(* saved with an address left open, or switched off.                         *)
EXTENDS Pings, TLC

CONSTANTS h1, h2, ana, luis, la, lb, a1, a2

MCSwap == (ana :> luis) @@ (luis :> ana) @@ (la :> lb) @@ (lb :> la)
MCSymmetry == Permutations({h1, h2}) \cup {MCSwap}
MCKinds == {"lead_replied", "meeting_intent"}
MCHandlers == {h1, h2}
MCSellers == {ana, luis}
MCLeads == {la, lb}
MCSellerOf == (la :> ana) @@ (lb :> luis)

RowOf(on, agent, channel) ==
    [configured |-> TRUE, on |-> on, agent |-> agent, channel |-> channel,
     language |-> "es"]
WhatsApp == [by |-> "whatsapp", via |-> "wa", to |-> Unresolved]
Email(to) == [by |-> "email", via |-> "mx", to |-> to]

MCSellerRows ==
    {RowOf({"lead_replied", "meeting_intent"}, a1, WhatsApp),
     [RowOf({"lead_replied"}, a2, Email("ana")) EXCEPT !.language = "en"],
     RowOf({"meeting_intent"}, a1, Email(Unresolved)),
     RowOf(MCKinds, a1, Disabled)}
MCOverrides == {<<"lead_replied", "en">>}
MCBodies == [calendar : BOOLEAN, agrees : BOOLEAN, names_a_time : BOOLEAN,
             cut : {"fits", "inside a character"}]

==============================================================================
