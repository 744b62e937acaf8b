------------------------------ MODULE MCContacts ------------------------------
(* One contact on WhatsApp, and two colleagues whose mails give one name in  *)
(* two spellings: one in the display name, one next to the company.          *)
EXTENDS Contacts, TLC

CONSTANTS h1, h2, m1, m2, m3, ana, bob, wa, acme

MCHandlers == {h1, h2}
MCMails == {m1, m2, m3}
MCSender == (m1 :> ana) @@ (m2 :> bob) @@ (m3 :> ana)
MCContacts == {wa}
MCCompanies == {acme}
MCCompanyOf == (ana :> acme) @@ (bob :> acme)

Said(shape, display, inner, personal) ==
    [shape |-> shape, display |-> display, inner |-> inner, local |-> "jp",
     personal |-> personal, corporate_reply |-> TRUE]
MCNamesOf ==
    (m1 :> Said("name", "Juan Perez", None, FALSE))
    @@ (m2 :> Said("name (company)", "JUAN PEREZ (Acme Corp)", "JUAN PEREZ", TRUE))
    @@ (m3 :> Said("other", None, None, TRUE))
MCWords ==
    ("Juan Perez" :> {"juan", "perez"}) @@ ("JUAN PEREZ" :> {"juan", "perez"})
    @@ ("jp" :> {"jp"}) @@ ("pn" :> {"pn"}) @@ ("lid" :> {"lid"})
MCTypedNames == {"Juan Perez"}
MCSymmetry == Permutations(MCHandlers)

==============================================================================
