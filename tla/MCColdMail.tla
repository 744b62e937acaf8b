------------------------------ MODULE MCColdMail ------------------------------
(* One customer who unsubscribes and writes again, and a disposable sender   *)
(* who may be let in; a promo of three images that only the presets drop.    *)
(* The default of the first rule set rotates over a seller who is always     *)
(* there and one with office hours.                                          *)
EXTENDS ColdMail, TLC

CONSTANTS h1, h2, o1, o2, leave, again, temp, ana, luis

MCHandlers == {h1, h2}
MCOperators == {o1, o2}
MCMails == {leave, again, temp}
MCOptOuts == {leave}

Text == [from |-> "customer", domain |-> "shop", domainKind |-> "corporate",
         images |-> 0, text |-> 300, role |-> FALSE, words |-> {},
         intent |-> {"price", "demo"}, length |-> 50, senior |-> TRUE]
MCMail == (leave :> Text)
       @@ (again :> [Text EXCEPT !.images = 3, !.text = 150, !.words = {"offer"}])
       @@ (temp :> [Text EXCEPT !.from = "visitor", !.domain = "tempmail",
                                !.domainKind = "disposable", !.images = 3, !.text = 20,
                                !.length = 2, !.intent = {}])

MCDefaultKeywords == {"offer"}
MCRuleChoices == {[kind |-> "sender_allow", value |-> "visitor"],
                  [kind |-> "sender_block", value |-> "customer"],
                  [kind |-> "domain_allow", value |-> "shop"]}
MCBodies == {[strictness |-> "custom", thresholds |-> Lax],
             [strictness |-> "strict", thresholds |-> Keep]}

MCPool == ToPool(<<ana, luis>>)
MCRuleSets == {[rules |-> <<[matches |-> {leave, again}, active |-> FALSE,
                             target |-> ToSeller(luis)],
                            [matches |-> {temp}, active |-> TRUE, target |-> Drop]>>,
                default |-> MCPool]}
MCSellers == {ana, luis}
Weekdays == [offset |-> -300, monFri |-> [start |-> 540, end |-> 1020], saturday |-> NoWindow,
             sunday |-> NoWindow]
MCSellerRecords ==
    luis :> [onVacation |-> FALSE, until |-> Forever, hours |-> Weekdays]
MCInstants == {900, 1400}
MCScoring == [DefaultScoring({"price", "demo"}) EXCEPT !.weights = "demo" :> 60]

MCSymmetry == Permutations(MCHandlers) \cup Permutations(MCOperators)

==============================================================================
