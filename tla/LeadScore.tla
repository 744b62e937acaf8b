------------------------------ MODULE LeadScore ------------------------------
(* The score a new lead starts with (scoring.rs) under a tenant's weights.   *)
(* A mail is what the rules tell apart: the kind of its domain, its number   *)
(* of words, the purchase keywords that occur in it and whether the display  *)
(* name mentions a senior role.                                              *)
EXTENDS Integers, FiniteSets, Functions

DomainKinds == {"corporate", "personal", "disposable"}

(* The weights of a tenant: any numbers, of either sign, for some keywords.  *)
IsScoringConfig(cfg) ==
    /\ {cfg.corporate, cfg.personal, cfg.substantive, cfg.brief, cfg.boost, cfg.seniority}
          \subseteq Int
    /\ cfg.substantiveMin \in Nat /\ cfg.briefMax \in Nat
    /\ IsFiniteSet(DOMAIN cfg.weights)
    /\ \A k \in DOMAIN cfg.weights : cfg.weights[k] \in Int

(* The row a tenant starts with.                                             *)
DefaultScoring(keywords) ==
    [corporate |-> 20, personal |-> -5, substantiveMin |-> 30, substantive |-> 10,
     briefMax |-> 3, brief |-> -10, boost |-> 25, keywords |-> keywords,
     weights |-> << >>, seniority |-> 15]

(* The weight of a rule that fires, or nothing.                              *)
Given(condition, weight) == IF condition THEN weight ELSE 0

(* The keywords without a weight of their own share one boost; each of the   *)
(* others adds its weight, provided it is listed.                            *)
PurchaseIntent(mail, cfg) ==
    LET found == mail.intent \cap cfg.keywords
        weighted == found \cap DOMAIN cfg.weights
    IN  Given(found # weighted, cfg.boost) + SumFunctionOnSet(cfg.weights, weighted)

RawScore(mail, cfg) ==
    Given(mail.domainKind = "corporate", cfg.corporate)
  + Given(mail.domainKind = "personal", cfg.personal)
  + Given(mail.length >= cfg.substantiveMin, cfg.substantive)
  + Given(mail.length < cfg.briefMax, cfg.brief)
  + PurchaseIntent(mail, cfg)
  + Given(mail.senior, cfg.seniority)

(* Mutant: the sum is only cut off below.                                    *)
BugClamp(n) == IF n < 0 THEN 0 ELSE n

(* Score::value is in 0 .. 100, whatever the weights.                        *)
Clamp(n) == IF n < 0 THEN 0 ELSE IF n > 100 THEN 100 ELSE n

Score(mail, cfg) == Clamp(RawScore(mail, cfg))

==============================================================================
