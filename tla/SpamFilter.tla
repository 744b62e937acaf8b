----------------------------- MODULE SpamFilter -----------------------------
(* The promo classifier of a tenant: the rules and thresholds an operator    *)
(* stores (spam_filter/store.rs, spam_filter/defaults.rs), what they resolve *)
(* to (spam_filter/rules.rs) and the verdict on one mail                     *)
(* (spam_filter/classifier.rs).  Pure operators; the rows live in ColdMail.  *)
(*                                                                           *)
(* A mail is what the classifier tells apart: its sender and domain, the     *)
(* number of its images and visible characters, the vocabulary entries that  *)
(* occur in it and whether the local part is a role mailbox.                 *)
EXTENDS Integers, FiniteSets

CONSTANT DefaultKeywords   \* the built-in promo vocabulary

RuleKinds == {"domain_block", "domain_allow", "keyword_block",
              "keyword_allow", "sender_block", "sender_allow"}

Thresholds == [imageOnly : BOOLEAN, imageHeavy : BOOLEAN, heavyCount : Nat,
               heavyText : Nat, roleKeyword : BOOLEAN, multiWeak : BOOLEAN,
               weak : Nat]

Lax == [imageOnly |-> TRUE, imageHeavy |-> FALSE, heavyCount |-> 4,
        heavyText |-> 100, roleKeyword |-> FALSE, multiWeak |-> TRUE,
        weak |-> 3]
Balanced == [imageOnly |-> TRUE, imageHeavy |-> TRUE, heavyCount |-> 3,
             heavyText |-> 200, roleKeyword |-> TRUE, multiWeak |-> TRUE,
             weak |-> 2]
Strict == [imageOnly |-> TRUE, imageHeavy |-> TRUE, heavyCount |-> 2,
           heavyText |-> 500, roleKeyword |-> TRUE, multiWeak |-> TRUE,
           weak |-> 2]

Strictness == {"lax", "balanced", "strict", "custom"}

(* The set a configuration row stands for: a preset ignores the stored       *)
(* custom thresholds, which stay in the row.                                 *)
ActiveThresholds(config) ==
  CASE config.strictness = "lax"      -> Lax
    [] config.strictness = "balanced" -> Balanced
    [] config.strictness = "strict"   -> Strict
    [] config.strictness = "custom"   -> config.custom

DefaultConfig == [strictness |-> "balanced", custom |-> Balanced]

Values(rules, kind) == {r.value : r \in {s \in rules : s.kind = kind}}

(* Defaults minus what the tenant allows, plus what it blocks: a keyword     *)
(* that is both allowed and blocked counts.                                  *)
ActiveKeywords(rules) ==
  (DefaultKeywords \ Values(rules, "keyword_allow"))
    \cup Values(rules, "keyword_block")

Signals(mail, rules) ==
  [images |-> mail.images, text |-> mail.text, role |-> mail.role,
   keywords |-> Cardinality(mail.words \cap ActiveKeywords(rules))]

AsOne(holds) == IF holds THEN 1 ELSE 0

WeakSignals(s) ==
  AsOne(s.keywords >= 2) + AsOne(s.images >= 2 /\ s.text < 500) + AsOne(s.role)

(* The signals of a mail are enough to drop it under thresholds t.           *)
Drops(s, t) ==
  \/ t.imageOnly /\ s.images >= 1 /\ s.text = 0
  \/ t.imageHeavy /\ s.images >= t.heavyCount /\ s.text < t.heavyText
  \/ t.roleKeyword /\ s.role /\ s.keywords >= 1
  \/ t.multiWeak /\ WeakSignals(s) >= t.weak

(* Mutant: the domain's rules come first.                                    *)
BugIsHuman(mail, config, rules) ==
  \/ mail.from \in Values(rules, "sender_allow")
  \/ mail.domain \in Values(rules, "domain_allow")
  \/ /\ mail.from \notin Values(rules, "sender_block")
     /\ mail.domain \notin Values(rules, "domain_block")
     /\ ~Drops(Signals(mail, rules), ActiveThresholds(config))

(* The verdict: the most specific rule wins, and between an allow and a      *)
(* block of one level the allow does; without a rule the signals decide.     *)
IsHuman(mail, config, rules) ==
  \/ mail.from \in Values(rules, "sender_allow")
  \/ /\ mail.from \notin Values(rules, "sender_block")
     /\ \/ mail.domain \in Values(rules, "domain_allow")
        \/ /\ mail.domain \notin Values(rules, "domain_block")
           /\ ~Drops(Signals(mail, rules), ActiveThresholds(config))

(* Mutant: only the domain is looked up.                                     *)
BugRescued(mail, rules) == mail.domain \in Values(rules, "domain_allow")

(* A disposable domain is let in by either kind of allow rule only.          *)
Rescued(mail, rules) ==
  \/ mail.domain \in Values(rules, "domain_allow")
  \/ mail.from \in Values(rules, "sender_allow")

=============================================================================
