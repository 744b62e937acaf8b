---------------------------- MODULE MCEnrichment ----------------------------
(* Two mails and a confirmation of one domain and a mail of another, with  *)
(* one permit between the scrapes.                                         *)
EXTENDS Enrichment

CONSTANTS m1, m2, m3, c1

MCMails == {m1, m2, m3}
MCConfirms == {c1}
MCDomains == {"a.com", "b.com"}
MCDomain == [x \in MCMails \cup MCConfirms |-> IF x = m3 THEN "b.com" ELSE "a.com"]
=============================================================================
