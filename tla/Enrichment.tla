----------------------------- MODULE Enrichment -----------------------------
(***************************************************************************)
(* Linking the sender of a cold mail to a company: the hook                *)
(* maybe_link_company_via_enrichment, the scrape it detaches when the      *)
(* cache knows nothing of the sender's domain, and the operator's          *)
(* confirm-enrichment request, which writes the same company rows.         *)
(*                                                                         *)
(* The handler of a mail waits 4 seconds for its scrape and then goes on   *)
(* without a company, while the scrape goes on without the handler.  Every *)
(* mail and every confirmation is processed once.  A company row is        *)
(* represented by its id: the domain for the scraper's deterministic id,   *)
(* the request for the fresh uuid of a confirmation.                       *)
(***************************************************************************)
EXTENDS Naturals, FiniteSets

CONSTANTS Mails,     \* the cold mails from corporate domains
          Confirms,  \* the confirmations that name a company
          Domains,   \* the sender domains
          Domain,    \* the domain of a mail or confirmation
          Permits    \* the scraper's semaphore (4 in the code)

NoCompany == "no company"
Ids == Mails \cup Confirms \cup Domains

ASSUME DomainAssumption == Domain \in [Mails \cup Confirms -> Domains]
ASSUME IdsAssumption == NoCompany \notin Ids
ASSUME PermitsAssumption == Permits \in Nat \ {0}

VARIABLES
    cache,   \* a domain's fresh cache entry: "none", "company" or "failed"
    rows,    \* the ids of the company rows of a domain
    step,    \* where the hook is in a mail
    hit,     \* what the hook read from the cache
    link,    \* the company the mail's person gets
    erred,   \* history: a store statement of the hook failed, or it was stopped
    task,    \* where the mail's scrape is; "none" when it has none
    landed,  \* the scrape has written its row
    asked,   \* where a confirmation is
    chosen   \* the row it is going to write

mailVars == <<step, hit, link, erred>>
taskVars == <<task, landed>>
confirmVars == <<asked, chosen>>
vars == <<cache, rows, mailVars, taskVars, confirmVars>>

Init ==
    /\ cache = [d \in Domains |-> "none"]
    /\ rows = [d \in Domains |-> {}]
    /\ step = [m \in Mails |-> "new"]
    /\ hit = [m \in Mails |-> "none"]
    /\ link = [m \in Mails |-> NoCompany]
    /\ erred = [m \in Mails |-> FALSE]
    /\ task = [m \in Mails |-> "none"]
    /\ landed = [m \in Mails |-> FALSE]
    /\ asked = [c \in Confirms |-> "new"]
    /\ chosen = [c \in Confirms |-> c]

------------------------------------------------------------------------------
(* The hook in the handler of a mail.                                      *)

GoTo(m, s) == step' = [step EXCEPT ![m] = s]

(* deterministic_company_id: sha256 of tenant and domain.                  *)
\* Mutant: a fresh id for every scrape.
BugCompanyId(m) == m
CompanyId(m) == Domain[m]

Link(m, id) ==
    /\ GoTo(m, "done")
    /\ link' = [link EXCEPT ![m] = id]

(* tokio::spawn, and the 4 second timeout on its handle.                   *)
Spawn(m) ==
    /\ GoTo(m, "waiting")
    /\ task' = [task EXCEPT ![m] = "queued"]

(* Mutant: the key is taken for the value.                                 *)
BugCacheHit(m) ==
    /\ step[m] = "new" /\ cache[Domain[m]] # "none"
    /\ GoTo(m, "find")
    /\ hit' = [hit EXCEPT ![m] = Domain[m]]
    /\ UNCHANGED <<cache, rows, link, erred, taskVars, confirmVars>>

CacheHit(m) ==
    /\ step[m] = "new" /\ cache[Domain[m]] # "none"
    /\ GoTo(m, "find")
    /\ hit' = [hit EXCEPT ![m] = cache[Domain[m]]]
    /\ UNCHANGED <<cache, rows, link, erred, taskVars, confirmVars>>

CacheMiss(m) ==
    /\ step[m] = "new" /\ cache[Domain[m]] = "none"
    /\ Spawn(m)
    /\ UNCHANGED <<cache, rows, hit, link, erred, landed, confirmVars>>

(* find_by_domain answers with one row of the domain; which is its choice. *)
FindCompany(m) ==
    /\ step[m] = "find"
    /\ \E id \in rows[Domain[m]] : Link(m, id)
    /\ UNCHANGED <<cache, rows, hit, erred, taskVars, confirmVars>>

(* "Cache says fresh but no row": the entry of a failed scrape, too.  The  *)
(* invalidation is `let _ =`.                                              *)
ForgetEntry(m) ==
    /\ step[m] = "find" /\ rows[Domain[m]] = {}
    /\ GoTo(m, "forget")
    /\ UNCHANGED <<cache, rows, hit, link, erred, taskVars, confirmVars>>

ScrapeAgain(m) ==
    /\ step[m] = "forget"
    /\ Spawn(m)
    /\ \/ cache' = [cache EXCEPT ![Domain[m]] = "none"]
       \/ UNCHANGED cache
    /\ UNCHANGED <<rows, hit, link, erred, landed, confirmVars>>

(* cache.get or find_by_domain reports an error: the mail goes on unlinked. *)
StatementFails(m) ==
    /\ step[m] \in {"new", "find"}
    /\ Link(m, NoCompany)
    /\ erred' = [erred EXCEPT ![m] = TRUE]
    /\ UNCHANGED <<cache, rows, hit, taskVars, confirmVars>>

Joined(m) ==
    /\ step[m] = "waiting" /\ task[m] = "over"
    /\ Link(m, IF landed[m] THEN CompanyId(m) ELSE NoCompany)
    /\ UNCHANGED <<cache, rows, hit, erred, taskVars, confirmVars>>

(* Mutant: the budget starts when the scrape gets its permit.              *)
BugTimeout(m) ==
    /\ step[m] = "waiting" /\ task[m] \notin {"queued", "over"}
    /\ Link(m, NoCompany)
    /\ UNCHANGED <<cache, rows, hit, erred, taskVars, confirmVars>>

Timeout(m) ==
    /\ step[m] = "waiting" /\ task[m] # "over"
    /\ Link(m, NoCompany)
    /\ UNCHANGED <<cache, rows, hit, erred, taskVars, confirmVars>>

MailStep(m) ==
    \/ FindCompany(m) \/ ForgetEntry(m) \/ ScrapeAgain(m)
    \/ Joined(m) \/ Timeout(m)

------------------------------------------------------------------------------
(* The detached scrape.                                                    *)

TaskGoes(m, s) == task' = [task EXCEPT ![m] = s]

Fetching == {m \in Mails : task[m] = "fetching"}

(* The semaphore, held by scrape_domain only.                              *)
StartFetch(m) ==
    /\ task[m] = "queued" /\ Cardinality(Fetching) < Permits
    /\ TaskGoes(m, "fetching")
    /\ UNCHANGED <<cache, rows, mailVars, landed, confirmVars>>

(* A page with a signal was found, or one of the six errors.               *)
EndFetch(m) ==
    /\ task[m] = "fetching"
    /\ TaskGoes(m, "upsert") \/ TaskGoes(m, "give up")
    /\ UNCHANGED <<cache, rows, mailVars, landed, confirmVars>>

(* Mutant: the company is returned although the upsert failed.             *)
BugUpsertCompany(m) ==
    /\ task[m] = "upsert"
    /\ landed' = [landed EXCEPT ![m] = TRUE]
    /\ \/ /\ TaskGoes(m, "cache")
          /\ rows' = [rows EXCEPT ![Domain[m]] = @ \cup {CompanyId(m)}]
       \/ /\ TaskGoes(m, "over")
          /\ UNCHANGED rows
    /\ UNCHANGED <<cache, mailVars, confirmVars>>

UpsertCompany(m) ==
    /\ task[m] = "upsert"
    /\ \/ /\ TaskGoes(m, "cache")
          /\ rows' = [rows EXCEPT ![Domain[m]] = @ \cup {CompanyId(m)}]
          /\ landed' = [landed EXCEPT ![m] = TRUE]
       \/ /\ TaskGoes(m, "over")
          /\ UNCHANGED <<rows, landed>>
    /\ UNCHANGED <<cache, mailVars, confirmVars>>

(* Mutant: the failure is cached like a company.                           *)
BugPutEntry(m) ==
    /\ task[m] \in {"cache", "give up"}
    /\ TaskGoes(m, "over")
    /\ cache' = [cache EXCEPT ![Domain[m]] = "company"]
    /\ UNCHANGED <<rows, mailVars, landed, confirmVars>>

(* A put that fails is logged or ignored.                                  *)
PutEntry(m) ==
    /\ task[m] \in {"cache", "give up"}
    /\ TaskGoes(m, "over")
    /\ \/ cache' = [cache EXCEPT ![Domain[m]] =
                        IF task[m] = "cache" THEN "company" ELSE "failed"]
       \/ UNCHANGED cache
    /\ UNCHANGED <<rows, mailVars, landed, confirmVars>>

TaskStep(m) == StartFetch(m) \/ EndFetch(m) \/ UpsertCompany(m) \/ PutEntry(m)

------------------------------------------------------------------------------
(* confirm_enrichment_handler with a company name.                         *)

ConfirmFind(c) ==
    /\ asked[c] = "new"
    /\ asked' = [asked EXCEPT ![c] = "write"]
    /\ \E id \in IF rows[Domain[c]] = {} THEN {c} ELSE rows[Domain[c]] :
          chosen' = [chosen EXCEPT ![c] = id]
    /\ UNCHANGED <<cache, rows, mailVars, taskVars>>

ConfirmWrite(c) ==
    /\ asked[c] = "write"
    /\ asked' = [asked EXCEPT ![c] = "done"]
    /\ \/ rows' = [rows EXCEPT ![Domain[c]] = @ \cup {chosen[c]}]
       \/ UNCHANGED rows
    /\ UNCHANGED <<cache, mailVars, taskVars, chosen>>

(* A time to live ends.                                                    *)
Expire(d) ==
    /\ cache[d] # "none"
    /\ cache' = [cache EXCEPT ![d] = "none"]
    /\ UNCHANGED <<rows, mailVars, taskVars, confirmVars>>

(* The process stops: cache and rows are in sqlite, scrapes are not.       *)
Restart ==
    /\ step' = [m \in Mails |-> IF step[m] = "new" THEN "new" ELSE "done"]
    /\ erred' = [m \in Mails |-> erred[m] \/ step[m] \notin {"new", "done"}]
    /\ task' = [m \in Mails |-> IF task[m] = "none" THEN "none" ELSE "over"]
    /\ asked' = [c \in Confirms |-> IF asked[c] = "new" THEN "new" ELSE "done"]
    /\ UNCHANGED <<cache, rows, hit, link, landed, chosen>>

Next ==
    \/ \E m \in Mails :
        CacheHit(m) \/ CacheMiss(m) \/ StatementFails(m) \/ MailStep(m) \/ TaskStep(m)
    \/ \E c \in Confirms : ConfirmFind(c) \/ ConfirmWrite(c)
    \/ \E d \in Domains : Expire(d)
    \/ Restart

Spec == Init /\ [][Next]_vars

(* Store statements return and the timer fires.  Nothing is assumed of the *)
(* scrapes, or of the network behind them.                                 *)
FairSpec == Spec /\ \A m \in Mails : WF_vars(MailStep(m))

------------------------------------------------------------------------------
(* Properties.                                                             *)

TypeOK ==
    /\ cache \in [Domains -> {"none", "company", "failed"}]
    /\ rows \in [Domains -> SUBSET Ids]
    /\ step \in [Mails -> {"new", "find", "forget", "waiting", "done"}]
    /\ hit \in [Mails -> {"none", "company", "failed"}]
    /\ link \in [Mails -> Ids \cup {NoCompany}]
    /\ erred \in [Mails -> BOOLEAN]
    /\ task \in [Mails ->
            {"none", "queued", "fetching", "upsert", "cache", "give up", "over"}]
    /\ landed \in [Mails -> BOOLEAN]
    /\ asked \in [Confirms -> {"new", "write", "done"}]
    /\ chosen \in [Confirms -> Ids]

(* "Fast path: zero network calls": a mail whose domain has a successful   *)
(* entry is linked to a row that exists, without a scrape, whatever late   *)
(* scrapes and confirmations do meanwhile, unless a statement fails.       *)
KnownDomainsLink ==
    \A m \in Mails :
        hit[m] = "company" =>
            /\ task[m] = "none"
            /\ step[m] = "done" /\ ~ erred[m] => link[m] # NoCompany

(* A link is to a row of the sender's domain, also when the scrape's       *)
(* answer and the 4 second budget race.                                    *)
LinksHold ==
    \A m \in Mails : link[m] # NoCompany => link[m] \in rows[Domain[m]]

(* "Two concurrent scrapes of the same domain compute the SAME id": all    *)
(* rows of a domain but those made by confirmations are one.               *)
ScrapesShareARow ==
    \A d \in Domains : \A x, y \in rows[d] \ Confirms : x = y

(* "Failures ... never block the lead creation pipeline": the hook ends    *)
(* even when no scrape ever does.                                          *)
LeadsGoOn == \A m \in Mails : step[m] # "new" ~> step[m] = "done"
=============================================================================
