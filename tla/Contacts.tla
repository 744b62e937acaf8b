------------------------------- MODULE Contacts -------------------------------
(* Who wrote: the person rows that cold mails (plugin/broker.rs),            *)
(* WhatsApp messages (whatsapp_ingest.rs) and the operator                   *)
(* (admin/persons.rs, admin/compose.rs) write, and the scan for duplicates   *)
(* that follows a cold mail (duplicate.rs).                                  *)
(*                                                                           *)
(* A person's id is derived from the address or number it was made from, so  *)
(* a row is written again and again, and each write replaces all of it.      *)
(* Which company a mail's sender is linked to is Enrichment's matter: here   *)
(* it is found or not.                                                       *)
EXTENDS Naturals, FiniteSets

CONSTANTS
    Handlers,
    Mails, Sender,     \* cold mails and their addresses
    Contacts,          \* on WhatsApp, each with a number and a LID
    Companies, CompanyOf,     \* of a sender's domain
    NamesOf,           \* what a mail says of its sender: see ResolvedName
    TypedNames,        \* what the operator calls whom a mail is composed to
    Words,             \* of a name, in lower case and without punctuation
    None,
    MaxEvents          \* bound: on mails, messages, confirmations and composed mails

ASSUME EventsAssumption == MaxEvents \in Nat

Senders == {Sender[m] : m \in Mails}

(* placeholder_person_id and deterministic_person_id: one id per address.    *)
MailId(s) == <<"mail", s>>
PnId(c) == <<"pn", c>>
LidId(c) == <<"lid", c>>
Jids == {PnId(c) : c \in Contacts} \cup {LidId(c) : c \in Contacts}
Ids == {MailId(s) : s \in Senders} \cup Jids

VARIABLES
    taken,      \* events so far
    rows,       \* the person of an id
    emails,     \* the owner of an address
    phones,     \* the owner of a WhatsApp id
    mapped,     \* contacts whose LID is known to be their number's
    step,       \* the next step of each handler
    doing,      \* the mail, the WhatsApp id or the person it is about
    who,        \* the id it writes
    row,        \* the row it is to write, or has read back
    reported,   \* DuplicatePersonDetected rows: <<resolved, candidate>>
    unbridged,  \* history: contacts whose LID was taken for a person
    excused     \* history: persons with a write that no complete scan followed

storeVars == <<rows, emails, phones>>
handlerVars == <<taken, step, doing, who, row>>
historyVars == <<unbridged, excused>>
vars == <<storeVars, mapped, handlerVars, reported, historyVars>>

Init ==
    /\ taken = 0
    /\ rows = [i \in Ids |-> None]
    /\ emails = [s \in Senders |-> None]
    /\ phones = [j \in Jids |-> None]
    /\ mapped = {}
    /\ step = [h \in Handlers |-> "idle"]
    /\ doing = [h \in Handlers |-> None]
    /\ who = [h \in Handlers |-> None]
    /\ row = [h \in Handlers |-> None]
    /\ reported = {}
    /\ unbridged = {} /\ excused = {}

GoTo(h, where) == step' = [step EXCEPT ![h] = where]

Finish(h) ==
    /\ taken' = taken
    /\ GoTo(h, "idle")
    /\ doing' = [doing EXCEPT ![h] = None]
    /\ who' = [who EXCEPT ![h] = None]
    /\ row' = [row EXCEPT ![h] = None]

Start(h, where, what, id, record) ==
    /\ step[h] = "idle"
    /\ taken < MaxEvents /\ taken' = taken + 1
    /\ GoTo(h, where)
    /\ doing' = [doing EXCEPT ![h] = what]
    /\ who' = [who EXCEPT ![h] = id]
    /\ row' = [row EXCEPT ![h] = record]

------------------------------------------------------------------------------
(* The resolver chain main.rs wires: the first answer of at least 70 percent *)
(* counts.                                                                   *)
Threshold == 70

(* DisplayNameParser: "Juan (Acme Corp)" names a person and a company,       *)
(* unless what is in the parentheses does not look like a company.           *)
FromDisplayName(said) ==
    CASE said.shape = "name (company)" -> [sure |-> 75, name |-> said.inner]
      [] said.shape = "name" -> [sure |-> 45, name |-> said.display]
      [] OTHER -> [sure |-> 0, name |-> None]

(* ReplyToReader: a corporate Reply-To of a personal address.  No name.      *)
FromReplyTo(said) ==
    [sure |-> IF said.personal /\ said.corporate_reply THEN 85 ELSE 0, name |-> None]

ChainName(said) ==
    IF FromDisplayName(said).sure >= Threshold THEN FromDisplayName(said).name
    ELSE IF FromReplyTo(said).sure >= Threshold THEN FromReplyTo(said).name
    ELSE None

(* What the chain inferred, else the display name, else the local part.      *)
ResolvedName(said) ==
    IF ChainName(said) # None THEN ChainName(said)
    ELSE IF said.display # None THEN said.display
    ELSE said.local

PersonOf(m, company) ==
    [name |-> ResolvedName(NamesOf[m]), company |-> company]

(* What is written of somebody: the name a mail or the operator gives, or an *)
(* id.                                                                       *)
Names == {ResolvedName(NamesOf[m]) : m \in Mails} \cup TypedNames \cup {"pn", "lid"}
Persons == [name : Names, company : Companies \cup {None}]

ASSUME PersonsAssumption ==
    /\ \A s \in Senders : CompanyOf[s] \in Companies \cup {None}
    /\ None \notin Persons \cup Ids
    /\ \A n \in Names : IsFiniteSet(Words[n])

(* resolve_person, and the company the enrichment hook found or did not.     *)
MailComes(h, m) ==
    /\ \E company \in {CompanyOf[Sender[m]], None} :
          Start(h, "persist", m, MailId(Sender[m]), PersonOf(m, company))
    /\ UNCHANGED <<storeVars, mapped, reported, historyVars>>

(* persist_person.  A failed upsert goes on with the same id.                *)
Persist(h) ==
    /\ step[h] = "persist"
    /\ rows' = [rows EXCEPT ![who[h]] = row[h]]
    /\ GoTo(h, "email")
    /\ UNCHANGED <<emails, phones, mapped, taken, doing, who, row, reported, historyVars>>

PersistFails(h) ==
    /\ step[h] = "persist"
    /\ GoTo(h, "own")
    /\ UNCHANGED <<storeVars, mapped, taken, doing, who, row, reported, historyVars>>

LinkEmail(h) ==
    /\ step[h] = "email"
    /\ emails' \in {emails, [emails EXCEPT ![Sender[doing[h]]] = who[h]]}
    /\ GoTo(h, "own")
    /\ UNCHANGED <<rows, phones, mapped, taken, doing, who, row, reported, historyVars>>

------------------------------------------------------------------------------
(* find_duplicate_candidates, once the lead exists.  The scan reads the      *)
(* person back first.                                                        *)
ReadOwn(h) ==
    /\ step[h] = "own"
    /\ rows[who[h]] # None
    /\ row' = [row EXCEPT ![h] = rows[who[h]]]
    /\ GoTo(h, "scan")
    /\ UNCHANGED <<storeVars, mapped, taken, doing, who, reported, historyVars>>

(* No such row, a failed statement or a failed create: no scan.              *)
NoScan(h) ==
    /\ step[h] = "own"
    /\ Finish(h)
    /\ excused' = excused \cup {who[h]}
    /\ UNCHANGED <<storeVars, mapped, reported, unbridged>>

\* Mutant: names are compared as they are written.
BugSimilarity(n, k) == IF n = k THEN 100 ELSE 0

(* name_jaccard, in percent.                                                 *)
Similarity(n, k) ==
    IF Words[n] = {} \/ Words[k] = {} THEN 0
    ELSE (Cardinality(Words[n] \cap Words[k]) * 100)
             \div Cardinality(Words[n] \cup Words[k])

Floor == 40
SameCompanyBoost == 20

(* The signals.  The address of a mail's person is owned by that person      *)
(* itself, and the caller passes no phones: what is left is the names in the *)
(* same company.                                                             *)
EmailMatches(id, s) == {emails[s]} \ {None, id}
PhoneMatches(id, jids) == {phones[j] : j \in jids} \ {None, id}
NameMatches(id, person) ==
    {other \in Ids \ {id} :
        /\ Words[person.name] # {}
        /\ person.company # None
        /\ rows[other] # None
        /\ rows[other].company = person.company
        /\ Similarity(person.name, rows[other].name) + SameCompanyBoost >= Floor}

Candidates(id, person, s) ==
    EmailMatches(id, s) \cup PhoneMatches(id, {}) \cup NameMatches(id, person)

Scan(h) ==
    /\ step[h] = "scan"
    /\ reported' = reported \cup
           {<<who[h], other>> : other \in Candidates(who[h], row[h], Sender[doing[h]])}
    /\ Finish(h)
    /\ UNCHANGED <<storeVars, mapped, historyVars>>

(* A failed lookup only degrades its signal; an audit row may fail as well.  *)
ScanDegrades(h) ==
    /\ step[h] = "scan"
    /\ reported' \in {reported} \cup
           {reported \cup {<<who[h], other>>} :
               other \in Candidates(who[h], row[h], Sender[doing[h]])}
    /\ excused' = excused \cup {who[h]}
    /\ Finish(h)
    /\ UNCHANGED <<storeVars, mapped, unbridged>>

------------------------------------------------------------------------------
(* handle_inbound_whatsapp_event.  Other events, groups and instances of no  *)
(* tenant are left alone.  The id stands in for a name.                      *)
MessageComes(h, j) ==
    /\ Start(h, "bridge", j, j, [name |-> j[1], company |-> None])
    /\ UNCHANGED <<storeVars, mapped, reported, historyVars>>

IsLid(j) == j[1] = "lid"

(* A LID that is mapped is its number's person; a number is its own.         *)
Bridge(h) ==
    /\ step[h] = "bridge"
    /\ IsLid(doing[h]) => doing[h][2] \in mapped
    /\ LET id == PnId(doing[h][2])
       IN  /\ who' = [who EXCEPT ![h] = id]
           /\ row' = [row EXCEPT ![h] = [name |-> id[1], company |-> None]]
    /\ GoTo(h, "upsert")
    /\ UNCHANGED <<storeVars, mapped, taken, doing, reported, historyVars>>

(* Not mapped, or the mapping cannot be read.                                *)
NoBridge(h) ==
    /\ step[h] = "bridge"
    /\ IsLid(doing[h])
    /\ unbridged' = unbridged \cup {doing[h][2]}
    /\ GoTo(h, "upsert")
    /\ UNCHANGED <<storeVars, mapped, taken, doing, who, row, reported, excused>>

UpsertContact(h) ==
    /\ step[h] = "upsert"
    /\ rows' = [rows EXCEPT ![who[h]] = row[h]]
    /\ GoTo(h, "phone")
    /\ UNCHANGED <<emails, phones, mapped, taken, doing, who, row, reported, historyVars>>

\* Mutant: the link is written although the person could not be.
BugUpsertFails(h) ==
    /\ step[h] = "upsert"
    /\ GoTo(h, "phone")
    /\ UNCHANGED <<storeVars, mapped, taken, doing, who, row, reported, historyVars>>

UpsertFails(h) ==
    /\ step[h] = "upsert"
    /\ Finish(h)
    /\ UNCHANGED <<storeVars, mapped, reported, historyVars>>

(* The link is keyed by the id the message came from.                        *)
LinkPhone(h) ==
    /\ step[h] = "phone"
    /\ phones' \in {phones, [phones EXCEPT ![doing[h]] = who[h]]}
    /\ Finish(h)
    /\ UNCHANGED <<rows, emails, mapped, reported, historyVars>>

------------------------------------------------------------------------------
(* The WhatsApp plugin learns that a LID is a number.                        *)
Learn(c) ==
    /\ mapped' = mapped \cup {c}
    /\ UNCHANGED <<storeVars, handlerVars, reported, historyVars>>

(* confirm_enrichment_handler: the row is read, changed and written back,    *)
(* and nothing is scanned.                                                   *)
ConfirmReads(h, id) ==
    /\ rows[id] # None
    /\ Start(h, "confirm", id, id, rows[id])
    /\ UNCHANGED <<storeVars, mapped, reported, historyVars>>

ConfirmWrites(h) ==
    /\ step[h] = "confirm"
    /\ \E company \in Companies :
          rows' = [rows EXCEPT ![who[h]] = [row[h] EXCEPT !.company = company]]
    /\ excused' = excused \cup {who[h]}
    /\ Finish(h)
    /\ UNCHANGED <<emails, phones, mapped, reported, unbridged>>

(* compose_handler, before it creates the lead: a row under the address's id *)
(* with the name the operator typed, or the local part, and of no company,   *)
(* whatever was known.  No link, no scan; a failed upsert is passed over.    *)
Compose(s) ==
    /\ taken < MaxEvents /\ taken' = taken + 1
    /\ \E n \in TypedNames :
          rows' = [rows EXCEPT ![MailId(s)] = [name |-> n, company |-> None]]
    /\ UNCHANGED <<emails, phones, mapped, step, doing, who, row, reported, historyVars>>

Restart ==
    /\ \E h \in Handlers : step[h] # "idle"
    /\ excused' = excused \cup {who[h] : h \in {g \in Handlers : step[g] # "idle"}}
    /\ step' = [h \in Handlers |-> "idle"]
    /\ doing' = [h \in Handlers |-> None]
    /\ who' = [h \in Handlers |-> None]
    /\ row' = [h \in Handlers |-> None]
    /\ UNCHANGED <<taken, storeVars, mapped, reported, unbridged>>

MailStep(h) ==
    \/ \E m \in Mails : MailComes(h, m)
    \/ Persist(h) \/ PersistFails(h) \/ LinkEmail(h)
    \/ ReadOwn(h) \/ NoScan(h) \/ Scan(h) \/ ScanDegrades(h)

ContactStep(h) ==
    \/ \E j \in Jids : MessageComes(h, j)
    \/ Bridge(h) \/ NoBridge(h)
    \/ UpsertContact(h) \/ UpsertFails(h) \/ LinkPhone(h)

OperatorStep(h) == (\E id \in Ids : ConfirmReads(h, id)) \/ ConfirmWrites(h)

Next ==
    \/ \E h \in Handlers : MailStep(h) \/ ContactStep(h) \/ OperatorStep(h)
    \/ \E s \in Senders : Compose(s)
    \/ \E c \in Contacts : Learn(c)
    \/ Restart

Spec == Init /\ [][Next]_vars

------------------------------------------------------------------------------
(* Type invariant; whoever owns an address or a number is a person with a    *)
(* row, and the owner of an address is the person made from it.              *)
TypeOK ==
    /\ taken \in 0 .. MaxEvents
    /\ rows \in [Ids -> Persons \cup {None}]
    /\ \A s \in Senders : emails[s] \in {None, MailId(s)}
    /\ \A s \in Senders : emails[s] # None => rows[emails[s]] # None
    /\ \A j \in Jids : phones[j] = None \/ rows[phones[j]] # None
    /\ mapped \subseteq Contacts /\ unbridged \subseteq Contacts
    /\ step \in [Handlers -> {"idle", "persist", "email", "own", "scan", "bridge",
                              "upsert", "phone", "confirm"}]
    /\ \A h \in Handlers : step[h] = "idle" <=> who[h] = None
    /\ reported \subseteq Ids \X Ids /\ excused \subseteq Ids

(* Senders of one company and one name, as far as a name has words: one of   *)
(* punctuation alone has none and is like no other.                          *)
Twins(p, q) ==
    /\ p # q
    /\ rows[p] # None /\ rows[q] # None
    /\ rows[p].company # None /\ rows[p].company = rows[q].company
    /\ Words[rows[p].name] = Words[rows[q].name]
    /\ Words[rows[p].name] # {}

AtRest(i) == \A h \in Handlers : who[h] # i

(* Two rows are left for one human only with a reason.  On WhatsApp: the LID *)
(* was met before its number was known, or the mapping could not be read     *)
(* (whatsapp_ingest.rs).  By mail: two persons of the same name and company  *)
(* have been reported as duplicates by one of their scans, whatever order    *)
(* the mails wrote and scanned in, unless a scan was cut short or the        *)
(* operator edited one of them (duplicate.rs).                               *)
NoSilentTwins ==
    /\ \A c \in Contacts : rows[LidId(c)] # None => c \in unbridged
    /\ \A s, t \in Senders :
          LET p == MailId(s)  q == MailId(t)
          IN  Twins(p, q) /\ AtRest(p) /\ AtRest(q) /\ {p, q} \cap excused = {}
                  => <<p, q>> \in reported \/ <<q, p>> \in reported

==============================================================================
