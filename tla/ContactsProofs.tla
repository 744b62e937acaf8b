---------------------------- MODULE ContactsProofs ----------------------------
(* Theorems about Contacts for any number of handlers, mails, contacts and   *)
(* companies.                                                                *)
EXTENDS Contacts, FiniteSetTheorems, TLAPS

MailSteps == {"persist", "email", "own", "scan"}
ContactSteps == {"bridge", "upsert", "phone"}

(* The rows, the links and what was reported.                                *)
RowsShape ==
    /\ rows \in [Ids -> Persons \cup {None}]
    /\ emails \in [Senders -> Ids \cup {None}]
    /\ \A s \in Senders : emails[s] # None => emails[s] = MailId(s) /\ rows[MailId(s)] # None
    /\ phones \in [Jids -> Jids \cup {None}]
    /\ \A j \in Jids : phones[j] # None => rows[phones[j]] # None
    /\ mapped \subseteq Contacts /\ unbridged \subseteq Contacts
    /\ reported \subseteq Ids \X Ids /\ excused \subseteq Ids

(* A handler of a mail writes the sender's person, one of a message a        *)
(* contact's, and the operator whoever has a row.                            *)
HandlerShape(h) ==
    /\ step[h] = "idle" => who[h] = None
    /\ step[h] # "idle" => who[h] \in Ids /\ row[h] \in Persons
    /\ step[h] \in MailSteps => doing[h] \in Mails /\ who[h] = MailId(Sender[doing[h]])
    /\ step[h] \in ContactSteps => doing[h] \in Jids /\ who[h] \in Jids
    /\ step[h] = "bridge" => who[h] = doing[h]
    /\ step[h] \in {"email", "phone", "confirm"} => rows[who[h]] # None

HandlersShape ==
    /\ taken \in 0 .. MaxEvents
    /\ step \in [Handlers -> {"idle", "confirm"} \cup MailSteps \cup ContactSteps]
    /\ DOMAIN doing = Handlers /\ DOMAIN who = Handlers /\ DOMAIN row = Handlers
    /\ \A h \in Handlers : HandlerShape(h)

(* A LID has a row, or is about to get one, only when it was not bridged.    *)
LidsUnbridged ==
    /\ \A c \in Contacts : rows[LidId(c)] # None => c \in unbridged
    /\ \A h \in Handlers, c \in Contacts :
          step[h] \in {"upsert", "phone"} /\ who[h] = LidId(c) => c \in unbridged

(* A scan to come will find whoever is like p now.                           *)
Watches(h, p) ==
    /\ who[h] = p
    /\ step[h] \in {"email", "own"} \/ (step[h] = "scan" /\ row[h] = rows[p])

Reported(p, q) == <<p, q>> \in reported \/ <<q, p>> \in reported

(* Twins that have not been reported have somebody about to report them.     *)
TwinsWatched ==
    \A s, t \in Senders :
        LET p == MailId(s)  q == MailId(t)
        IN  Twins(p, q) /\ {p, q} \cap excused = {}
                => Reported(p, q) \/ \E h \in Handlers : Watches(h, p) \/ Watches(h, q)

ContactsInv == RowsShape /\ HandlersShape /\ LidsUnbridged /\ TwinsWatched

LEMMA ContactsStart == Init => ContactsInv
<1> SUFFICES ASSUME Init PROVE ContactsInv
    OBVIOUS
<1>1. RowsShape
    BY DEF Init, RowsShape
<1>2. HandlersShape
    BY EventsAssumption DEF Init, HandlersShape, HandlerShape, MailSteps, ContactSteps
<1>3. LidsUnbridged
    BY DEF Init, LidsUnbridged, Ids, Jids
<1>4. TwinsWatched
    BY DEF Init, TwinsWatched, Twins, Ids
<1>5. QED
    BY <1>1, <1>2, <1>3, <1>4 DEF ContactsInv

(* Ids of the three kinds differ, and none is None.                          *)
LEMMA IdsApart ==
    /\ \A s \in Senders, c \in Contacts : MailId(s) # LidId(c) /\ MailId(s) # PnId(c)
    /\ \A c, d \in Contacts : PnId(c) # LidId(d)
    /\ \A s \in Senders : MailId(s) \in Ids /\ MailId(s) \notin Jids
    /\ Jids \subseteq Ids /\ None \notin Ids /\ None \notin Persons
    /\ \A j \in Jids : j[1] \in {"pn", "lid"} /\ j[2] \in Contacts
    /\ \A j \in Jids : IsLid(j) => j = LidId(j[2])
    /\ \A j \in Jids : ~IsLid(j) => j = PnId(j[2])
BY PersonsAssumption DEF MailId, PnId, LidId, Jids, Ids, IsLid

(* Names that are spelled with the same words are like each other.           *)
LEMMA SameWordsAreSimilar ==
    ASSUME NEW n \in Names, NEW k, Words[n] = Words[k], Words[n] # {}
    PROVE  Similarity(n, k) = 100
<1> DEFINE size == Cardinality(Words[n])
<1>1. IsFiniteSet(Words[n])
    BY PersonsAssumption
<1>2. size \in Nat /\ size # 0
    BY <1>1, FS_CardinalityType, FS_EmptySet
<1>3. Words[n] \cap Words[k] = Words[n] /\ Words[n] \cup Words[k] = Words[n]
    OBVIOUS
<1>4. Similarity(n, k) = (size * 100) \div size
    BY <1>3 DEF Similarity
<1> HIDE DEF size
<1>5. (size * 100) \div size = 100
    BY <1>2
<1>6. QED
    BY <1>4, <1>5

(* A scan that has read back what its person is now finds its twins.         *)
LEMMA TwinsAreFound ==
    ASSUME ContactsInv, NEW p \in Ids, NEW q \in Ids, Twins(p, q), NEW s
    PROVE  q \in Candidates(p, rows[p], s) /\ p \in Candidates(q, rows[q], s)
<1>1. rows[p] \in Persons /\ rows[q] \in Persons
    BY DEF ContactsInv, RowsShape, Twins
<1>2. Similarity(rows[p].name, rows[q].name) = 100 /\ Similarity(rows[q].name, rows[p].name) = 100
    BY <1>1, SameWordsAreSimilar DEF Twins, Persons
<1>3. q \in NameMatches(p, rows[p]) /\ p \in NameMatches(q, rows[q])
    BY <1>2 DEF NameMatches, Twins, SameCompanyBoost, Floor
<1>4. QED
    BY <1>3 DEF Candidates

LEMMA CandidatesAreIds ==
    ASSUME ContactsInv, NEW id, NEW person, NEW s \in Senders
    PROVE  Candidates(id, person, s) \subseteq Ids
BY DEF ContactsInv, RowsShape, Candidates, EmailMatches, PhoneMatches, NameMatches

(* A step that writes no row keeps the watch, when whoever stops watching    *)
(* excuses its person or has reported its twins.                             *)
LEMMA WatchKept ==
    ASSUME ContactsInv, rows' = rows, reported \subseteq reported', excused \subseteq excused',
           \A h \in Handlers, s \in Senders :
               LET p == MailId(s)
               IN  Watches(h, p) => \/ Watches(h, p)'
                                    \/ p \in excused'
                                    \/ \A t \in Senders : Twins(p, MailId(t)) =>
                                          <<p, MailId(t)>> \in reported'
    PROVE  TwinsWatched'
<1> SUFFICES ASSUME NEW s \in Senders, NEW t \in Senders,
                    Twins(MailId(s), MailId(t)), {MailId(s), MailId(t)} \cap excused' = {}
             PROVE  \/ <<MailId(s), MailId(t)>> \in reported' \/ <<MailId(t), MailId(s)>> \in reported'
                    \/ \E h \in Handlers : Watches(h, MailId(s))' \/ Watches(h, MailId(t))'
    BY DEF TwinsWatched, Twins, Reported, MailId
<1>1. Twins(MailId(t), MailId(s))
    BY DEF Twins
<1>2. \/ Reported(MailId(s), MailId(t))
      \/ \E h \in Handlers : Watches(h, MailId(s)) \/ Watches(h, MailId(t))
    BY DEF ContactsInv, TwinsWatched
<1>3. QED
    BY <1>1, <1>2 DEF Reported

(* Only handler h moves.                                                     *)
Moves(h) ==
    /\ taken' \in 0 .. MaxEvents
    /\ step' \in [Handlers -> {"idle", "confirm"} \cup MailSteps \cup ContactSteps]
    /\ DOMAIN doing' = Handlers /\ DOMAIN who' = Handlers /\ DOMAIN row' = Handlers
    /\ \A g \in Handlers : g # h =>
          step'[g] = step[g] /\ doing'[g] = doing[g] /\ who'[g] = who[g] /\ row'[g] = row[g]

LEMMA ShapeMoves ==
    ASSUME ContactsInv, NEW h \in Handlers, Moves(h), HandlerShape(h)',
           \A i \in Ids : rows[i] # None => rows'[i] # None
    PROVE  HandlersShape'
<1>1. ASSUME NEW g \in Handlers, g # h PROVE HandlerShape(g)'
    <2>1. HandlerShape(g) /\ step'[g] = step[g] /\ doing'[g] = doing[g] /\ who'[g] = who[g]
          /\ row'[g] = row[g]
        BY <1>1 DEF Moves, ContactsInv, HandlersShape
    <2>2. QED
        BY <2>1 DEF HandlerShape
<1>2. QED
    BY <1>1 DEF Moves, HandlersShape

(* A handler takes something on.                                             *)
LEMMA StartKeeps ==
    ASSUME ContactsInv, NEW h \in Handlers, NEW where, NEW what, NEW id \in Ids,
           NEW record \in Persons, Start(h, where, what, id, record),
           UNCHANGED <<storeVars, mapped, reported, historyVars>>,
           \/ where = "persist" /\ what \in Mails /\ id = MailId(Sender[what])
           \/ where = "bridge" /\ what \in Jids /\ id = what
           \/ where = "confirm" /\ rows[id] # None
    PROVE  ContactsInv'
<1> USE DEF ContactsInv
<1>1. /\ Moves(h) /\ step[h] = "idle" /\ who[h] = None
      /\ step'[h] = where /\ doing'[h] = what /\ who'[h] = id /\ row'[h] = record
    BY EventsAssumption DEF Start, GoTo, Moves, HandlersShape, HandlerShape, MailSteps, ContactSteps
<1>2. RowsShape'
    BY DEF RowsShape, storeVars, historyVars
<1>3. HandlerShape(h)'
    BY <1>1 DEF HandlerShape, MailSteps, ContactSteps, storeVars
<1>4. HandlersShape'
    BY <1>1, <1>3, ShapeMoves DEF storeVars
<1>5. LidsUnbridged'
    BY <1>1 DEF LidsUnbridged, storeVars, historyVars, Moves
<1>6. TwinsWatched'
    <2>1. ASSUME NEW g \in Handlers, NEW s \in Senders, Watches(g, MailId(s))
          PROVE  Watches(g, MailId(s))'
        BY <1>1, <2>1, IdsApart DEF Watches, Moves, storeVars
    <2>2. QED
        BY <2>1, WatchKept DEF storeVars, historyVars
<1>7. QED
    BY <1>2, <1>4, <1>5, <1>6

(* A handler lets go of its person without having written a row: it watched  *)
(* nobody, or what it watched is excused or reported.                        *)
LEMMA FinishKeeps ==
    ASSUME ContactsInv, NEW h \in Handlers, Finish(h), RowsShape',
           UNCHANGED <<rows, unbridged>>,
           reported \subseteq reported', excused \subseteq excused',
           \A s \in Senders : Watches(h, MailId(s)) =>
               \/ MailId(s) \in excused'
               \/ \A t \in Senders : Twins(MailId(s), MailId(t)) =>
                     <<MailId(s), MailId(t)>> \in reported'
    PROVE  ContactsInv'
<1> USE DEF ContactsInv
<1>1. Moves(h) /\ step'[h] = "idle" /\ who'[h] = None
    BY DEF Finish, GoTo, Moves, HandlersShape
<1>2. HandlerShape(h)'
    BY <1>1 DEF HandlerShape, MailSteps, ContactSteps
<1>3. HandlersShape'
    BY <1>1, <1>2, ShapeMoves
<1>4. LidsUnbridged'
    BY <1>1 DEF LidsUnbridged, Moves
<1>5. TwinsWatched'
    <2>1. ASSUME NEW g \in Handlers, g # h, NEW s \in Senders, Watches(g, MailId(s))
          PROVE  Watches(g, MailId(s))'
        BY <1>1, <2>1 DEF Watches, Moves
    <2>2. QED
        BY <2>1, WatchKept
<1>6. QED
    BY <1>3, <1>4, <1>5

(* A row is written, by a handler that then watches its person, or excuses   *)
(* it; the rows of contacts are not watched.                                 *)
LEMMA WriteKeeps ==
    ASSUME ContactsInv, NEW h \in Handlers, NEW record \in Persons, NEW id \in Ids, who[h] = id,
           rows' = [rows EXCEPT ![id] = record], Moves(h), HandlerShape(h)',
           UNCHANGED <<emails, phones, mapped, unbridged, reported>>,
           excused' \in {excused, excused \cup {id}},
           \A c \in Contacts : id = LidId(c) => c \in unbridged,
           \A c \in Contacts : step'[h] \in {"upsert", "phone"} /\ who'[h] = LidId(c) => c \in unbridged,
           \A s \in Senders : id = MailId(s) => MailId(s) \in excused' \/ Watches(h, MailId(s))'
    PROVE  ContactsInv'
<1> USE DEF ContactsInv
<1>1. /\ rows' \in [Ids -> Persons \cup {None}] /\ rows'[id] = record /\ record # None
      /\ \A i \in Ids : i # id => rows'[i] = rows[i]
      /\ \A i \in Ids : rows[i] # None => rows'[i] # None
    BY IdsApart DEF RowsShape
<1>2. RowsShape'
    BY <1>1, IdsApart DEF RowsShape
<1>3. HandlersShape'
    BY <1>1, ShapeMoves
<1>4. LidsUnbridged'
    <2>1. \A c \in Contacts : LidId(c) \in Ids
        BY IdsApart DEF Jids
    <2>2. QED
        BY <1>1, <2>1 DEF LidsUnbridged, Moves
<1>5. TwinsWatched'
    <2> SUFFICES ASSUME NEW s \in Senders, NEW t \in Senders,
                        Twins(MailId(s), MailId(t))', {MailId(s), MailId(t)} \cap excused' = {}
                 PROVE  \/ Reported(MailId(s), MailId(t))'
                        \/ \E g \in Handlers : Watches(g, MailId(s))' \/ Watches(g, MailId(t))'
        BY DEF TwinsWatched, MailId
    <2>1. CASE id = MailId(s) \/ id = MailId(t)
        BY <2>1
    <2>2. CASE id # MailId(s) /\ id # MailId(t)
        <3>1. Twins(MailId(s), MailId(t)) /\ {MailId(s), MailId(t)} \cap excused = {}
            BY <1>1, <2>2, IdsApart DEF Twins
        <3>2. \A g \in Handlers : /\ Watches(g, MailId(s)) => Watches(g, MailId(s))'
                                  /\ Watches(g, MailId(t)) => Watches(g, MailId(t))'
            BY <1>1, <2>2, IdsApart DEF Watches, Moves
        <3>3. QED
            BY <3>1, <3>2 DEF TwinsWatched, Reported
    <2>3. QED
        BY <2>1, <2>2
<1>6. QED
    BY <1>2, <1>3, <1>4, <1>5

(* A handler goes on without a row, a link or a report being written.        *)
LEMMA ProceedKeeps ==
    ASSUME ContactsInv, NEW h \in Handlers, Moves(h), HandlerShape(h)', RowsShape',
           rows' = rows, UNCHANGED <<reported, excused>>, unbridged \subseteq unbridged',
           \A c \in Contacts : step'[h] \in {"upsert", "phone"} /\ who'[h] = LidId(c) => c \in unbridged',
           \A s \in Senders : Watches(h, MailId(s)) => Watches(h, MailId(s))'
    PROVE  ContactsInv'
<1> USE DEF ContactsInv
<1>1. HandlersShape'
    BY ShapeMoves
<1>2. LidsUnbridged'
    BY DEF LidsUnbridged, Moves
<1>3. TwinsWatched'
    <2>1. ASSUME NEW g \in Handlers, g # h, NEW s \in Senders, Watches(g, MailId(s))
          PROVE  Watches(g, MailId(s))'
        BY <2>1 DEF Watches, Moves
    <2>2. QED
        BY <2>1, WatchKept
<1>4. QED
    BY <1>1, <1>2, <1>3

(* One step per action of a mail's handler.                                  *)
LEMMA MailKeeps ==
    ASSUME ContactsInv, NEW h \in Handlers, MailStep(h)
    PROVE  ContactsInv'
<1> USE DEF ContactsInv
<1>1. ASSUME NEW m \in Mails, MailComes(h, m) PROVE ContactsInv'
    <2>1. PICK company \in {CompanyOf[Sender[m]], None} :
              Start(h, "persist", m, MailId(Sender[m]), PersonOf(m, company))
        BY <1>1 DEF MailComes
    <2>2. PersonOf(m, company) \in Persons /\ MailId(Sender[m]) \in Ids
        BY PersonsAssumption, IdsApart DEF PersonOf, Persons, Names, Senders
    <2>3. QED
        BY <1>1, <2>1, <2>2, StartKeeps DEF MailComes
<1>2. CASE Persist(h)
    <2>1. /\ who[h] \in Ids /\ row[h] \in Persons /\ who[h] = MailId(Sender[doing[h]])
          /\ doing[h] \in Mails
        BY <1>2 DEF Persist, HandlersShape, HandlerShape, MailSteps
    <2>2. /\ Moves(h) /\ step'[h] = "email" /\ who'[h] = who[h] /\ row'[h] = row[h]
          /\ doing'[h] = doing[h]
        BY <1>2 DEF Persist, GoTo, Moves, HandlersShape, MailSteps, ContactSteps
    <2>3. rows'[who[h]] = row[h] /\ row[h] # None
        BY <1>2, <2>1, IdsApart DEF Persist, RowsShape
    <2>4. HandlerShape(h)'
        BY <2>1, <2>2, <2>3 DEF HandlerShape, MailSteps, ContactSteps
    <2>5. \A c \in Contacts : who[h] # LidId(c)
        BY <2>1, IdsApart DEF Senders
    <2>6. \A s \in Senders : who[h] = MailId(s) => Watches(h, MailId(s))'
        BY <2>2 DEF Watches
    <2>7. QED
        BY <1>2, <2>1, <2>2, <2>4, <2>5, <2>6, WriteKeeps DEF Persist, historyVars
<1>3. CASE PersistFails(h)
    <2>1. Moves(h) /\ step[h] = "persist" /\ step'[h] = "own" /\ UNCHANGED <<doing, who, row>>
        BY <1>3 DEF PersistFails, GoTo, Moves, HandlersShape, MailSteps, ContactSteps
    <2>2. HandlerShape(h)' /\ RowsShape'
        BY <1>3, <2>1 DEF PersistFails, HandlersShape, HandlerShape, MailSteps, ContactSteps,
           RowsShape, storeVars, historyVars
    <2>3. QED
        BY <1>3, <2>1, <2>2, ProceedKeeps DEF PersistFails, Watches, storeVars, historyVars
<1>4. CASE LinkEmail(h)
    <2>1. /\ Moves(h) /\ step[h] = "email" /\ step'[h] = "own"
          /\ UNCHANGED <<rows, phones, mapped, doing, who, row, reported, historyVars>>
        BY <1>4 DEF LinkEmail, GoTo, Moves, HandlersShape, MailSteps, ContactSteps
    <2>2. /\ doing[h] \in Mails /\ who[h] = MailId(Sender[doing[h]]) /\ who[h] \in Ids
          /\ row[h] \in Persons /\ rows[who[h]] # None
        BY <2>1 DEF HandlersShape, HandlerShape, MailSteps
    <2>3. HandlerShape(h)'
        BY <2>1, <2>2 DEF HandlerShape, MailSteps, ContactSteps
    <2>4. RowsShape'
        BY <1>4, <2>1, <2>2 DEF LinkEmail, RowsShape, Senders, historyVars
    <2>5. QED
        BY <2>1, <2>3, <2>4, ProceedKeeps DEF Watches, historyVars
<1>5. CASE ReadOwn(h)
    <2>1. /\ Moves(h) /\ step[h] = "own" /\ step'[h] = "scan" /\ rows[who[h]] # None
          /\ row'[h] = rows[who[h]]
          /\ UNCHANGED <<storeVars, mapped, doing, who, reported, historyVars>>
        BY <1>5 DEF ReadOwn, GoTo, Moves, HandlersShape, MailSteps, ContactSteps
    <2>2. /\ doing[h] \in Mails /\ who[h] = MailId(Sender[doing[h]]) /\ who[h] \in Ids
          /\ rows[who[h]] \in Persons
        BY <2>1 DEF HandlersShape, HandlerShape, MailSteps, RowsShape
    <2>3. HandlerShape(h)' /\ RowsShape'
        BY <2>1, <2>2 DEF HandlerShape, MailSteps, ContactSteps, RowsShape, storeVars, historyVars
    <2>4. QED
        BY <2>1, <2>3, ProceedKeeps DEF Watches, storeVars, historyVars
<1>6. CASE NoScan(h) \/ ScanDegrades(h)
    <2>1. /\ Finish(h) /\ excused' = excused \cup {who[h]} /\ UNCHANGED <<storeVars, mapped, unbridged>>
          /\ step[h] \in {"own", "scan"} /\ reported \subseteq reported'
        BY <1>6 DEF NoScan, ScanDegrades
    <2>2. who[h] \in Ids /\ Sender[doing[h]] \in Senders
        BY <2>1 DEF HandlersShape, HandlerShape, MailSteps, Senders
    <2>3. reported' \subseteq Ids \X Ids
        BY <1>6, <2>2, CandidatesAreIds DEF NoScan, ScanDegrades, RowsShape
    <2>4. RowsShape'
        BY <2>1, <2>2, <2>3 DEF RowsShape, storeVars
    <2>5. QED
        BY <2>1, <2>4, FinishKeeps DEF Watches, storeVars
<1>7. CASE Scan(h)
    <2>1. /\ Finish(h) /\ step[h] = "scan" /\ UNCHANGED <<storeVars, mapped, historyVars>>
          /\ reported' = reported \cup
                {<<who[h], other>> : other \in Candidates(who[h], row[h], Sender[doing[h]])}
        BY <1>7 DEF Scan
    <2>2. who[h] \in Ids /\ Sender[doing[h]] \in Senders
        BY <2>1 DEF HandlersShape, HandlerShape, MailSteps, Senders
    <2>3. RowsShape'
        BY <2>1, <2>2, CandidatesAreIds DEF RowsShape, storeVars, historyVars
    <2>4. ASSUME NEW s \in Senders, NEW t \in Senders, Watches(h, MailId(s)), Twins(MailId(s), MailId(t))
          PROVE  <<MailId(s), MailId(t)>> \in reported'
        <3>1. who[h] = MailId(s) /\ row[h] = rows[MailId(s)]
            BY <2>1, <2>4 DEF Watches
        <3>2. MailId(t) \in Candidates(MailId(s), rows[MailId(s)], Sender[doing[h]])
            BY <2>4, TwinsAreFound, IdsApart
        <3>3. QED
            BY <2>1, <3>1, <3>2
    <2>5. QED
        BY <2>1, <2>3, <2>4, FinishKeeps DEF storeVars, historyVars
<1>8. QED
    BY <1>1, <1>2, <1>3, <1>4, <1>5, <1>6, <1>7 DEF MailStep

(* The handlers of messages, and the operator's confirmation.                *)
LEMMA ContactKeeps ==
    ASSUME ContactsInv, NEW h \in Handlers, ContactStep(h) \/ OperatorStep(h)
    PROVE  ContactsInv'
<1> USE DEF ContactsInv
<1>1. ASSUME NEW j \in Jids, MessageComes(h, j) PROVE ContactsInv'
    <2>1. [name |-> j[1], company |-> None] \in Persons /\ j \in Ids
        BY IdsApart DEF Persons, Names
    <2>2. QED
        BY <1>1, <2>1, StartKeeps DEF MessageComes
<1>2. CASE Bridge(h)
    <2> DEFINE id == PnId(doing[h][2])
    <2>1. doing[h] \in Jids /\ doing[h][2] \in Contacts /\ step[h] = "bridge"
        BY <1>2, IdsApart DEF Bridge, HandlersShape, HandlerShape, ContactSteps
    <2>2. id \in Jids /\ id \in Ids /\ id[1] = "pn"
        BY <2>1 DEF Jids, Ids, PnId
    <2> HIDE DEF id
    <2>3. /\ Moves(h) /\ step'[h] = "upsert" /\ who'[h] = id /\ doing'[h] = doing[h]
          /\ row'[h] = [name |-> id[1], company |-> None]
        BY <1>2 DEF Bridge, GoTo, Moves, HandlersShape, MailSteps, ContactSteps, id
    <2>4. HandlerShape(h)'
        BY <2>1, <2>2, <2>3 DEF HandlerShape, MailSteps, ContactSteps, Persons, Names
    <2>5. \A c \in Contacts : id # LidId(c)
        BY <2>1, IdsApart DEF id
    <2>6. RowsShape'
        BY <1>2 DEF Bridge, RowsShape, storeVars, historyVars
    <2>7. QED
        BY <1>2, <2>1, <2>3, <2>4, <2>5, <2>6, ProceedKeeps DEF Bridge, Watches, storeVars, historyVars
<1>3. CASE NoBridge(h)
    <2>1. /\ doing[h] \in Jids /\ doing[h][2] \in Contacts /\ step[h] = "bridge" /\ who[h] = doing[h]
          /\ doing[h] = LidId(doing[h][2]) /\ who[h] \in Ids /\ row[h] \in Persons
        BY <1>3, IdsApart DEF NoBridge, HandlersShape, HandlerShape, ContactSteps
    <2>2. /\ Moves(h) /\ step'[h] = "upsert" /\ UNCHANGED <<doing, who, row>>
        BY <1>3 DEF NoBridge, GoTo, Moves, HandlersShape, MailSteps, ContactSteps
    <2>3. HandlerShape(h)'
        BY <2>1, <2>2 DEF HandlerShape, MailSteps, ContactSteps
    <2>4. RowsShape' /\ unbridged \subseteq unbridged' /\ doing[h][2] \in unbridged'
        BY <1>3, <2>1 DEF NoBridge, RowsShape, storeVars
    <2>5. \A c \in Contacts : who'[h] = LidId(c) => c = doing[h][2]
        BY <2>1, <2>2 DEF LidId
    <2>6. QED
        BY <1>3, <2>1, <2>2, <2>3, <2>4, <2>5, ProceedKeeps DEF NoBridge, Watches, storeVars
<1>4. CASE UpsertContact(h)
    <2>1. /\ who[h] \in Ids /\ who[h] \in Jids /\ row[h] \in Persons /\ doing[h] \in Jids
          /\ step[h] = "upsert"
        BY <1>4 DEF UpsertContact, HandlersShape, HandlerShape, ContactSteps
    <2>2. /\ Moves(h) /\ step'[h] = "phone" /\ UNCHANGED <<doing, who, row>>
        BY <1>4 DEF UpsertContact, GoTo, Moves, HandlersShape, MailSteps, ContactSteps
    <2>3. rows'[who[h]] # None
        BY <1>4, <2>1, IdsApart DEF UpsertContact, RowsShape
    <2>4. HandlerShape(h)'
        BY <2>1, <2>2, <2>3 DEF HandlerShape, MailSteps, ContactSteps
    <2>5. /\ \A c \in Contacts : who[h] = LidId(c) => c \in unbridged
          /\ \A s \in Senders : who[h] # MailId(s)
        BY <2>1, IdsApart DEF LidsUnbridged
    <2>6. QED
        BY <1>4, <2>1, <2>2, <2>4, <2>5, WriteKeeps DEF UpsertContact, historyVars
<1>5. CASE UpsertFails(h)
    <2>1. RowsShape'
        BY <1>5 DEF UpsertFails, RowsShape, storeVars, historyVars
    <2>2. QED
        BY <1>5, <2>1, FinishKeeps DEF UpsertFails, Watches, storeVars, historyVars
<1>6. CASE LinkPhone(h)
    <2>1. doing[h] \in Jids /\ who[h] \in Jids /\ rows[who[h]] # None /\ step[h] = "phone"
        BY <1>6 DEF LinkPhone, HandlersShape, HandlerShape, ContactSteps
    <2>2. RowsShape'
        BY <1>6, <2>1 DEF LinkPhone, RowsShape, historyVars
    <2>3. QED
        BY <1>6, <2>1, <2>2, FinishKeeps DEF LinkPhone, Watches, historyVars
<1>7. ASSUME NEW id \in Ids, ConfirmReads(h, id) PROVE ContactsInv'
    <2>1. rows[id] \in Persons /\ rows[id] # None
        BY <1>7 DEF ConfirmReads, RowsShape
    <2>2. QED
        BY <1>7, <2>1, StartKeeps DEF ConfirmReads
<1>8. CASE ConfirmWrites(h)
    <2>1. who[h] \in Ids /\ row[h] \in Persons /\ rows[who[h]] # None /\ step[h] = "confirm"
        BY <1>8 DEF ConfirmWrites, HandlersShape, HandlerShape
    <2>2. PICK company \in Companies : rows' = [rows EXCEPT ![who[h]] = [row[h] EXCEPT !.company = company]]
        BY <1>8 DEF ConfirmWrites
    <2>3. [row[h] EXCEPT !.company = company] \in Persons
        BY <2>1 DEF Persons
    <2>4. Moves(h) /\ step'[h] = "idle" /\ who'[h] = None
        BY <1>8 DEF ConfirmWrites, Finish, GoTo, Moves, HandlersShape
    <2>5. HandlerShape(h)'
        BY <2>4 DEF HandlerShape, MailSteps, ContactSteps
    <2>6. \A c \in Contacts : who[h] = LidId(c) => c \in unbridged
        BY <2>1 DEF LidsUnbridged
    <2>7. QED
        BY <1>8, <2>1, <2>2, <2>3, <2>4, <2>5, <2>6, WriteKeeps DEF ConfirmWrites
<1>9. QED
    BY <1>1, <1>2, <1>3, <1>4, <1>5, <1>6, <1>7, <1>8 DEF ContactStep, OperatorStep

(* Whoever is composed to is of no company, and so nobody's twin.            *)
LEMMA ComposeKeeps ==
    ASSUME ContactsInv, NEW s \in Senders, Compose(s)
    PROVE  ContactsInv'
<1> USE DEF ContactsInv
<1> DEFINE id == MailId(s)
<1>1. PICK record \in Persons : /\ record.company = None /\ record # None
                                /\ rows' = [rows EXCEPT ![id] = record]
    <2>1. PICK n \in TypedNames : rows' = [rows EXCEPT ![id] = [name |-> n, company |-> None]]
        BY DEF Compose
    <2>2. [name |-> n, company |-> None] \in Persons
        BY DEF Persons, Names
    <2>3. QED
        BY <2>1, <2>2, IdsApart
<1>2. /\ UNCHANGED <<emails, phones, mapped, step, doing, who, row, reported, historyVars>>
      /\ taken' \in 0 .. MaxEvents /\ id \in Ids /\ \A c \in Contacts : id # LidId(c)
    BY EventsAssumption, IdsApart DEF Compose, HandlersShape
<1> HIDE DEF id
<1>3. /\ rows' \in [Ids -> Persons \cup {None}] /\ rows'[id] = record
      /\ \A i \in Ids : i # id => rows'[i] = rows[i]
      /\ \A i \in Ids : rows[i] # None => rows'[i] # None
    BY <1>1, <1>2 DEF RowsShape
<1>4. RowsShape'
    BY <1>2, <1>3, IdsApart DEF RowsShape, historyVars
<1>5. HandlersShape'
    <2>1. ASSUME NEW h \in Handlers PROVE HandlerShape(h)'
        BY <1>2, <1>3 DEF HandlersShape, HandlerShape, MailSteps, ContactSteps
    <2>2. QED
        BY <1>2, <2>1 DEF HandlersShape
<1>6. LidsUnbridged'
    <2>1. \A c \in Contacts : LidId(c) \in Ids
        BY IdsApart DEF Jids
    <2>2. QED
        BY <1>2, <1>3, <2>1 DEF LidsUnbridged, historyVars
<1>7. TwinsWatched'
    <2> SUFFICES ASSUME NEW t \in Senders, NEW u \in Senders,
                        Twins(MailId(t), MailId(u))', {MailId(t), MailId(u)} \cap excused' = {}
                 PROVE  \/ Reported(MailId(t), MailId(u))'
                        \/ \E g \in Handlers : Watches(g, MailId(t))' \/ Watches(g, MailId(u))'
        BY DEF TwinsWatched, MailId
    <2>1. id # MailId(t) /\ id # MailId(u)
        BY <1>1, <1>3 DEF Twins
    <2>2. Twins(MailId(t), MailId(u)) /\ {MailId(t), MailId(u)} \cap excused = {}
        BY <1>2, <1>3, <2>1, IdsApart DEF Twins, historyVars
    <2>3. \A g \in Handlers : /\ Watches(g, MailId(t)) => Watches(g, MailId(t))'
                              /\ Watches(g, MailId(u)) => Watches(g, MailId(u))'
        BY <1>2, <1>3, <2>1, IdsApart DEF Watches
    <2>4. QED
        BY <1>2, <2>2, <2>3 DEF TwinsWatched, Reported
<1>8. QED
    BY <1>4, <1>5, <1>6, <1>7

(* A restart excuses whoever somebody was writing or about to look for.      *)
LEMMA RestartKeeps ==
    ASSUME ContactsInv, Restart
    PROVE  ContactsInv'
<1> USE DEF ContactsInv
<1>1. /\ UNCHANGED <<taken, storeVars, mapped, reported, unbridged>>
      /\ excused' = excused \cup {who[h] : h \in {g \in Handlers : step[g] # "idle"}}
      /\ step' = [h \in Handlers |-> "idle"] /\ who' = [h \in Handlers |-> None]
      /\ DOMAIN doing' = Handlers /\ DOMAIN row' = Handlers
    BY DEF Restart
<1>2. RowsShape'
    <2>1. \A g \in Handlers : step[g] # "idle" => who[g] \in Ids
        BY DEF HandlersShape, HandlerShape
    <2>2. excused' \subseteq Ids
        BY <1>1, <2>1 DEF RowsShape
    <2>3. QED
        BY <1>1, <2>2 DEF RowsShape, storeVars
<1>3. HandlersShape'
    BY <1>1 DEF HandlersShape, HandlerShape, MailSteps, ContactSteps
<1>4. LidsUnbridged'
    BY <1>1 DEF LidsUnbridged, storeVars
<1>5. \A h \in Handlers, s \in Senders : Watches(h, MailId(s)) => MailId(s) \in excused'
    BY <1>1 DEF Watches
<1>6. TwinsWatched'
    BY <1>1, <1>5, WatchKept DEF storeVars
<1>7. QED
    BY <1>2, <1>3, <1>4, <1>6

LEMMA ContactsInductive == ContactsInv /\ [Next]_vars => ContactsInv'
<1> SUFFICES ASSUME ContactsInv, [Next]_vars PROVE ContactsInv'
    OBVIOUS
<1>1. CASE (\E c \in Contacts : Learn(c)) \/ UNCHANGED vars
    <2>1. UNCHANGED <<storeVars, handlerVars, reported, historyVars>> /\ mapped' \subseteq mapped \cup Contacts
        BY <1>1 DEF Learn, vars
    <2>2. RowsShape'
        BY <2>1 DEF ContactsInv, RowsShape, storeVars, historyVars
    <2>3. HandlersShape' /\ LidsUnbridged'
        BY <2>1 DEF ContactsInv, HandlersShape, HandlerShape, LidsUnbridged, storeVars, handlerVars, historyVars
    <2>4. TwinsWatched'
        BY <2>1, WatchKept DEF Watches, storeVars, handlerVars, historyVars
    <2>5. QED
        BY <2>2, <2>3, <2>4 DEF ContactsInv
<1>2. QED
    BY <1>1, MailKeeps, ContactKeeps, ComposeKeeps, RestartKeeps DEF Next

LEMMA ContactsInvHolds == Spec => []ContactsInv
BY ContactsStart, ContactsInductive, PTL DEF Spec

(* Whoever owns an address or a number is a person with a row, for any       *)
(* number of mails, messages and confirmations at once (plugin/broker.rs,    *)
(* whatsapp_ingest.rs).                                                      *)
THEOREM ContactsTypeCorrect == Spec => []TypeOK
<1>1. ContactsInv => TypeOK
    <2> SUFFICES ASSUME ContactsInv PROVE TypeOK
        OBVIOUS
    <2>1. \A h \in Handlers : step[h] = "idle" <=> who[h] = None
        BY IdsApart DEF ContactsInv, HandlersShape, HandlerShape
    <2>2. QED
        BY <2>1 DEF ContactsInv, RowsShape, HandlersShape, MailSteps, ContactSteps, TypeOK
<1>2. QED
    BY <1>1, ContactsInvHolds, PTL

(* Two rows are left for one human only with a reason, however mails,        *)
(* messages and confirmations interleave (duplicate.rs, whatsapp_ingest.rs); *)
(* of a company with more than 200 persons the code compares the newest 200  *)
(* only, which Contacts leaves out.                                          *)
THEOREM TwinsAreReported == Spec => []NoSilentTwins
<1>1. ContactsInv => NoSilentTwins
    <2> SUFFICES ASSUME ContactsInv PROVE NoSilentTwins
        OBVIOUS
    <2>1. \A h \in Handlers, s \in Senders : AtRest(MailId(s)) => ~Watches(h, MailId(s))
        BY DEF AtRest, Watches
    <2>2. QED
        BY <2>1 DEF ContactsInv, LidsUnbridged, TwinsWatched, NoSilentTwins, Reported
<1>2. QED
    BY <1>1, ContactsInvHolds, PTL

===============================================================================
