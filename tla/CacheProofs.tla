----------------------------- MODULE CacheProofs ------------------------------
(* Theorems about what the plugin caches: ReadThroughCache for any number of *)
(* readers, writers, parts of an entry and writes; and Enrichment for any  *)
(* number of mails, domains, confirmations and permits.                    *)
EXTENDS ReadThroughCache, Enrichment, TLAPS

(* What a reader holds is either still what the store has, or has a writer *)
(* about to invalidate it, or was overtaken.                               *)
LoadsFreshUnlessRaced ==
    ~ raced => \A r \in Readers : \A i \in Steps :
        read[r] # Idle /\ i <= read[r] =>
            got[r][i] = stored[i] \/ \E w \in Writers : writing[w] = i

CacheInv == CacheTypeOK /\ LoadsFreshUnlessRaced /\ FreshUnlessRaced

LEMMA Blank == /\ Nothing \in Entries
               /\ Idle \in 0 .. Idle
               /\ 0 \in 0 .. Len(Load)
<1>1. Nothing \in Entries
    BY DEF Nothing, Entries
<1>2. QED
    BY <1>1, LoadAssumption DEF Idle

LEMMA CInitInv == CacheInit => CacheInv
<1> SUFFICES ASSUME CacheInit PROVE CacheInv
    OBVIOUS
<1>1. CacheTypeOK
    BY Blank DEF CacheInit, CacheTypeOK
<1>2. LoadsFreshUnlessRaced
    BY DEF CacheInit, LoadsFreshUnlessRaced
<1>3. FreshUnlessRaced
    BY DEF CacheInit, FreshUnlessRaced
<1>4. QED
    BY <1>1, <1>2, <1>3 DEF CacheInv

LEMMA ReaderInv ==
    ASSUME CacheInv, NEW r \in Readers,
           Miss(r) \/ LoadPart(r) \/ Insert(r) \/ LoadEnds(r)
    PROVE  CacheInv'
<1> USE LoadAssumption DEF CacheInv, CacheTypeOK, Entries, Steps, Nothing, Idle
<1>1. CASE Miss(r)
    BY <1>1 DEF Miss, LoadsFreshUnlessRaced, FreshUnlessRaced
<1>2. CASE LoadPart(r)
    <2>1. CacheTypeOK'
        BY <1>2 DEF LoadPart
    <2>2. LoadsFreshUnlessRaced'
        <3> DEFINE k == read[r] + 1
        <3>1. /\ k \in Steps /\ k # Idle /\ read'[r] = k
              /\ \A q \in Readers : q # r => read'[q] = read[q] /\ got'[q] = got[q]
              /\ \A i \in Steps : got'[r][i] = IF i = k THEN stored[i] ELSE got[r][i]
            BY <1>2 DEF LoadPart
        <3>2. ASSUME NEW i \in Steps, i <= k, ~ raced
              PROVE  got'[r][i] = stored[i] \/ \E w \in Writers : writing[w] = i
            <4>1. CASE i = k
                BY <3>1, <4>1
            <4>2. CASE i # k
                <5>1. read[r] # Idle /\ i <= read[r]
                    BY <1>2, <3>2, <4>2 DEF LoadPart
                <5> QED
                    BY <3>1, <3>2, <4>2, <5>1 DEF LoadsFreshUnlessRaced
            <4> QED
                BY <4>1, <4>2
        <3>3. UNCHANGED <<stored, writing, raced>>
            BY <1>2 DEF LoadPart
        <3> QED
            BY <3>1, <3>2, <3>3 DEF LoadsFreshUnlessRaced
    <2>3. FreshUnlessRaced'
        BY <1>2 DEF LoadPart, FreshUnlessRaced
    <2>4. QED
        BY <2>1, <2>2, <2>3
<1>3. CASE Insert(r)
    <2>1. CacheTypeOK'
        BY <1>3 DEF Insert, Forget
    <2>2. LoadsFreshUnlessRaced'
        BY <1>3 DEF Insert, Forget, LoadsFreshUnlessRaced
    <2>3. FreshUnlessRaced'
        BY <1>3 DEF Insert, LoadsFreshUnlessRaced, FreshUnlessRaced
    <2>4. QED
        BY <2>1, <2>2, <2>3
<1>4. CASE LoadEnds(r)
    BY <1>4 DEF LoadEnds, Forget, LoadsFreshUnlessRaced, FreshUnlessRaced
<1>5. QED
    BY <1>1, <1>2, <1>3, <1>4

(* A write makes only its own part outdated, and says so until it has      *)
(* invalidated.                                                            *)
LEMMA WriterInv ==
    ASSUME CacheInv, NEW w \in Writers,
           (\E i \in Steps : Put(w, i)) \/ Invalidate(w) \/ CutShort(w)
    PROVE  CacheInv'
<1> USE LoadAssumption DEF CacheInv, CacheTypeOK, Entries, Steps, Nothing, Idle
<1>1. ASSUME NEW i \in Steps, Put(w, i) PROVE CacheInv'
    <2>1. CacheTypeOK'
        BY <1>1 DEF Put
    <2>2. \A j \in Steps : /\ j # i => stored'[j] = stored[j]
                           /\ \A v \in Writers : writing[v] = j => writing'[v] = j
        BY <1>1 DEF Put
    <2>3. writing'[w] = i
        BY <1>1 DEF Put
    <2>4. LoadsFreshUnlessRaced'
        <3>1. /\ UNCHANGED <<read, got, raced>>
              /\ writing' \in [Writers -> 0 .. Len(Load)]
            BY <1>1 DEF Put
        <3>2. QED
            BY <2>2, <2>3, <3>1 DEF LoadsFreshUnlessRaced
    <2>5. FreshUnlessRaced'
        <3>1. UNCHANGED <<cached, raced>>
            BY <1>1 DEF Put
        <3>2. QED
            BY <2>2, <2>3, <3>1 DEF FreshUnlessRaced
    <2>6. QED
        BY <2>1, <2>4, <2>5
<1>2. CASE Invalidate(w)
    <2>1. CacheTypeOK' /\ FreshUnlessRaced'
        BY <1>2 DEF Invalidate, FreshUnlessRaced
    <2>2. LoadsFreshUnlessRaced'
        BY <1>2 DEF Invalidate, LoadsFreshUnlessRaced, Outdated
    <2>3. QED
        BY <2>1, <2>2
<1>3. CASE CutShort(w)
    BY <1>3 DEF CutShort, LoadsFreshUnlessRaced, FreshUnlessRaced
<1>4. QED
    BY <1>1, <1>2, <1>3

LEMMA CacheInvHolds == CacheSpec => []CacheInv
<1>1. CacheInv /\ CacheRestart => CacheInv'
    <2> SUFFICES ASSUME CacheInv, CacheRestart PROVE CacheInv'
        OBVIOUS
    <2>1. CacheTypeOK'
        BY Blank DEF CacheInv, CacheTypeOK, CacheRestart
    <2>2. LoadsFreshUnlessRaced'
        BY DEF CacheRestart, LoadsFreshUnlessRaced
    <2>3. FreshUnlessRaced'
        BY DEF CacheRestart, FreshUnlessRaced
    <2>4. QED
        BY <2>1, <2>2, <2>3 DEF CacheInv
<1>2. CacheInv /\ UNCHANGED cacheVars => CacheInv'
    BY DEF CacheInv, CacheTypeOK, LoadsFreshUnlessRaced, FreshUnlessRaced, cacheVars
<1>3. CacheInv /\ [CacheNext]_cacheVars => CacheInv'
    BY <1>1, <1>2, ReaderInv, WriterInv DEF CacheNext
<1>4. QED
    BY CInitInv, <1>3, PTL DEF CacheSpec

------------------------------------------------------------------------------
(* Type correctness of store, map, readers and writers.                    *)
THEOREM CacheTypeCorrect == CacheSpec => []CacheTypeOK
    BY CacheInvHolds, PTL DEF CacheInv

(* No stale entry without a missed or missing invalidation.                *)
THEOREM CacheFresh == CacheSpec => []FreshUnlessRaced
    BY CacheInvHolds, PTL DEF CacheInv

------------------------------------------------------------------------------
(* Enrichment.                                                             *)
(* Where the rows of a domain come from, and that they stay: what has been *)
(* cached as a company, or reported by a scrape, is there.                 *)
RowsInv ==
    /\ \A d \in Domains : rows[d] \subseteq {d} \cup Confirms
    /\ \A d \in Domains : cache[d] = "company" => rows[d] # {}
    /\ \A m \in Mails : landed[m] => Domain[m] \in rows[Domain[m]]
    /\ \A m \in Mails : task[m] = "cache" => landed[m]
    /\ \A c \in Confirms : chosen[c] \in {c} \cup rows[Domain[c]]

(* A mail that read a company in the cache finds it, and goes no other way. *)
HitInv(m) ==
    hit[m] = "company" =>
        /\ rows[Domain[m]] # {}
        /\ task[m] = "none"
        /\ step[m] \in {"find", "done"}
        /\ step[m] = "done" /\ ~ erred[m] => link[m] # NoCompany

(* The hit is read once, and a scrape belongs to a mail that waited for it. *)
NewInv(m) == step[m] = "new" => task[m] = "none" /\ hit[m] = "none"

EnrichmentInv ==
    /\ TypeOK
    /\ RowsInv
    /\ \A m \in Mails : HitInv(m) /\ NewInv(m)
    /\ LinksHold

------------------------------------------------------------------------------

LEMMA InitInv == Init => EnrichmentInv
BY DomainAssumption, IdsAssumption
DEF Init, EnrichmentInv, TypeOK, RowsInv, HitInv, NewInv, LinksHold, Ids

(* Type correctness is kept by each step, given that rows and links only   *)
(* name known ids.                                                         *)
LEMMA TypeStep == TypeOK /\ [Next]_vars => TypeOK'
<1>1. SUFFICES ASSUME TypeOK, [Next]_vars PROVE TypeOK'
  OBVIOUS
<1>a. Domains \subseteq Ids /\ Confirms \subseteq Ids
  BY DEF Ids
<1>b. /\ \A m \in Mails : Domain[m] \in Domains
      /\ \A c \in Confirms : Domain[c] \in Domains
  BY DomainAssumption
<1> USE <1>a, <1>b DEF GoTo, Link, Spawn, TaskGoes, CompanyId,
        mailVars, taskVars, confirmVars
<1>2. ASSUME NEW m \in Mails, CacheHit(m) \/ CacheMiss(m) \/ StatementFails(m)
      PROVE TypeOK'
  <2>1. CASE CacheHit(m) BY <1>1, <2>1 DEF CacheHit, TypeOK
  <2>2. CASE CacheMiss(m) BY <1>1, <2>2 DEF CacheMiss, TypeOK
  <2>3. CASE StatementFails(m) BY <1>1, <2>3 DEF StatementFails, TypeOK
  <2> QED BY <1>2, <2>1, <2>2, <2>3
<1>3. ASSUME NEW m \in Mails, MailStep(m) PROVE TypeOK'
  <2>1. CASE FindCompany(m)
    <3>1. PICK id \in rows[Domain[m]] : Link(m, id)
      BY <2>1 DEF FindCompany
    <3>2. id \in Ids
      BY <1>1, <3>1 DEF TypeOK
    <3> QED BY <1>1, <2>1, <3>1, <3>2 DEF FindCompany, TypeOK
  <2>2. CASE ForgetEntry(m) BY <1>1, <2>2 DEF ForgetEntry, TypeOK
  <2>3. CASE ScrapeAgain(m)
    <3>1. cache' \in [Domains -> {"none", "company", "failed"}]
      BY <1>1, <2>3 DEF ScrapeAgain, TypeOK
    <3> QED BY <1>1, <2>3, <3>1 DEF ScrapeAgain, TypeOK
  <2>4. CASE Joined(m) BY <1>1, <2>4 DEF Joined, TypeOK
  <2>5. CASE Timeout(m) BY <1>1, <2>5 DEF Timeout, TypeOK
  <2> QED BY <1>3, <2>1, <2>2, <2>3, <2>4, <2>5 DEF MailStep
<1>4. ASSUME NEW m \in Mails, TaskStep(m) PROVE TypeOK'
  <2>1. CASE StartFetch(m) BY <1>1, <2>1 DEF StartFetch, TypeOK
  <2>2. CASE EndFetch(m) BY <1>1, <2>2 DEF EndFetch, TypeOK
  <2>3. CASE UpsertCompany(m)
    <3>1. rows[Domain[m]] \cup {Domain[m]} \subseteq Ids
      BY <1>1 DEF TypeOK
    <3>2. CASE /\ rows' = [rows EXCEPT ![Domain[m]] = @ \cup {Domain[m]}]
               /\ landed' = [landed EXCEPT ![m] = TRUE]
      BY <1>1, <2>3, <3>1, <3>2 DEF UpsertCompany, TypeOK
    <3>3. CASE UNCHANGED <<rows, landed>>
      BY <1>1, <2>3, <3>3 DEF UpsertCompany, TypeOK
    <3> QED BY <2>3, <3>2, <3>3 DEF UpsertCompany
  <2>4. CASE PutEntry(m) BY <1>1, <2>4 DEF PutEntry, TypeOK
  <2> QED BY <1>4, <2>1, <2>2, <2>3, <2>4 DEF TaskStep
<1>5. ASSUME NEW c \in Confirms, ConfirmFind(c) \/ ConfirmWrite(c) PROVE TypeOK'
  <2>1. CASE ConfirmFind(c)
    <3>1. PICK id \in IF rows[Domain[c]] = {} THEN {c} ELSE rows[Domain[c]] :
              chosen' = [chosen EXCEPT ![c] = id]
      BY <2>1 DEF ConfirmFind
    <3>2. id \in Ids
      BY <1>1, <3>1 DEF TypeOK
    <3> QED BY <1>1, <2>1, <3>1, <3>2 DEF ConfirmFind, TypeOK
  <2>2. CASE ConfirmWrite(c)
    <3>1. rows[Domain[c]] \subseteq Ids /\ chosen[c] \in Ids
      BY <1>1 DEF TypeOK
    <3>2. CASE rows' = [rows EXCEPT ![Domain[c]] = @ \cup {chosen[c]}]
      BY <1>1, <2>2, <3>1, <3>2 DEF ConfirmWrite, TypeOK
    <3>3. CASE UNCHANGED rows
      BY <1>1, <2>2, <3>3 DEF ConfirmWrite, TypeOK
    <3> QED BY <2>2, <3>2, <3>3 DEF ConfirmWrite
  <2> QED BY <1>5, <2>1, <2>2
<1>6. ASSUME NEW d \in Domains, Expire(d) PROVE TypeOK'
  BY <1>1, <1>6 DEF Expire, TypeOK
<1>7. CASE Restart BY <1>1, <1>7 DEF Restart, TypeOK
<1>8. CASE UNCHANGED vars BY <1>1, <1>8 DEF vars, TypeOK
<1> QED BY <1>1, <1>2, <1>3, <1>4, <1>5, <1>6, <1>7, <1>8 DEF Next

(* Rows are never taken back.                                              *)
LEMMA RowsGrow ==
    TypeOK /\ [Next]_vars => \A d \in Domains : rows[d] \subseteq rows'[d]
<1> SUFFICES ASSUME TypeOK, [Next]_vars, NEW d \in Domains
             PROVE  rows[d] \subseteq rows'[d]
  OBVIOUS
<1>0. /\ \A m \in Mails : Domain[m] \in Domains
      /\ \A c \in Confirms : Domain[c] \in Domains
  BY DomainAssumption
<1>1. ASSUME NEW m \in Mails, UpsertCompany(m) PROVE rows[d] \subseteq rows'[d]
  BY <1>0, <1>1 DEF UpsertCompany, TypeOK
<1>2. ASSUME NEW c \in Confirms, ConfirmWrite(c) PROVE rows[d] \subseteq rows'[d]
  BY <1>0, <1>2 DEF ConfirmWrite, TypeOK
<1>3. ASSUME NEW m \in Mails,
             CacheHit(m) \/ CacheMiss(m) \/ StatementFails(m) \/ MailStep(m)
      PROVE rows[d] \subseteq rows'[d]
  BY <1>3 DEF CacheHit, CacheMiss, StatementFails, MailStep, FindCompany, ForgetEntry,
     ScrapeAgain, Joined, Timeout
<1>4. ASSUME NEW m \in Mails, StartFetch(m) \/ EndFetch(m) \/ PutEntry(m)
      PROVE rows[d] \subseteq rows'[d]
  BY <1>4 DEF StartFetch, EndFetch, PutEntry
<1>5. ASSUME (\E c \in Confirms : ConfirmFind(c)) \/ (\E e \in Domains : Expire(e))
                \/ Restart
      PROVE rows[d] \subseteq rows'[d]
  BY <1>5 DEF ConfirmFind, Expire, Restart
<1>6. ASSUME NEW m \in Mails, TaskStep(m) PROVE rows[d] \subseteq rows'[d]
  BY <1>1, <1>4, <1>6 DEF TaskStep
<1>7. CASE UNCHANGED vars
  BY <1>7 DEF vars
<1> QED BY <1>2, <1>3, <1>5, <1>6, <1>7 DEF Next

(* A company is cached, and a scrape reports one, after its row is written. *)
LEMMA RowsStep ==
    ASSUME EnrichmentInv, [Next]_vars
    PROVE  RowsInv'
<1>0. TypeOK /\ RowsInv
  BY DEF EnrichmentInv
<1>t. /\ DOMAIN rows = Domains /\ DOMAIN task = Mails /\ DOMAIN landed = Mails
      /\ DOMAIN cache = Domains /\ DOMAIN chosen = Confirms
  BY <1>0 DEF TypeOK
<1>a. /\ \A m \in Mails : Domain[m] \in Domains
      /\ \A c \in Confirms : Domain[c] \in Domains
  BY DomainAssumption
<1> USE <1>0, <1>a, <1>t DEF GoTo, Link, Spawn, TaskGoes, CompanyId, mailVars, taskVars,
        confirmVars
<1>1. ASSUME UNCHANGED <<rows, chosen, landed>>,
             \A d \in Domains : cache'[d] = "company" => rows[d] # {},
             \A m \in Mails : task'[m] = "cache" => task[m] = "cache"
      PROVE RowsInv'
  BY <1>1 DEF RowsInv
<1>2. ASSUME NEW m \in Mails,
             CacheHit(m) \/ CacheMiss(m) \/ StatementFails(m) \/ MailStep(m)
      PROVE RowsInv'
  <2>1. UNCHANGED <<rows, chosen, landed>>
    BY <1>2 DEF CacheHit, CacheMiss, StatementFails, MailStep, FindCompany,
       ForgetEntry, ScrapeAgain, Joined, Timeout
  <2>2. \A d \in Domains : cache'[d] = "company" => cache[d] = "company"
    BY <1>2 DEF CacheHit, CacheMiss, StatementFails, MailStep, FindCompany,
       ForgetEntry, ScrapeAgain, Joined, Timeout
  <2>3. \A n \in Mails : task'[n] = "cache" => task[n] = "cache"
    <3>1. UNCHANGED task \/ task' = [task EXCEPT ![m] = "queued"]
      BY <1>2 DEF CacheHit, CacheMiss, StatementFails, MailStep, FindCompany,
         ForgetEntry, ScrapeAgain, Joined, Timeout
    <3> QED BY <3>1
  <2> QED BY <1>1, <2>1, <2>2, <2>3 DEF RowsInv
<1>3. ASSUME NEW m \in Mails, TaskStep(m) PROVE RowsInv'
  <2>1. CASE StartFetch(m) BY <1>1, <2>1 DEF StartFetch, RowsInv
  <2>2. CASE EndFetch(m)
    <3>1. \A n \in Mails : task'[n] = "cache" => task[n] = "cache"
      BY <2>2 DEF EndFetch
    <3> QED BY <1>1, <2>2, <3>1 DEF EndFetch, RowsInv
  <2>3. CASE UpsertCompany(m)
    <3>1. CASE /\ TaskGoes(m, "cache")
               /\ rows' = [rows EXCEPT ![Domain[m]] = @ \cup {CompanyId(m)}]
               /\ landed' = [landed EXCEPT ![m] = TRUE]
      <4>1. \A d \in Domains : rows'[d] = rows[d] \cup (IF d = Domain[m] THEN {d} ELSE {})
        BY <3>1
      <4>2. \A d \in Domains : rows'[d] \subseteq {d} \cup Confirms
        BY <4>1 DEF RowsInv
      <4>3. \A d \in Domains : cache'[d] = "company" => rows'[d] # {}
        BY <2>3, <4>1 DEF UpsertCompany, RowsInv
      <4>4. \A n \in Mails : landed'[n] => Domain[n] \in rows'[Domain[n]]
        BY <3>1, <4>1 DEF RowsInv
      <4>5. \A n \in Mails : task'[n] = "cache" => landed'[n]
        BY <3>1 DEF RowsInv
      <4>6. \A c \in Confirms : chosen'[c] \in {c} \cup rows'[Domain[c]]
        BY <2>3, <4>1 DEF UpsertCompany, RowsInv
      <4> QED BY ONLY <4>2, <4>3, <4>4, <4>5, <4>6 DEF RowsInv
    <3>2. CASE TaskGoes(m, "over") /\ UNCHANGED <<rows, landed>>
      BY <1>1, <2>3, <3>2 DEF UpsertCompany, RowsInv
    <3> QED BY <2>3, <3>1, <3>2 DEF UpsertCompany
  <2>4. CASE PutEntry(m)
    <3>1. \A d \in Domains : cache'[d] = "company" => rows[d] # {}
      BY <2>4 DEF PutEntry, RowsInv
    <3> QED BY <1>1, <2>4, <3>1 DEF PutEntry
  <2> QED BY <1>3, <2>1, <2>2, <2>3, <2>4 DEF TaskStep
<1>4. ASSUME NEW c \in Confirms, ConfirmFind(c) PROVE RowsInv'
  <2>1. \A e \in Confirms : chosen'[e] \in {e} \cup rows[Domain[e]]
    <3>1. PICK id \in IF rows[Domain[c]] = {} THEN {c} ELSE rows[Domain[c]] :
              chosen' = [chosen EXCEPT ![c] = id]
      BY <1>4 DEF ConfirmFind
    <3> QED BY <3>1 DEF RowsInv
  <2> QED BY <1>4, <2>1 DEF ConfirmFind, RowsInv
<1>5. ASSUME NEW c \in Confirms, ConfirmWrite(c) PROVE RowsInv'
  <2>1. CASE rows' = [rows EXCEPT ![Domain[c]] = @ \cup {chosen[c]}]
    <3>1. \A d \in Domains :
              rows'[d] = rows[d] \cup (IF d = Domain[c] THEN {chosen[c]} ELSE {})
      BY <2>1
    <3>2. \A d \in Domains : rows'[d] \subseteq {d} \cup Confirms
      BY <3>1 DEF RowsInv
    <3> QED BY <1>5, <3>1, <3>2 DEF ConfirmWrite, RowsInv
  <2>2. CASE UNCHANGED rows
    BY <1>1, <1>5, <2>2 DEF ConfirmWrite, RowsInv
  <2> QED BY <1>5, <2>1, <2>2 DEF ConfirmWrite
<1>6. ASSUME NEW d \in Domains, Expire(d) PROVE RowsInv'
  BY <1>1, <1>6 DEF Expire, RowsInv
<1>7. CASE Restart
  BY <1>1, <1>7 DEF Restart, RowsInv
<1>8. CASE UNCHANGED vars
  BY <1>1, <1>8 DEF vars, RowsInv
<1> QED BY <1>2, <1>3, <1>4, <1>5, <1>6, <1>7, <1>8 DEF Next

(* The hits: a step that leaves a mail alone leaves its hit good, since     *)
(* rows stay; a step of the mail itself finds its row.                     *)
LEMMA HitsStep ==
    ASSUME EnrichmentInv, [Next]_vars
    PROVE  \A n \in Mails : HitInv(n)' /\ NewInv(n)'
<1>0. TypeOK /\ RowsInv /\ \A n \in Mails : HitInv(n) /\ NewInv(n)
  BY DEF EnrichmentInv
<1>t. /\ DOMAIN step = Mails /\ DOMAIN hit = Mails /\ DOMAIN link = Mails
      /\ DOMAIN erred = Mails /\ DOMAIN task = Mails
  BY <1>0 DEF TypeOK
<1>a. \A n \in Mails : Domain[n] \in Domains
  BY DomainAssumption
<1>g. \A n \in Mails : rows[Domain[n]] # {} => rows'[Domain[n]] # {}
  BY <1>0, <1>a, RowsGrow
<1>i. \A n \in Mails : \A id \in rows[Domain[n]] : id # NoCompany
  BY <1>0, <1>a, IdsAssumption DEF TypeOK
<1>s. ASSUME NEW n \in Mails,
             UNCHANGED <<step[n], hit[n], link[n], erred[n], task[n]>>
      PROVE  HitInv(n)' /\ NewInv(n)'
  BY <1>0, <1>g, <1>s DEF HitInv, NewInv
<1> USE <1>t, <1>a DEF GoTo, Link, Spawn, TaskGoes, mailVars, taskVars, confirmVars
<1>1. ASSUME NEW m \in Mails,
             CacheHit(m) \/ CacheMiss(m) \/ StatementFails(m)
                \/ MailStep(m) \/ TaskStep(m),
             NEW n \in Mails
      PROVE  HitInv(n)' /\ NewInv(n)'
  <2>0. HitInv(m) /\ NewInv(m)
    BY <1>0
  <2>1. CASE n # m
    <3>1. UNCHANGED <<step[n], hit[n], link[n], erred[n], task[n]>>
      BY <1>1, <2>1 DEF CacheHit, CacheMiss, StatementFails, MailStep, FindCompany,
         ForgetEntry, ScrapeAgain, Joined, Timeout, TaskStep, StartFetch, EndFetch,
         UpsertCompany, PutEntry
    <3> QED BY <1>s, <3>1
  <2>2. CASE n = m /\ CacheHit(m)
    <3>1. cache[Domain[m]] = "company" => rows[Domain[m]] # {}
      BY <1>0 DEF RowsInv
    <3> QED BY <1>g, <2>0, <2>2, <3>1 DEF CacheHit, HitInv, NewInv
  <2>3. CASE n = m /\ (CacheMiss(m) \/ StatementFails(m))
    BY <1>g, <2>0, <2>3 DEF CacheMiss, StatementFails, HitInv, NewInv
  <2>4. CASE n = m /\ FindCompany(m)
    BY <1>g, <1>i, <2>0, <2>4 DEF FindCompany, HitInv, NewInv
  <2>5. CASE n = m /\ (ForgetEntry(m) \/ ScrapeAgain(m) \/ Joined(m) \/ Timeout(m))
    BY <1>g, <2>0, <2>5 DEF ForgetEntry, ScrapeAgain, Joined, Timeout, HitInv, NewInv
  <2>6. CASE n = m /\ TaskStep(m)
    <3>1. task[m] # "none" /\ UNCHANGED <<step, hit>>
      BY <2>6 DEF TaskStep, StartFetch, EndFetch, UpsertCompany, PutEntry
    <3> QED BY <2>0, <2>6, <3>1 DEF HitInv, NewInv
  <2> QED BY <1>1, <2>1, <2>2, <2>3, <2>4, <2>5, <2>6 DEF MailStep
<1>2. ASSUME (\E c \in Confirms : ConfirmFind(c) \/ ConfirmWrite(c))
                \/ (\E d \in Domains : Expire(d)) \/ UNCHANGED vars,
             NEW n \in Mails
      PROVE  HitInv(n)' /\ NewInv(n)'
  <2>1. UNCHANGED <<step, hit, link, erred, task>>
    BY <1>2 DEF ConfirmFind, ConfirmWrite, Expire, vars
  <2> QED BY <1>s, <2>1
<1>3. ASSUME Restart, NEW n \in Mails PROVE HitInv(n)' /\ NewInv(n)'
  <2>1. /\ step'[n] = IF step[n] = "new" THEN "new" ELSE "done"
        /\ erred'[n] = (erred[n] \/ step[n] \notin {"new", "done"})
        /\ task'[n] = IF task[n] = "none" THEN "none" ELSE "over"
        /\ UNCHANGED <<hit, link>>
    BY <1>3 DEF Restart
  <2> QED BY <1>0, <1>g, <2>1 DEF HitInv, NewInv
<1> QED BY <1>1, <1>2, <1>3 DEF Next

(* Links are to rows, and rows stay.                                       *)
LEMMA LinksStep ==
    ASSUME EnrichmentInv, [Next]_vars
    PROVE  LinksHold'
<1>0. TypeOK /\ RowsInv /\ LinksHold
  BY DEF EnrichmentInv
<1>t. DOMAIN link = Mails
  BY <1>0 DEF TypeOK
<1>a. \A n \in Mails : Domain[n] \in Domains
  BY DomainAssumption
<1>g. \A n \in Mails : rows[Domain[n]] \subseteq rows'[Domain[n]]
  BY <1>0, <1>a, RowsGrow
<1>1. ASSUME NEW m \in Mails, NEW id, link' = [link EXCEPT ![m] = id],
             id \in rows[Domain[m]] \/ id = NoCompany
      PROVE  LinksHold'
  BY <1>0, <1>t, <1>g, <1>1 DEF LinksHold
<1>2. CASE UNCHANGED link
  BY <1>0, <1>g, <1>2 DEF LinksHold
<1>3. ASSUME NEW m \in Mails, FindCompany(m) PROVE LinksHold'
  BY <1>1, <1>3 DEF FindCompany, Link
<1>4. ASSUME NEW m \in Mails, Joined(m) PROVE LinksHold'
  BY <1>0, <1>1, <1>4 DEF Joined, Link, CompanyId, RowsInv
<1>5. ASSUME NEW m \in Mails, StatementFails(m) \/ Timeout(m) PROVE LinksHold'
  BY <1>1, <1>5 DEF StatementFails, Timeout, Link
<1>6. ASSUME NEW m \in Mails,
             CacheHit(m) \/ CacheMiss(m) \/ ForgetEntry(m) \/ ScrapeAgain(m)
                \/ TaskStep(m)
      PROVE  LinksHold'
  BY <1>2, <1>6 DEF CacheHit, CacheMiss, ForgetEntry, ScrapeAgain, TaskStep,
     StartFetch, EndFetch, UpsertCompany, PutEntry, mailVars
<1>7. ASSUME (\E c \in Confirms : ConfirmFind(c) \/ ConfirmWrite(c))
                \/ (\E d \in Domains : Expire(d)) \/ Restart \/ UNCHANGED vars
      PROVE  LinksHold'
  BY <1>2, <1>7 DEF ConfirmFind, ConfirmWrite, Expire, Restart, vars, mailVars
<1> QED BY <1>3, <1>4, <1>5, <1>6, <1>7 DEF Next, MailStep

THEOREM Invariance == Spec => []EnrichmentInv
<1>1. EnrichmentInv /\ [Next]_vars => EnrichmentInv'
  BY TypeStep, RowsStep, HitsStep, LinksStep DEF EnrichmentInv
<1> QED BY InitInv, <1>1, PTL DEF Spec

------------------------------------------------------------------------------

(* The mails, the scrapes, the rows and the cache keep their types.        *)
THEOREM EnrichmentTypeCorrect == Spec => []TypeOK
<1>1. EnrichmentInv => TypeOK
  BY DEF EnrichmentInv
<1> QED BY Invariance, <1>1, PTL

(* A cached company is linked without a scrape, whatever late scrapes,     *)
(* confirmations and restarts do meanwhile.                                *)
THEOREM CachedIsLinked == Spec => []KnownDomainsLink
<1>1. EnrichmentInv => KnownDomainsLink
  BY DEF EnrichmentInv, HitInv, KnownDomainsLink
<1> QED BY Invariance, <1>1, PTL

(* A mail is only linked to a stored company of its own domain.            *)
THEOREM LinksAreRows == Spec => []LinksHold
<1>1. EnrichmentInv => LinksHold
  BY DEF EnrichmentInv
<1> QED BY Invariance, <1>1, PTL

(* However many scrapes of a domain race, they write one row.              *)
THEOREM ScrapesCoalesce == Spec => []ScrapesShareARow
<1>1. EnrichmentInv => ScrapesShareARow
  BY DEF EnrichmentInv, RowsInv, ScrapesShareARow
<1> QED BY Invariance, <1>1, PTL

===============================================================================
