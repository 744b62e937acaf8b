-------------------------- MODULE ReadThroughCache --------------------------
(***************************************************************************)
(* The three per-tenant caches in front of sqlite: MarketingStateCache     *)
(* (the pause switch), RulesCache (spam filter) and ScoringConfigCache.    *)
(* They are one algorithm.  A read returns the cached entry, or loads it   *)
(* from the store and inserts it; a write changes the store and then drops *)
(* the entry.  The map's RwLock is held for one map operation at a time,   *)
(* so loads and writes interleave at every await.                          *)
(*                                                                         *)
(* An entry is loaded by one statement per part: one for the pause switch  *)
(* and the scoring config, two (config, then rules) for the spam filter.   *)
(* A part is represented by how often it has been written.                 *)
(***************************************************************************)
EXTENDS Naturals, Sequences

CONSTANTS Readers,    \* slots for the reads that missed
          Writers,    \* slots for the admin writes in flight
          Load,       \* the parts of an entry, in the order they are read
          MaxWrites,  \* bound on the writes of one part
          MayAbort    \* whether a write may stop before it invalidates

ASSUME MaxWritesAssumption == MaxWrites \in Nat
ASSUME MayAbortAssumption == MayAbort \in BOOLEAN
ASSUME LoadAssumption == Len(Load) \in Nat

Steps == 1 .. Len(Load)
Entries == [Steps -> Nat]
NoEntry == <<"no entry">>

VARIABLES
    stored,   \* the parts in sqlite, by their position in Load
    cached,   \* the tenant's entry in the map
    read,     \* how many parts each reader has read; Len(Load) + 1 when idle
    got,      \* what it has read of them
    writing,  \* the part a writer has written and not invalidated yet; 0 if none
    raced     \* history: since the process started, an invalidation missed a
              \* load under way, or never came

cacheVars == <<stored, cached, read, got, writing, raced>>

Idle == Len(Load) + 1
Nothing == [i \in Steps |-> 0]

CacheInit ==
    /\ stored = Nothing
    /\ cached = NoEntry
    /\ read = [r \in Readers |-> Idle]
    /\ got = [r \in Readers |-> Nothing]
    /\ writing = [w \in Writers |-> 0]
    /\ raced = FALSE

Outdated(r) == \E i \in Steps : i <= read[r] /\ read[r] # Idle /\ got[r][i] # stored[i]

------------------------------------------------------------------------------
(* get / get_or_load.  A hit changes nothing.                              *)

Forget(r) ==
    /\ read' = [read EXCEPT ![r] = Idle]
    /\ got' = [got EXCEPT ![r] = Nothing]

Miss(r) ==
    /\ read[r] = Idle
    /\ cached = NoEntry
    /\ read' = [read EXCEPT ![r] = 0]
    /\ UNCHANGED <<stored, cached, got, writing, raced>>

LoadPart(r) ==
    /\ read[r] < Len(Load)
    /\ LET i == read[r] + 1 IN
          /\ read' = [read EXCEPT ![r] = i]
          /\ got' = [got EXCEPT ![r][i] = stored[i]]
    /\ UNCHANGED <<stored, cached, writing, raced>>

\* Whatever the entry is by now.
Insert(r) ==
    /\ read[r] = Len(Load)
    /\ cached' = got[r]
    /\ Forget(r)
    /\ UNCHANGED <<stored, writing, raced>>

\* Mutant: the default a store error is answered with is cached.
BugLoadEnds(r) ==
    /\ read[r] # Idle
    /\ cached' = <<"default">>
    /\ Forget(r)
    /\ UNCHANGED <<stored, writing, raced>>

\* A store error serves the default and caches nothing; a dropped request
\* serves nobody.
LoadEnds(r) ==
    /\ read[r] # Idle
    /\ Forget(r)
    /\ UNCHANGED <<stored, cached, writing, raced>>

------------------------------------------------------------------------------
(* The admin handlers that write a part, and the broker's unsubscribe path *)
(* (a SenderBlock rule).  Those that load the entry first, for the audit   *)
(* row, do it as a reader.                                                 *)

Put(w, i) ==
    /\ writing[w] = 0
    /\ stored[i] < MaxWrites
    /\ stored' = [stored EXCEPT ![i] = @ + 1]
    /\ writing' = [writing EXCEPT ![w] = i]
    /\ UNCHANGED <<cached, read, got, raced>>

\* Mutant: the write leaves the entry in the map.
BugInvalidate(w) ==
    /\ writing[w] # 0
    /\ writing' = [writing EXCEPT ![w] = 0]
    /\ raced' = (raced \/ \E r \in Readers : Outdated(r))
    /\ UNCHANGED <<stored, cached, read, got>>

Invalidate(w) ==
    /\ writing[w] # 0
    /\ cached' = NoEntry
    /\ writing' = [writing EXCEPT ![w] = 0]
    /\ raced' = (raced \/ \E r \in Readers : Outdated(r))
    /\ UNCHANGED <<stored, read, got>>

\* The request is dropped between the two.
CutShort(w) ==
    /\ MayAbort
    /\ writing[w] # 0
    /\ writing' = [writing EXCEPT ![w] = 0]
    /\ raced' = TRUE
    /\ UNCHANGED <<stored, cached, read, got>>

CacheRestart ==
    /\ cached' = NoEntry
    /\ read' = [r \in Readers |-> Idle]
    /\ got' = [r \in Readers |-> Nothing]
    /\ writing' = [w \in Writers |-> 0]
    /\ raced' = FALSE
    /\ UNCHANGED stored

CacheNext ==
    \/ \E r \in Readers : Miss(r) \/ LoadPart(r) \/ Insert(r) \/ LoadEnds(r)
    \/ \E w \in Writers : (\E i \in Steps : Put(w, i)) \/ Invalidate(w) \/ CutShort(w)
    \/ CacheRestart

CacheSpec == CacheInit /\ [][CacheNext]_cacheVars

------------------------------------------------------------------------------
(* Type invariant of the store, the map and the requests.                  *)
CacheTypeOK ==
    /\ stored \in Entries
    /\ cached \in Entries \cup {NoEntry}
    /\ read \in [Readers -> 0 .. Idle]
    /\ got \in [Readers -> Entries]
    /\ writing \in [Writers -> 0 .. Len(Load)]
    /\ raced \in BOOLEAN

(* A cached part that is not what the store holds has a writer of that     *)
(* part about to invalidate it, unless an earlier invalidation was missed  *)
(* by a load under way or was cut short: writers that overlap each other   *)
(* leave the cache as fresh as the handlers say.                           *)
FreshUnlessRaced ==
    cached # NoEntry /\ ~ raced =>
        \A i \in Steps : cached[i] = stored[i] \/ \E w \in Writers : writing[w] = i

==============================================================================
