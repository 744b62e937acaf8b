--------------------------- MODULE DraftGeneration ---------------------------
(***************************************************************************)
(* Generating drafts for one lead: generate_draft_handler (admin/leads.rs) *)
(* and its per-signature lock (draft_lock.rs), with several requests, the  *)
(* lead and its thread changing under them, and requests that are dropped. *)
(*                                                                         *)
(* A signature stands for what a generation depends on.  Its parts change  *)
(* for two reasons only: the lead's state or its seller's settings         *)
(* (Stages), and the latest inbound message of the thread (Messages).      *)
(* The lock is tokio's: waiters are served in the order they came.         *)
(***************************************************************************)
EXTENDS Naturals, Sequences, FiniteSets
LOCAL INSTANCE SequencesExt

CONSTANTS Callers,    \* slots for the generate requests in flight
          Rows,       \* slots for pending draft rows; bounds how many there are
          Stages,     \* lead state and seller settings
          Messages,   \* ids of inbound messages
          NoMessage,  \* the thread has no inbound message, or was not read
          Nobody,     \* nobody holds the lock
          Absent,     \* a slot without a pending draft
          Unsigned    \* a draft whose signature column is NULL

Sigs == Stages \X (Messages \cup {NoMessage})

ASSUME NobodyAssumption == Nobody \notin Callers
ASSUME StampAssumption == Absent # Unsigned /\ {Absent, Unsigned} \cap Sigs = {}

VARIABLES
    stage,    \* what the next read of lead and seller sees
    latest,   \* what the next read of the thread sees
    stamp,    \* signature of each pending draft
    blind,    \* history: pending drafts stored after a failed lookup
    gpc,      \* the next await of each request
    hinted,   \* it carries an operator hint
    seen,     \* the stage it has read
    sig,      \* its signature, once computed
    failed,   \* its lookup failed
    holder,   \* who holds the lock of each signature
    waiters   \* who waits for it

worldVars == <<stage, latest>>
rowVars == <<stamp, blind>>
lockVars == <<holder, waiters>>
callVars == <<gpc, hinted, seen, sig, failed>>
vars == <<worldVars, rowVars, lockVars, callVars>>

CallSteps == {"idle", "thread", "lookup", "generate", "persist"}
AnyStage == CHOOSE s \in Stages : TRUE

Busy == {c \in Callers : gpc[c] # "idle"}
Stored == {d \in Rows : stamp[d] # Absent}
RoomForRow == Cardinality(Stored) + Cardinality(Busy) < Cardinality(Rows)

\* Between its lookup and its answer, with the lock held.
Generating(c) == gpc[c] \in {"generate", "persist"} /\ ~ hinted[c]

Init ==
    /\ stage \in Stages
    /\ latest = NoMessage
    /\ stamp = [d \in Rows |-> Absent]
    /\ blind = {}
    /\ gpc = [c \in Callers |-> "idle"]
    /\ hinted = [c \in Callers |-> FALSE]
    /\ seen = [c \in Callers |-> AnyStage]
    /\ sig = [c \in Callers |-> Unsigned]
    /\ failed = [c \in Callers |-> FALSE]
    /\ holder = [s \in Sigs |-> Nobody]
    /\ waiters = [s \in Sigs |-> <<>>]

------------------------------------------------------------------------------
(* DraftLockMap                                                            *)

\* Mutant: everybody gets the lock.
BugAcquire(c, s) ==
    /\ holder' = [holder EXCEPT ![s] = c]
    /\ UNCHANGED waiters

Acquire(c, s) ==
    IF holder[s] = Nobody
    THEN /\ holder' = [holder EXCEPT ![s] = c]
         /\ UNCHANGED waiters
    ELSE /\ waiters' = [waiters EXCEPT ![s] = Append(@, c)]
         /\ UNCHANGED holder

\* The guard is dropped: the lock passes to the first waiter.
Release(s) ==
    IF waiters[s] = <<>>
    THEN /\ holder' = [holder EXCEPT ![s] = Nobody]
         /\ UNCHANGED waiters
    ELSE /\ holder' = [holder EXCEPT ![s] = Head(waiters[s])]
         /\ waiters' = [waiters EXCEPT ![s] = Tail(@)]

LeaveQueue(c, s) ==
    /\ \E i \in DOMAIN waiters[s] :
          /\ waiters[s][i] = c
          /\ waiters' = [waiters EXCEPT ![s] = RemoveAt(@, i)]
    /\ UNCHANGED holder

\* Mutant: the lock is freed and its first waiter is not woken.
BugLetGo(c) ==
    IF sig[c] = Unsigned \/ hinted[c] THEN UNCHANGED lockVars
    ELSE IF holder[sig[c]] = c
    THEN holder' = [holder EXCEPT ![sig[c]] = Nobody] /\ UNCHANGED waiters
    ELSE LeaveQueue(c, sig[c])

\* The request ends, and with it its guard or its place in the queue.
LetGo(c) ==
    IF sig[c] = Unsigned \/ hinted[c] THEN UNCHANGED lockVars
    ELSE IF holder[sig[c]] = c THEN Release(sig[c])
    ELSE LeaveQueue(c, sig[c])

\* Mutant: the request keeps its signature.
BugAnswer(c) ==
    /\ LetGo(c)
    /\ gpc' = [gpc EXCEPT ![c] = "idle"]
    /\ hinted' = [hinted EXCEPT ![c] = FALSE]
    /\ seen' = [seen EXCEPT ![c] = AnyStage]
    /\ sig' = sig
    /\ failed' = [failed EXCEPT ![c] = FALSE]

Answer(c) ==
    /\ LetGo(c)
    /\ gpc' = [gpc EXCEPT ![c] = "idle"]
    /\ hinted' = [hinted EXCEPT ![c] = FALSE]
    /\ seen' = [seen EXCEPT ![c] = AnyStage]
    /\ sig' = [sig EXCEPT ![c] = Unsigned]
    /\ failed' = [failed EXCEPT ![c] = FALSE]

------------------------------------------------------------------------------
(* generate_draft_handler                                                  *)

\* The lead is read.
Ask(c, hint) ==
    /\ gpc[c] = "idle"
    /\ RoomForRow
    /\ gpc' = [gpc EXCEPT ![c] = "thread"]
    /\ hinted' = [hinted EXCEPT ![c] = hint]
    /\ seen' = [seen EXCEPT ![c] = stage]
    /\ UNCHANGED <<worldVars, rowVars, lockVars, sig, failed>>

\* The thread is read (an error reads as an empty thread), the signature
\* computed, and without a hint the lock asked for.
ReadThread(c) ==
    /\ gpc[c] = "thread"
    /\ \E m \in {latest, NoMessage} :
          LET s == <<seen[c], m>> IN
          /\ sig' = [sig EXCEPT ![c] = s]
          /\ IF hinted[c] THEN UNCHANGED lockVars ELSE Acquire(c, s)
    /\ gpc' = [gpc EXCEPT ![c] = IF hinted[c] THEN "generate" ELSE "lookup"]
    /\ UNCHANGED <<worldVars, rowVars, hinted, seen, failed>>

\* find_pending_draft_by_signature, with the lock.
HasLock(c) == gpc[c] = "lookup" /\ holder[sig[c]] = c

ReuseStored(c) ==
    /\ HasLock(c)
    /\ \E d \in Rows : stamp[d] = sig[c]
    /\ Answer(c)
    /\ UNCHANGED <<worldVars, rowVars>>

FindNone(c) ==
    /\ HasLock(c)
    /\ \A d \in Rows : stamp[d] # sig[c]
    /\ gpc' = [gpc EXCEPT ![c] = "generate"]
    /\ UNCHANGED <<worldVars, rowVars, lockVars, hinted, seen, sig, failed>>

\* "Non-fatal": a failed lookup generates all the same.
LookupFails(c) ==
    /\ HasLock(c)
    /\ gpc' = [gpc EXCEPT ![c] = "generate"]
    /\ failed' = [failed EXCEPT ![c] = TRUE]
    /\ UNCHANGED <<worldVars, rowVars, lockVars, hinted, seen, sig>>

\* The model call, or the template it falls back to.
Generate(c) ==
    /\ gpc[c] = "generate"
    /\ gpc' = [gpc EXCEPT ![c] = "persist"]
    /\ UNCHANGED <<worldVars, rowVars, lockVars, hinted, seen, sig, failed>>

GenerateFails(c) ==
    /\ gpc[c] = "generate"
    /\ Answer(c)
    /\ UNCHANGED <<worldVars, rowVars>>

\* Mutant: a hinted draft is signed too.
BugPersist(c, d) ==
    /\ gpc[c] = "persist"
    /\ stamp[d] = Absent
    /\ stamp' = [stamp EXCEPT ![d] = sig[c]]
    /\ blind' = IF failed[c] THEN blind \cup {d} ELSE blind
    /\ Answer(c)
    /\ UNCHANGED worldVars

\* A fresh row; a hinted draft carries no signature.
Persist(c, d) ==
    /\ gpc[c] = "persist"
    /\ stamp[d] = Absent
    /\ stamp' = [stamp EXCEPT ![d] = IF hinted[c] THEN Unsigned ELSE sig[c]]
    /\ blind' = IF failed[c] THEN blind \cup {d} ELSE blind
    /\ Answer(c)
    /\ UNCHANGED worldVars

\* A store error, or the request's future dropped: its guard goes with it.
Abandon(c) ==
    /\ gpc[c] # "idle"
    /\ Answer(c)
    /\ UNCHANGED <<worldVars, rowVars>>

CallStep(c) ==
    \/ \E hint \in BOOLEAN : Ask(c, hint)
    \/ ReadThread(c)
    \/ ReuseStored(c)
    \/ FindNone(c)
    \/ LookupFails(c)
    \/ Generate(c)
    \/ GenerateFails(c)
    \/ \E d \in Rows : Persist(c, d)
    \/ Abandon(c)

------------------------------------------------------------------------------
(* What changes around the requests.                                       *)

\* A transition of the lead, an edit of its seller, an inbound message.
WorldMoves ==
    /\ stage' \in Stages
    /\ latest' \in {latest} \cup Messages
    /\ UNCHANGED <<rowVars, lockVars, callVars>>

\* create_draft_handler: no signature, no lock.
CreateByHand(d) ==
    /\ stamp[d] = Absent
    /\ RoomForRow
    /\ stamp' = [stamp EXCEPT ![d] = Unsigned]
    /\ UNCHANGED <<worldVars, blind, lockVars, callVars>>

\* Approved, rejected, deleted or swept: the slot is free for another row.
Settle(d) ==
    /\ stamp[d] # Absent
    /\ stamp' = [stamp EXCEPT ![d] = Absent]
    /\ blind' = blind \ {d}
    /\ UNCHANGED <<worldVars, lockVars, callVars>>

\* The rows survive; the requests and the lock map do not.
Restart ==
    /\ gpc' = [c \in Callers |-> "idle"]
    /\ hinted' = [c \in Callers |-> FALSE]
    /\ seen' = [c \in Callers |-> AnyStage]
    /\ sig' = [c \in Callers |-> Unsigned]
    /\ failed' = [c \in Callers |-> FALSE]
    /\ holder' = [s \in Sigs |-> Nobody]
    /\ waiters' = [s \in Sigs |-> <<>>]
    /\ UNCHANGED <<worldVars, rowVars>>

Next ==
    \/ \E c \in Callers : CallStep(c)
    \/ WorldMoves
    \/ \E d \in Rows : CreateByHand(d) \/ Settle(d)
    \/ Restart

Spec == Init /\ [][Next]_vars

\* Statements return, and a model call is cut off after 30 seconds
\* (LLM_TIMEOUT, draft.rs).
Served(c) ==
    \/ ReadThread(c)
    \/ ReuseStored(c) \/ FindNone(c) \/ LookupFails(c)
    \/ Generate(c) \/ GenerateFails(c)
    \/ \E d \in Rows : Persist(c, d)

FairSpec == Spec /\ \A c \in Callers : WF_vars(Served(c))

------------------------------------------------------------------------------
(* Type invariant of the requests, the pending drafts and the lock map.    *)
TypeOK ==
    /\ stage \in Stages
    /\ latest \in Messages \cup {NoMessage}
    /\ stamp \in [Rows -> Sigs \cup {Absent, Unsigned}]
    /\ blind \subseteq Stored
    /\ gpc \in [Callers -> CallSteps]
    /\ hinted \in [Callers -> BOOLEAN]
    /\ seen \in [Callers -> Stages]
    /\ sig \in [Callers -> Sigs \cup {Unsigned}]
    /\ \A c \in Callers : sig[c] = Unsigned <=> gpc[c] \in {"idle", "thread"}
    /\ failed \in [Callers -> BOOLEAN]
    /\ holder \in [Sigs -> Callers \cup {Nobody}]
    /\ waiters \in [Sigs -> Seq(Callers)]

(* Requests for the same signature do not both spend tokens (draft_lock.rs,*)
(* "returns it without spending any tokens of its own"): one generates at  *)
(* a time, and, unless its lookup failed, only while no pending draft has  *)
(* that signature.                                                         *)
NoWastedGeneration ==
    \A c \in Callers : Generating(c) =>
        /\ \A b \in Callers : Generating(b) /\ sig[b] = sig[c] => b = c
        /\ ~ failed[c] => \A d \in Rows : stamp[d] # sig[c]

(* Two pending drafts have the same signature only where a lookup failed   *)
(* (draft_lock.rs, "leaving two pending drafts with identical signatures   *)
(* in the table").                                                         *)
OnePendingPerSignature ==
    \A d, e \in Rows \ blind : stamp[d] = stamp[e] /\ stamp[d] \in Sigs => d = e

(* Every request is answered, whoever is dropped while it holds the lock   *)
(* or waits for it.                                                        *)
EveryRequestEnds == \A c \in Callers : gpc[c] # "idle" ~> gpc[c] = "idle"

==============================================================================
