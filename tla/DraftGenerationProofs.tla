------------------------ MODULE DraftGenerationProofs ------------------------
(***************************************************************************)
(* Theorems about DraftGeneration for any number of requests, draft rows,  *)
(* stages and messages.                                                    *)
(***************************************************************************)
EXTENDS DraftGeneration, TLAPS
LOCAL INSTANCE SequencesExt

(* A request without a hint generates under its signature's lock: it keeps *)
(* the lock from its lookup to its answer.                                 *)
GeneratorsHold == \A c \in Callers : Generating(c) => holder[sig[c]] = c

(* Nobody else stores a draft of that signature meanwhile.                 *)
GeneratorsFoundNone ==
    \A c \in Callers : Generating(c) /\ ~ failed[c] => \A d \in Rows : stamp[d] # sig[c]

GenInv ==
    /\ TypeOK
    /\ GeneratorsHold
    /\ GeneratorsFoundNone
    /\ OnePendingPerSignature

------------------------------------------------------------------------------
LEMMA AnyStageType == Stages # {} => AnyStage \in Stages
    BY DEF AnyStage

LEMMA GInitInv == Init => GenInv
<1> SUFFICES ASSUME Init PROVE GenInv
    OBVIOUS
<1>1. TypeOK
    BY AnyStageType DEF Init, TypeOK, CallSteps, Stored
<1>2. GeneratorsHold /\ GeneratorsFoundNone
    BY DEF Init, GeneratorsHold, GeneratorsFoundNone, Generating
<1>3. OnePendingPerSignature
    BY StampAssumption DEF Init, OnePendingPerSignature
<1>4. QED
    BY <1>1, <1>2, <1>3 DEF GenInv

(* Taking a waiter out of a queue, at the front or in the middle.          *)
LEMMA QueueShrinks ==
    ASSUME NEW S, NEW q \in Seq(S)
    PROVE  /\ q # <<>> => Head(q) \in S /\ Tail(q) \in Seq(S)
           /\ \A i \in DOMAIN q : RemoveAt(q, i) \in Seq(S)
<1>1. ASSUME NEW i \in 1 .. Len(q) PROVE RemoveAt(q, i) \in Seq(S)
    <2>1. SubSeq(q, 1, i - 1) \in Seq(S) /\ SubSeq(q, i + 1, Len(q)) \in Seq(S)
        OBVIOUS
    <2>2. QED
        BY <2>1 DEF RemoveAt
<1>2. QED
    BY <1>1

(* A request that leaves frees at most the lock it holds: every other      *)
(* holder keeps its own.                                                   *)
LEMMA LetGoLocks ==
    ASSUME TypeOK, NEW c \in Callers, LetGo(c)
    PROVE  /\ holder' \in [Sigs -> Callers \cup {Nobody}]
           /\ waiters' \in [Sigs -> Seq(Callers)]
           /\ \A s \in Sigs : holder[s] \notin {c, Nobody} => holder'[s] = holder[s]
<1> USE DEF TypeOK
<1>1. CASE UNCHANGED lockVars
    BY <1>1 DEF lockVars
<1>2. CASE sig[c] # Unsigned /\ holder[sig[c]] = c /\ Release(sig[c])
    <2>1. sig[c] \in Sigs /\ waiters[sig[c]] \in Seq(Callers)
        BY <1>2
    <2>2. waiters[sig[c]] # <<>> => /\ Head(waiters[sig[c]]) \in Callers
                                   /\ Tail(waiters[sig[c]]) \in Seq(Callers)
        BY <2>1, QueueShrinks
    <2>3. QED
        BY <1>2, <2>1, <2>2 DEF Release
<1>3. CASE sig[c] # Unsigned /\ LeaveQueue(c, sig[c])
    <2>1. sig[c] \in Sigs /\ waiters[sig[c]] \in Seq(Callers)
        BY <1>3
    <2>2. PICK i \in DOMAIN waiters[sig[c]] :
              waiters' = [waiters EXCEPT ![sig[c]] = RemoveAt(@, i)]
        BY <1>3 DEF LeaveQueue
    <2>3. RemoveAt(waiters[sig[c]], i) \in Seq(Callers)
        BY <2>1, QueueShrinks
    <2>4. QED
        BY <1>3, <2>1, <2>2, <2>3 DEF LeaveQueue
<1>4. QED
    BY <1>1, <1>2, <1>3 DEF LetGo

\* What the end of a request, with or without a row, leaves of the others.
LEMMA AnswerLocks ==
    ASSUME TypeOK, GeneratorsHold, NEW c \in Callers, Answer(c)
    PROVE  /\ \A b \in Callers : Generating(b)' =>
                  /\ b # c /\ Generating(b)
                  /\ sig'[b] = sig[b] /\ failed'[b] = failed[b]
                  /\ holder'[sig'[b]] = b
<1> SUFFICES ASSUME NEW b \in Callers, Generating(b)'
             PROVE  /\ b # c /\ Generating(b)
                    /\ sig'[b] = sig[b] /\ failed'[b] = failed[b]
                    /\ holder'[sig'[b]] = b
    OBVIOUS
<1>1. b # c /\ Generating(b) /\ sig'[b] = sig[b] /\ failed'[b] = failed[b]
    BY DEF Answer, Generating, TypeOK
<1>2. holder[sig[b]] = b /\ sig[b] \in Sigs
    BY <1>1 DEF GeneratorsHold, Generating, TypeOK
<1>3. holder'[sig[b]] = b
    BY <1>1, <1>2, LetGoLocks, NobodyAssumption DEF Answer
<1>4. QED
    BY <1>1, <1>3

LEMMA AnswerTypes ==
    ASSUME TypeOK, NEW c \in Callers, Answer(c), UNCHANGED worldVars,
           stamp' \in [Rows -> Sigs \cup {Absent, Unsigned}], blind' \subseteq Stored'
    PROVE  TypeOK'
<1>1. LetGo(c) /\ AnyStage \in Stages
    BY AnyStageType DEF Answer, TypeOK
<1>2. QED
    BY <1>1, LetGoLocks DEF Answer, worldVars, TypeOK, CallSteps

(* A request that ends without storing a draft.                            *)
LEMMA AnswerInv ==
    ASSUME GenInv, NEW c \in Callers, Answer(c), UNCHANGED <<worldVars, rowVars>>
    PROVE  GenInv'
<1>1. TypeOK'
    BY AnswerTypes DEF GenInv, TypeOK, rowVars, Stored
<1>2. GeneratorsHold' /\ GeneratorsFoundNone'
    BY AnswerLocks DEF GenInv, GeneratorsHold, GeneratorsFoundNone, rowVars
<1>3. OnePendingPerSignature'
    BY DEF GenInv, OnePendingPerSignature, rowVars
<1>4. QED
    BY <1>1, <1>2, <1>3 DEF GenInv

(* The row stored is the only one of its signature whose lookup succeeded, *)
(* and none of the other generators is after that signature.               *)
LEMMA PersistInv ==
    ASSUME GenInv, NEW c \in Callers, NEW d \in Rows, Persist(c, d)
    PROVE  GenInv'
<1> USE DEF Persist
<1>0. sig[c] \in Sigs /\ stamp \in [Rows -> Sigs \cup {Absent, Unsigned}]
    BY DEF GenInv, TypeOK
<1>1. TypeOK'
    <2>1. stamp' \in [Rows -> Sigs \cup {Absent, Unsigned}]
        BY <1>0
    <2>2. blind' \subseteq Stored'
        BY <1>0, StampAssumption DEF GenInv, TypeOK, Stored
    <2>3. QED
        BY <2>1, <2>2, AnswerTypes DEF GenInv
<1>2. GeneratorsHold'
    BY AnswerLocks DEF GenInv, GeneratorsHold
<1>3. GeneratorsFoundNone'
    <2> SUFFICES ASSUME NEW b \in Callers, Generating(b)', ~ failed'[b], NEW e \in Rows
                 PROVE  stamp'[e] # sig'[b]
        BY DEF GeneratorsFoundNone
    <2>1. /\ b # c /\ Generating(b) /\ sig'[b] = sig[b] /\ ~ failed[b]
          /\ sig[b] \in Sigs
        BY AnswerLocks DEF GenInv, TypeOK, Generating
    <2>2. ~ hinted[c] => sig[b] # sig[c]
        BY <2>1 DEF GenInv, GeneratorsHold, Generating
    <2>3. QED
        BY <1>0, <2>1, <2>2, StampAssumption DEF GenInv, GeneratorsFoundNone
<1>4. OnePendingPerSignature'
    <2>1. CASE hinted[c]
        BY <1>0, <2>1, StampAssumption DEF GenInv, OnePendingPerSignature
    <2>2. CASE failed[c]
        BY <1>0, <2>2 DEF GenInv, OnePendingPerSignature
    <2>3. CASE ~ hinted[c] /\ ~ failed[c]
        <3>1. \A e \in Rows : stamp[e] # sig[c]
            BY <2>3 DEF GenInv, GeneratorsFoundNone, Generating
        <3>2. QED
            BY <1>0, <2>3, <3>1 DEF GenInv, OnePendingPerSignature
    <2>4. QED
        BY <2>1, <2>2, <2>3
<1>5. QED
    BY <1>1, <1>2, <1>3, <1>4 DEF GenInv

(* Asking for a lock takes it from nobody.                                 *)
LEMMA AcquireLocks ==
    ASSUME TypeOK, NEW c \in Callers, NEW s \in Sigs, Acquire(c, s)
    PROVE  /\ holder' \in [Sigs -> Callers \cup {Nobody}]
           /\ waiters' \in [Sigs -> Seq(Callers)]
           /\ \A t \in Sigs : holder[t] # Nobody => holder'[t] = holder[t]
<1>1. Append(waiters[s], c) \in Seq(Callers)
    BY DEF TypeOK
<1>2. QED
    BY <1>1 DEF Acquire, TypeOK

LEMMA ReadInv ==
    ASSUME GenInv, NEW c \in Callers, ReadThread(c)
    PROVE  GenInv'
<1>1. PICK m \in {latest, NoMessage} :
          /\ sig' = [sig EXCEPT ![c] = <<seen[c], m>>]
          /\ IF hinted[c] THEN UNCHANGED lockVars ELSE Acquire(c, <<seen[c], m>>)
    BY DEF ReadThread
<1>2. <<seen[c], m>> \in Sigs
    BY DEF GenInv, TypeOK, Sigs
<1>3. /\ holder' \in [Sigs -> Callers \cup {Nobody}]
      /\ waiters' \in [Sigs -> Seq(Callers)]
      /\ \A t \in Sigs : holder[t] # Nobody => holder'[t] = holder[t]
    <2>1. CASE UNCHANGED lockVars
        BY <2>1 DEF lockVars, GenInv, TypeOK
    <2>2. CASE Acquire(c, <<seen[c], m>>)
        BY <1>2, <2>2, AcquireLocks DEF GenInv
    <2>3. QED
        BY <1>1, <2>1, <2>2
<1>4. TypeOK'
    <2>1. /\ gpc' \in [Callers -> CallSteps]
          /\ sig' \in [Callers -> Sigs \cup {Unsigned}]
          /\ \A b \in Callers : sig'[b] = Unsigned <=> gpc'[b] \in {"idle", "thread"}
        <3>1. <<seen[c], m>> # Unsigned
            BY <1>2, StampAssumption
        <3>2. sig' = [sig EXCEPT ![c] = <<seen[c], m>>]
            BY <1>1
        <3>3. gpc'[c] \in {"generate", "lookup"}
            BY DEF ReadThread, GenInv, TypeOK
        <3>4. QED
            BY <1>2, <3>1, <3>2, <3>3 DEF ReadThread, GenInv, TypeOK, CallSteps
    <2>2. QED
        BY <1>3, <2>1 DEF ReadThread, GenInv, TypeOK, Stored, worldVars, rowVars
<1>5. \A b \in Callers : Generating(b)' =>
          Generating(b) /\ sig'[b] = sig[b] /\ failed'[b] = failed[b] /\ sig[b] \in Sigs
    BY <1>1 DEF ReadThread, Generating, GenInv, TypeOK
<1>6. GeneratorsHold'
    <2> SUFFICES ASSUME NEW b \in Callers, Generating(b)'
                 PROVE  holder'[sig'[b]] = b
        BY DEF GeneratorsHold
    <2>1. Generating(b) /\ sig'[b] = sig[b] /\ sig[b] \in Sigs
        BY <1>5
    <2>2. holder[sig[b]] = b
        BY <2>1 DEF GenInv, GeneratorsHold
    <2>3. QED
        BY <1>3, <2>1, <2>2, NobodyAssumption
<1>7. GeneratorsFoundNone'
    BY <1>5 DEF ReadThread, rowVars, GenInv, GeneratorsFoundNone
<1>8. OnePendingPerSignature'
    BY DEF ReadThread, rowVars, GenInv, OnePendingPerSignature
<1>9. QED
    BY <1>4, <1>6, <1>7, <1>8 DEF GenInv

LEMMA CallInv ==
    ASSUME GenInv, NEW c \in Callers, CallStep(c)
    PROVE  GenInv'
<1> USE DEF GenInv, TypeOK, GeneratorsHold, GeneratorsFoundNone, OnePendingPerSignature,
            worldVars, rowVars, lockVars, CallSteps, Stored, Generating
<1>1. ASSUME NEW hint \in BOOLEAN, Ask(c, hint) PROVE GenInv'
    BY <1>1 DEF Ask
<1>2. CASE FindNone(c)
    BY <1>2 DEF FindNone, HasLock
<1>3. CASE LookupFails(c)
    BY <1>3 DEF LookupFails, HasLock
<1>4. CASE Generate(c)
    BY <1>4 DEF Generate
<1>5. CASE ReuseStored(c) \/ GenerateFails(c) \/ Abandon(c)
    BY ONLY <1>5, GenInv, c \in Callers, AnswerInv DEF ReuseStored, GenerateFails, Abandon
<1>6. QED
    BY ONLY <1>1, <1>2, <1>3, <1>4, <1>5, GenInv, CallStep(c), c \in Callers, ReadInv,
            PersistInv DEF CallStep

LEMMA AroundInv ==
    ASSUME GenInv, \/ WorldMoves \/ Restart \/ UNCHANGED vars
                   \/ \E d \in Rows : CreateByHand(d) \/ Settle(d)
    PROVE  GenInv'
<1> USE DEF GenInv, TypeOK, GeneratorsHold, GeneratorsFoundNone, OnePendingPerSignature,
            worldVars, rowVars, lockVars, callVars, Stored, Generating
<1>1. CASE WorldMoves
    BY <1>1 DEF WorldMoves
<1>2. CASE Restart
    BY <1>2, AnyStageType DEF Restart, CallSteps
<1>3. CASE UNCHANGED vars
    BY <1>3 DEF vars
<1>4. ASSUME NEW d \in Rows, CreateByHand(d) PROVE GenInv'
    BY <1>4, StampAssumption DEF CreateByHand
<1>5. ASSUME NEW d \in Rows, Settle(d) PROVE GenInv'
    BY <1>5, StampAssumption DEF Settle
<1>6. QED
    BY <1>1, <1>2, <1>3, <1>4, <1>5

LEMMA GenInvHolds == Spec => []GenInv
<1>1. GenInv /\ [Next]_vars => GenInv'
    BY CallInv, AroundInv DEF Next
<1>2. QED
    BY GInitInv, <1>1, PTL DEF Spec

------------------------------------------------------------------------------
(* Type correctness of the requests, the drafts and the lock map.          *)
THEOREM GenerationTypeCorrect == Spec => []TypeOK
    BY GenInvHolds, PTL DEF GenInv

(* No tokens are spent on a draft that is pending or being generated.      *)
THEOREM NothingWasted == Spec => []NoWastedGeneration
<1>1. GenInv => NoWastedGeneration
    BY DEF GenInv, GeneratorsHold, GeneratorsFoundNone, NoWastedGeneration
<1>2. QED
    BY <1>1, GenInvHolds, PTL

(* Without failed lookups a signature has at most one pending draft.       *)
THEOREM OneDraftPerSignature == Spec => []OnePendingPerSignature
    BY GenInvHolds, PTL DEF GenInv

==============================================================================
