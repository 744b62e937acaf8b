------------------------ MODULE InboundPipelineProofs ------------------------
(***************************************************************************)
(* Theorems about InboundPipeline for any number of handlers, mails,       *)
(* leads, threads and deliveries.                                          *)
(***************************************************************************)
EXTENDS InboundPipeline, FiniteSetTheorems, TLAPS

(* What the steps of a compose request have done.                          *)
ComposeOrder ==
    \A l \in Composed :
        /\ composing[l] = "none" => thread[l] = Unused
        /\ composing[l] # "none" => thread[l] = Synthetic
        /\ composing[l] \in {"none", "track"} => l \notin replyable
        /\ composing[l] \in {"none", "track", "dispatch"} => l \notin mailed
        /\ composing[l] = "append" => l \in mailed

(* A mail in flight, or that opened a lead, answers one that has left.     *)
AnswersExist ==
    /\ \A h \in Handlers : mail[h] \in Mails /\ Answers[mail[h]] # NoLead
                              => Answers[mail[h]] \in mailed
    /\ \A l \in Leads : opener[l] \in Mails /\ Answers[opener[l]] # NoLead
                              => Answers[opener[l]] \in mailed

(* A handler past the compose lookup had nothing to find there.            *)
UnansweredGoOn ==
    \A h \in Handlers :
        step[h] \in {"lookup", "screen", "create"} /\ mail[h] \notin blind
            => Answers[mail[h]] \notin replyable

(* A handler's target is where its mail belongs.                           *)
TargetsBelong ==
    \A h \in Handlers :
        /\ step[h] = "file" => /\ target[h] = Answers[mail[h]]
                               /\ target[h] \in replyable
        /\ step[h] \in {"close", "bump", "seed"} => thread[target[h]] = Thread[mail[h]]

UnusedAreEmpty == \A l \in Leads : thread[l] = Unused => rows[l] = {}

(* The handlers that may still open a lead on a thread.                    *)
Openers(t) == {h \in Handlers : step[h] \in {"screen", "create"} /\ Thread[mail[h]] = t}

Clear(t) == \A m \in Mails : Thread[m] = t => m \notin blind

(* A thread's leads and the handlers about to add one were all in flight   *)
(* together when the thread had none.                                      *)
LeadsAndOpeners ==
    \A t \in Threads : Clear(t) =>
        Cardinality(LeadsOf(t)) + Cardinality(Openers(t)) <= Cardinality(Handlers)

ReplyInv == ComposeOrder /\ AnswersExist /\ UnansweredGoOn /\ RepliesThreadBack
FileInv == TargetsBelong /\ UnusedAreEmpty /\ FiledWhereItBelongs
InboundInv == TypeOK /\ ReplyInv /\ FileInv /\ LeadsAndOpeners

------------------------------------------------------------------------------
LEMMA Distinct == /\ Unused # Synthetic
                  /\ \A m \in Mails : Thread[m] # Unused /\ Thread[m] # Synthetic
                  /\ \A t \in Threads : t # Unused /\ t # Synthetic
    BY ThreadAssumption, ThreadsAssumption DEF Unused, Synthetic

LEMMA Sizes ==
    ASSUME NEW t
    PROVE  /\ IsFiniteSet(LeadsOf(t)) /\ Cardinality(LeadsOf(t)) \in Nat
           /\ IsFiniteSet(Openers(t)) /\ Cardinality(Openers(t)) \in Nat
           /\ Cardinality(Openers(t)) <= Cardinality(Handlers)
           /\ Cardinality(Handlers) \in Nat
<1>1. LeadsOf(t) \subseteq Leads /\ Openers(t) \subseteq Handlers
    BY DEF LeadsOf, Openers
<1>2. QED
    BY <1>1, FiniteAssumption, FS_Subset, FS_CardinalityType

------------------------------------------------------------------------------
LEMMA InInit == Init => InboundInv
<1> SUFFICES ASSUME Init PROVE InboundInv
    OBVIOUS
<1>1. TypeOK
    <2>1. 0 \in 0 .. MaxDeliveries
        BY MaxDeliveriesAssumption
    <2>2. QED
        BY <2>1 DEF Init, TypeOK, HandlerSteps, ComposeSteps, Kinds
<1>2. ReplyInv
    <2>1. ComposeOrder
        BY ComposedAssumption DEF Init, ComposeOrder
    <2>2. AnswersExist /\ UnansweredGoOn /\ RepliesThreadBack
        BY MailAssumption DEF Init, AnswersExist, UnansweredGoOn, RepliesThreadBack
    <2>3. QED
        BY <2>1, <2>2 DEF ReplyInv
<1>3. FileInv
    BY DEF Init, FileInv, TargetsBelong, UnusedAreEmpty, FiledWhereItBelongs
<1>4. LeadsAndOpeners
    <2> SUFFICES ASSUME NEW t \in Threads
                 PROVE  Cardinality(LeadsOf(t)) + Cardinality(Openers(t))
                            <= Cardinality(Handlers)
        BY DEF LeadsAndOpeners
    <2>1. LeadsOf(t) = {}
        BY Distinct DEF Init, LeadsOf
    <2>2. Openers(t) = {}
        BY DEF Init, Openers
    <2>3. QED
        BY <2>1, <2>2, Sizes, FS_EmptySet
<1>5. QED
    BY <1>1, <1>2, <1>3, <1>4 DEF InboundInv

------------------------------------------------------------------------------
(* Type correctness, action by action.                                     *)
LEMMA TypeNext == TypeOK /\ [Next]_vars => TypeOK'
<1> SUFFICES ASSUME TypeOK, [Next]_vars PROVE TypeOK'
    OBVIOUS
<1> USE DEF TypeOK, storeVars, handlerVars, composeVars, historyVars, GoTo, Found, Done,
            File, HandlerSteps, ComposeSteps, Kinds, LeadsOf, Advance
<1>1. ASSUME NEW h \in Handlers, HandlerStep(h) PROVE TypeOK'
    <2>1. ASSUME NEW m \in Mails, Deliver(h, m) PROVE TypeOK'
        BY <2>1, MaxDeliveriesAssumption DEF Deliver
    <2>2. CASE Hear(h)
        BY <2>2 DEF Hear
    <2>3. CASE CloseLead(h)
        BY <2>3 DEF CloseLead
    <2>4. CASE Resolve(h)
        BY <2>4, ComposedAssumption DEF Resolve
    <2>5. CASE FileReply(h)
        BY <2>5 DEF FileReply
    <2>6. CASE Lookup(h)
        BY <2>6 DEF Lookup
    <2>7. CASE Bump(h)
        BY <2>7 DEF Bump
    <2>8. CASE StatementFails(h)
        BY <2>8 DEF StatementFails
    <2>9. CASE Drop(h) \/ Admit(h) \/ CreateFails(h)
        BY <2>9 DEF Drop, Admit, CreateFails
    <2>10. CASE Create(h)
        BY <2>10, ThreadAssumption DEF Create
    <2>11. CASE Seed(h)
        BY <2>11 DEF Seed
    <2>12. CASE Notify(h)
        BY <2>12 DEF Notify
    <2>13. CASE NotifyNobody(h)
        BY <2>13 DEF NotifyNobody
    <2>14. QED
        BY <1>1, <2>1, <2>2, <2>3, <2>4, <2>5, <2>6, <2>7, <2>8, <2>9, <2>10, <2>11, <2>12,
           <2>13 DEF HandlerStep
<1>2. ASSUME NEW l \in Composed, ComposeStep(l) PROVE TypeOK'
    BY <1>2, ComposedAssumption
    DEF ComposeStep, ComposeLead, TrackComposed, PublishComposed, RefuseComposed,
        AppendComposed
<1>3. CASE NextMinute
    BY <1>3 DEF NextMinute
<1>4. CASE Restart
    BY <1>4 DEF Restart
<1>5. CASE UNCHANGED vars
    BY <1>5 DEF vars
<1>6. QED
    BY <1>1, <1>2, <1>3, <1>4, <1>5 DEF Next

------------------------------------------------------------------------------
(* A reply finds the lead whose mail it answers.                           *)
LEMMA ReplyHandler ==
    ASSUME TypeOK, ReplyInv, NEW h \in Handlers, HandlerStep(h)
    PROVE  ReplyInv'
<1> USE DEF TypeOK, ReplyInv, ComposeOrder, AnswersExist, UnansweredGoOn, RepliesThreadBack,
            storeVars, composeVars, historyVars, GoTo, Found, Done
<1>1. ASSUME NEW m \in Mails, Deliver(h, m) PROVE ReplyInv'
    BY <1>1 DEF Deliver
<1>2. CASE Hear(h)
    BY <1>2, MailAssumption DEF Hear
<1>3. CASE CloseLead(h)
    BY <1>3, MailAssumption DEF CloseLead
<1>4. CASE Resolve(h)
    BY <1>4 DEF Resolve
<1>5. CASE FileReply(h) \/ Bump(h) \/ Seed(h)
    BY <1>5, MailAssumption DEF FileReply, Bump, Seed
<1>6. CASE Lookup(h)
    BY <1>6 DEF Lookup
<1>7. CASE StatementFails(h)
    BY <1>7, MailAssumption DEF StatementFails
<1>8. CASE Drop(h) \/ Admit(h) \/ CreateFails(h)
    BY <1>8, MailAssumption DEF Drop, Admit, CreateFails
<1>9. CASE Create(h)
    <2>1. PICK l \in Leads \ Composed :
              /\ thread[l] = Unused
              /\ thread' = [thread EXCEPT ![l] = Thread[mail[h]]]
              /\ opener' = [opener EXCEPT ![l] = mail[h]]
              /\ Found(h, l, "seed")
        BY <1>9 DEF Create
    <2>2. ComposeOrder' /\ AnswersExist' /\ UnansweredGoOn'
        BY <2>1, <1>9 DEF Create
    <2>3. RepliesThreadBack'
        BY <2>1, <1>9 DEF Create
    <2>4. QED
        BY <2>2, <2>3
<1>10. CASE Notify(h) \/ NotifyNobody(h)
    BY <1>10, MailAssumption DEF Notify, NotifyNobody
<1>11. QED
    BY <1>1, <1>2, <1>3, <1>4, <1>5, <1>6, <1>7, <1>8, <1>9, <1>10 DEF HandlerStep

(* The id of a composed mail is recorded while nobody has the mail.        *)
LEMMA ReplyCompose ==
    ASSUME TypeOK, ReplyInv, NEW l \in Composed, ComposeStep(l)
    PROVE  ReplyInv'
<1> USE ComposedAssumption
    DEF TypeOK, ReplyInv, ComposeOrder, AnswersExist, UnansweredGoOn, RepliesThreadBack,
        storeVars, handlerVars, historyVars, Advance
<1>1. CASE ComposeLead(l)
    BY <1>1 DEF ComposeLead
<1>2. CASE TrackComposed(l)
    <2>1. l \notin mailed
        BY <1>2 DEF TrackComposed
    <2>2. ComposeOrder' /\ AnswersExist'
        BY <1>2 DEF TrackComposed
    <2>3. UnansweredGoOn'
        BY <1>2, <2>1 DEF TrackComposed, HandlerSteps
    <2>4. RepliesThreadBack'
        BY <1>2, <2>1 DEF TrackComposed
    <2>5. QED
        BY <2>2, <2>3, <2>4
<1>3. CASE PublishComposed(l)
    BY <1>3 DEF PublishComposed
<1>4. CASE RefuseComposed(l)
    BY <1>4 DEF RefuseComposed
<1>5. CASE AppendComposed(l)
    BY <1>5 DEF AppendComposed
<1>6. QED
    BY <1>1, <1>2, <1>3, <1>4, <1>5 DEF ComposeStep

LEMMA ReplyNext == TypeOK /\ ReplyInv /\ [Next]_vars => ReplyInv'
<1> SUFFICES ASSUME TypeOK, ReplyInv, [Next]_vars PROVE ReplyInv'
    OBVIOUS
<1> USE DEF ReplyInv, ComposeOrder, AnswersExist, UnansweredGoOn, RepliesThreadBack,
            storeVars, handlerVars, composeVars, historyVars
<1>1. CASE NextMinute
    BY <1>1 DEF NextMinute
<1>2. CASE Restart
    BY <1>2, MailAssumption DEF Restart, TypeOK
<1>3. CASE UNCHANGED vars
    BY <1>3 DEF vars
<1>4. QED
    BY <1>1, <1>2, <1>3, ReplyHandler, ReplyCompose DEF Next

------------------------------------------------------------------------------
(* A mail is filed under the target its handler found or created.          *)
LEMMA FileKeeps ==
    ASSUME TypeOK, ReplyInv, FileInv, NEW h \in Handlers, File(h),
           step[h] \in {"file", "bump", "seed"}, UNCHANGED <<thread, mailed>>
    PROVE  UnusedAreEmpty' /\ FiledWhereItBelongs'
<1>1. /\ target[h] \in Leads /\ mail[h] \in Mails
      /\ Answers[mail[h]] = target[h] \/ Thread[mail[h]] = thread[target[h]]
      /\ thread[target[h]] # Unused
    BY Distinct DEF TypeOK, ReplyInv, ComposeOrder, FileInv, TargetsBelong, HandlerSteps
<1>2. QED
    BY <1>1, OutgoingAssumption DEF File, TypeOK, FileInv, UnusedAreEmpty, FiledWhereItBelongs

LEMMA FileHandler ==
    ASSUME TypeOK, ReplyInv, FileInv, NEW h \in Handlers, HandlerStep(h)
    PROVE  FileInv'
<1> USE DEF TypeOK, FileInv, TargetsBelong, storeVars, composeVars, historyVars, GoTo,
            Found, Done, LeadsOf
<1>1. CASE FileReply(h) \/ Bump(h) \/ Seed(h)
    <2>1. File(h) /\ step[h] \in {"file", "bump", "seed"} /\ UNCHANGED <<thread, mailed>>
        BY <1>1 DEF FileReply, Bump, Seed
    <2>2. UnusedAreEmpty' /\ FiledWhereItBelongs'
        BY <2>1, FileKeeps
    <2>3. TargetsBelong'
        BY <1>1 DEF FileReply, Bump, Seed, Kinds
    <2>4. QED
        BY <2>2, <2>3
<1>2. CASE Create(h)
    <2>1. PICK l \in Leads \ Composed :
              /\ thread[l] = Unused
              /\ thread' = [thread EXCEPT ![l] = Thread[mail[h]]]
              /\ Found(h, l, "seed")
        BY <1>2 DEF Create
    <2>2. mail[h] \in Mails /\ UNCHANGED <<rows, mailed, replyable>>
        BY <1>2 DEF Create
    <2>3. TargetsBelong'
        <3>1. \A g \in Handlers : step[g] \in {"close", "bump", "seed"} => target[g] # l
            BY <2>1, Distinct
        <3>2. QED
            BY <2>1, <2>2, <3>1
    <2>4. UnusedAreEmpty' /\ FiledWhereItBelongs'
        BY <2>1, <2>2, Distinct DEF UnusedAreEmpty, FiledWhereItBelongs
    <2>5. QED
        BY <2>3, <2>4
<1>3. ASSUME ~ (FileReply(h) \/ Bump(h) \/ Seed(h)), ~ Create(h) PROVE FileInv'
    <2>1. UNCHANGED <<thread, rows, replyable, mailed>>
        BY <1>3 DEF HandlerStep, Deliver, Hear, CloseLead, Resolve, Lookup, StatementFails,
                    Drop, Admit, CreateFails, Notify, NotifyNobody
    <2>2. UnusedAreEmpty' /\ FiledWhereItBelongs'
        BY <2>1 DEF UnusedAreEmpty, FiledWhereItBelongs
    <2>3. TargetsBelong'
        <3>1. CASE Hear(h) \/ Resolve(h) \/ Lookup(h)
            BY <2>1, <3>1 DEF Hear, Resolve, Lookup
        <3>2. CASE CloseLead(h) \/ StatementFails(h) \/ Drop(h) \/ Admit(h) \/ CreateFails(h)
            BY <2>1, <3>2 DEF CloseLead, StatementFails, Drop, Admit, CreateFails
        <3>3. CASE Notify(h) \/ NotifyNobody(h)
            BY <2>1, <3>3 DEF Notify, NotifyNobody
        <3>4. ASSUME NEW m \in Mails, Deliver(h, m) PROVE TargetsBelong'
            BY <2>1, <3>4 DEF Deliver
        <3>5. QED
            BY <1>3, <3>1, <3>2, <3>3, <3>4 DEF HandlerStep
    <2>4. QED
        BY <2>2, <2>3
<1>4. QED
    BY <1>1, <1>2, <1>3

LEMMA FileCompose ==
    ASSUME TypeOK, ReplyInv, FileInv, NEW l \in Composed, ComposeStep(l)
    PROVE  FileInv'
<1> USE ComposedAssumption
    DEF TypeOK, ReplyInv, ComposeOrder, FileInv, storeVars, handlerVars, historyVars, Advance
<1>1. CASE ComposeLead(l)
    <2>1. \A h \in Handlers : step[h] \in {"close", "bump", "seed"} => target[h] # l
        BY <1>1, Distinct DEF ComposeLead, TargetsBelong
    <2>2. TargetsBelong'
        BY <1>1, <2>1 DEF ComposeLead, TargetsBelong
    <2>3. UnusedAreEmpty' /\ FiledWhereItBelongs'
        BY <1>1, Distinct DEF ComposeLead, UnusedAreEmpty, FiledWhereItBelongs
    <2>4. QED
        BY <2>2, <2>3
<1>2. CASE TrackComposed(l)
    BY <1>2 DEF TrackComposed, TargetsBelong, UnusedAreEmpty, FiledWhereItBelongs
<1>3. CASE PublishComposed(l) \/ RefuseComposed(l)
    BY <1>3 DEF PublishComposed, RefuseComposed, TargetsBelong, UnusedAreEmpty,
                FiledWhereItBelongs
<1>4. CASE AppendComposed(l)
    <2>1. thread[l] # Unused /\ l \in mailed
        BY <1>4, Distinct DEF AppendComposed
    <2>2. TargetsBelong'
        BY <1>4 DEF AppendComposed, TargetsBelong
    <2>3. UnusedAreEmpty' /\ FiledWhereItBelongs'
        BY <1>4, <2>1, OutgoingAssumption
        DEF AppendComposed, UnusedAreEmpty, FiledWhereItBelongs
    <2>4. QED
        BY <2>2, <2>3
<1>5. QED
    BY <1>1, <1>2, <1>3, <1>4 DEF ComposeStep

LEMMA FileNext == TypeOK /\ ReplyInv /\ FileInv /\ [Next]_vars => FileInv'
<1> SUFFICES ASSUME TypeOK, ReplyInv, FileInv, [Next]_vars PROVE FileInv'
    OBVIOUS
<1> USE DEF FileInv, TargetsBelong, UnusedAreEmpty, FiledWhereItBelongs,
            storeVars, handlerVars, composeVars, historyVars
<1>1. CASE NextMinute
    BY <1>1 DEF NextMinute
<1>2. CASE Restart
    BY <1>2 DEF Restart
<1>3. CASE UNCHANGED vars
    BY <1>3 DEF vars
<1>4. QED
    BY <1>1, <1>2, <1>3, FileHandler, FileCompose DEF Next

------------------------------------------------------------------------------
(* Only Lookup and StatementFails make an opener, and only Create uses one *)
(* up.                                                                     *)
LEMMA NoNewOpener ==
    ASSUME LeadsAndOpeners,
           \A t \in Threads : /\ LeadsOf(t)' = LeadsOf(t)
                              /\ Openers(t)' \subseteq Openers(t),
           blind \subseteq blind'
    PROVE  LeadsAndOpeners'
<1> SUFFICES ASSUME NEW t \in Threads, Clear(t)'
             PROVE  Cardinality(LeadsOf(t)') + Cardinality(Openers(t)')
                        <= Cardinality(Handlers)
    BY DEF LeadsAndOpeners
<1>1. Clear(t)
    BY DEF Clear
<1>2. Cardinality(LeadsOf(t)) + Cardinality(Openers(t)) <= Cardinality(Handlers)
    BY <1>1 DEF LeadsAndOpeners
<1>3. Cardinality(Openers(t)') \in Nat /\ Cardinality(Openers(t)') <= Cardinality(Openers(t))
    BY Sizes, FS_Subset, FS_CardinalityType
<1>4. LeadsOf(t)' = LeadsOf(t)
    OBVIOUS
<1>5. QED
    BY <1>2, <1>3, <1>4, Sizes

LEMMA OpenersHandler ==
    ASSUME TypeOK, TypeOK', LeadsAndOpeners, NEW h \in Handlers, HandlerStep(h)
    PROVE  LeadsAndOpeners'
<1> USE DEF TypeOK, storeVars, composeVars, historyVars, GoTo, Found, Done
<1>1. CASE Lookup(h)
    <2> SUFFICES ASSUME NEW t \in Threads, Clear(t)'
                 PROVE  Cardinality(LeadsOf(t)') + Cardinality(Openers(t)')
                            <= Cardinality(Handlers)
        BY DEF LeadsAndOpeners
    <2>1. Clear(t) /\ LeadsOf(t)' = LeadsOf(t)
        BY <1>1 DEF Lookup, Clear, LeadsOf
    <2>2. CASE Openers(t)' \subseteq Openers(t)
        <3>1. Cardinality(LeadsOf(t)) + Cardinality(Openers(t)) <= Cardinality(Handlers)
            BY <2>1 DEF LeadsAndOpeners
        <3>2. /\ Cardinality(Openers(t)') \in Nat
              /\ Cardinality(Openers(t)') <= Cardinality(Openers(t))
            BY <2>2, Sizes, FS_Subset, FS_CardinalityType
        <3>3. QED
            BY <2>1, <3>1, <3>2, Sizes
    <2>3. CASE ~ (Openers(t)' \subseteq Openers(t))
        <3>1. LeadsOf(t) = {}
            BY <1>1, <2>3 DEF Lookup, Openers, LeadsOf
        <3>2. Openers(t)' \subseteq Handlers
            BY DEF Openers
        <3>3. /\ Cardinality(Openers(t)') \in Nat
              /\ Cardinality(Openers(t)') <= Cardinality(Handlers)
            BY <3>2, FiniteAssumption, FS_Subset, FS_CardinalityType
        <3>4. QED
            BY <2>1, <3>1, <3>3, Sizes, FS_EmptySet
    <2>4. QED
        BY <2>2, <2>3
<1>2. CASE StatementFails(h)
    <2> SUFFICES ASSUME NEW t \in Threads, Clear(t)'
                 PROVE  Cardinality(LeadsOf(t)') + Cardinality(Openers(t)')
                            <= Cardinality(Handlers)
        BY DEF LeadsAndOpeners
    <2>1. Clear(t) /\ LeadsOf(t)' = LeadsOf(t)
        BY <1>2 DEF StatementFails, Clear, LeadsOf
    <2>2. Thread[mail[h]] # t
        BY <1>2 DEF StatementFails, Clear
    <2>3. Openers(t)' \subseteq Openers(t)
        BY <1>2, <2>2 DEF StatementFails, Openers
    <2>4. Cardinality(LeadsOf(t)) + Cardinality(Openers(t)) <= Cardinality(Handlers)
        BY <2>1 DEF LeadsAndOpeners
    <2>5. /\ Cardinality(Openers(t)') \in Nat
          /\ Cardinality(Openers(t)') <= Cardinality(Openers(t))
        BY <2>3, Sizes, FS_Subset, FS_CardinalityType
    <2>6. QED
        BY <2>1, <2>4, <2>5, Sizes
<1>3. CASE Create(h)
    <2>1. PICK l \in Leads \ Composed :
              /\ thread[l] = Unused
              /\ thread' = [thread EXCEPT ![l] = Thread[mail[h]]]
        BY <1>3 DEF Create
    <2> SUFFICES ASSUME NEW t \in Threads, Clear(t)'
                 PROVE  Cardinality(LeadsOf(t)') + Cardinality(Openers(t)')
                            <= Cardinality(Handlers)
        BY DEF LeadsAndOpeners
    <2>2. Clear(t)
        BY <1>3 DEF Create, Clear
    <2>3. Cardinality(LeadsOf(t)) + Cardinality(Openers(t)) <= Cardinality(Handlers)
        BY <2>2 DEF LeadsAndOpeners
    <2>4. Openers(t)' = Openers(t) \ {h}
        BY <1>3 DEF Create, Openers
    <2>5. CASE Thread[mail[h]] = t
        <3>1. LeadsOf(t)' = LeadsOf(t) \cup {l} /\ l \notin LeadsOf(t)
            BY <2>1, <2>5, Distinct DEF LeadsOf
        <3>2. h \in Openers(t)
            BY <1>3, <2>5 DEF Create, Openers
        <3>3. Cardinality(LeadsOf(t)') = Cardinality(LeadsOf(t)) + 1
            <4>1. Cardinality(LeadsOf(t) \cup {l}) = Cardinality(LeadsOf(t)) + 1
                BY <3>1, Sizes, FS_AddElement
            <4>2. QED
                BY <3>1, <4>1
        <3>4. Cardinality(Openers(t)') = Cardinality(Openers(t)) - 1
            <4>1. Cardinality(Openers(t) \ {h}) = Cardinality(Openers(t)) - 1
                BY <3>2, Sizes, FS_RemoveElement
            <4>2. QED
                BY <2>4, <4>1
        <3>5. QED
            BY <2>3, <3>3, <3>4, Sizes
    <2>6. CASE Thread[mail[h]] # t
        <3>1. LeadsOf(t)' = LeadsOf(t)
            BY <2>1, <2>6, Distinct DEF LeadsOf
        <3>2. Openers(t)' = Openers(t)
            BY <2>4, <2>6 DEF Openers
        <3>3. QED
            BY <2>3, <3>1, <3>2
    <2>7. QED
        BY <2>5, <2>6
<1>4. ASSUME ~ Lookup(h), ~ StatementFails(h), ~ Create(h) PROVE LeadsAndOpeners'
    <2>1. thread' = thread /\ blind' = blind
        BY <1>4 DEF HandlerStep, Deliver, Hear, CloseLead, Resolve, FileReply, Bump, Drop,
                    Admit, CreateFails, Seed, Notify, NotifyNobody
    <2>2. \A g \in Handlers : step'[g] \in {"screen", "create"} =>
              step[g] \in {"screen", "create"} /\ mail'[g] = mail[g]
        <3> SUFFICES ASSUME NEW g \in Handlers, step'[g] \in {"screen", "create"}
                     PROVE  step[g] \in {"screen", "create"} /\ mail'[g] = mail[g]
            OBVIOUS
        <3>1. ASSUME NEW m \in Mails, Deliver(h, m)
              PROVE  step[g] \in {"screen", "create"} /\ mail'[g] = mail[g]
            BY <3>1 DEF Deliver
        <3>2. CASE Hear(h) \/ CloseLead(h) \/ Resolve(h) \/ FileReply(h)
            BY <3>2 DEF Hear, CloseLead, Resolve, FileReply
        <3>3. CASE Bump(h) \/ Drop(h) \/ Admit(h) \/ CreateFails(h) \/ Seed(h)
            BY <3>3 DEF Bump, Drop, Admit, CreateFails, Seed
        <3>4. CASE Notify(h) \/ NotifyNobody(h)
            BY <3>4 DEF Notify, NotifyNobody
        <3>5. QED
            BY <1>4, <3>1, <3>2, <3>3, <3>4 DEF HandlerStep
    <2>3. \A t \in Threads : LeadsOf(t)' = LeadsOf(t) /\ Openers(t)' \subseteq Openers(t)
        BY <2>1, <2>2 DEF LeadsOf, Openers
    <2>4. QED
        BY <2>1, <2>3, NoNewOpener
<1>5. QED
    BY <1>1, <1>2, <1>3, <1>4

LEMMA OpenersNext ==
    TypeOK /\ TypeOK' /\ ReplyInv /\ LeadsAndOpeners /\ [Next]_vars => LeadsAndOpeners'
<1> SUFFICES ASSUME TypeOK, TypeOK', ReplyInv, LeadsAndOpeners, [Next]_vars
             PROVE  LeadsAndOpeners'
    OBVIOUS
<1>1. ASSUME NEW l \in Composed, ComposeStep(l) PROVE LeadsAndOpeners'
    <2>1. /\ UNCHANGED <<step, mail, blind>>
          /\ \A k \in Leads : thread'[k] = thread[k]
                                \/ (thread[k] = Unused /\ thread'[k] = Synthetic)
        BY <1>1, ComposedAssumption
        DEF ComposeStep, ComposeLead, TrackComposed, PublishComposed, RefuseComposed,
            AppendComposed, storeVars, handlerVars, historyVars, TypeOK, ReplyInv, ComposeOrder
    <2>2. \A t \in Threads : LeadsOf(t)' = LeadsOf(t) /\ Openers(t)' = Openers(t)
        BY <2>1, Distinct DEF LeadsOf, Openers
    <2>3. QED
        BY <2>1, <2>2, NoNewOpener
<1>2. CASE NextMinute \/ Restart \/ UNCHANGED vars
    <2>1. thread' = thread /\ blind' = blind
        BY <1>2 DEF NextMinute, Restart, vars, storeVars, historyVars
    <2>2. \A t \in Threads : LeadsOf(t)' = LeadsOf(t) /\ Openers(t)' \subseteq Openers(t)
        BY <1>2, <2>1 DEF NextMinute, Restart, vars, handlerVars, LeadsOf, Openers
    <2>3. QED
        BY <2>1, <2>2, NoNewOpener
<1>3. QED
    BY <1>1, <1>2, OpenersHandler DEF Next

------------------------------------------------------------------------------
LEMMA InboundInvHolds == Spec => []InboundInv
<1>1. InboundInv /\ [Next]_vars => InboundInv'
    BY TypeNext, ReplyNext, FileNext, OpenersNext DEF InboundInv
<1>2. QED
    BY InInit, <1>1, PTL DEF Spec

(* Type correctness of store, handlers and compose requests.               *)
THEOREM InboundTypeCorrect == Spec => []TypeOK
    BY InboundInvHolds, PTL DEF InboundInv

(* A thread gets no more leads than events can be in flight at once.       *)
THEOREM SiblingsBounded == Spec => []SiblingsNeedOverlap
<1>1. InboundInv => SiblingsNeedOverlap
    <2> SUFFICES ASSUME LeadsAndOpeners, NEW t \in Threads, Clear(t)
                 PROVE  Cardinality(LeadsOf(t)) <= Cardinality(Handlers)
        BY DEF InboundInv, SiblingsNeedOverlap, Clear
    <2>1. Cardinality(LeadsOf(t)) + Cardinality(Openers(t)) <= Cardinality(Handlers)
        BY DEF LeadsAndOpeners
    <2>2. QED
        BY <2>1, Sizes
<1>2. QED
    BY <1>1, InboundInvHolds, PTL

(* No reply opens a sibling of the lead whose recorded mail it answers.    *)
THEOREM RepliesFound == Spec => []RepliesThreadBack
    BY InboundInvHolds, PTL DEF InboundInv, ReplyInv

(* No mail is filed under a lead of another conversation.                  *)
THEOREM FiledRight == Spec => []FiledWhereItBelongs
    BY InboundInvHolds, PTL DEF InboundInv, FileInv

==============================================================================
