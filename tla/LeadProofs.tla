------------------------------ MODULE LeadProofs ------------------------------
(* Theorems about the life of a lead: LeadLifecycle for any number of        *)
(* requests, drafts and goals, with requests stopping half way or not; the   *)
(* follow-up sweep; and DraftApproval for any number of approvals,           *)
(* transition requests, drafts and restarts.                                 *)
EXTENDS DraftApproval, FollowUp, TLAPS

(* Every state the lead has been in, other than the first, was one legal   *)
(* move away from one it had been in before.                               *)
VisitedIsReachable ==
    /\ state \in visited
    /\ \A to \in visited : to = "cold" \/ \E from \in visited : Allows(from, to)

(* What a request about to write has checked: its move was legal from a    *)
(* state the lead had at that moment.                                      *)
WritersHaveValidated ==
    \A r \in Requests :
        pc[r] = "write" => \E from \in visited : Allows(from, goal[r])

(* The closing move's duty is a set of existing rows: none of them can     *)
(* become pending again.                                                   *)
DutiesExist ==
    \A r \in Requests : \A d \in duty[r] : drafts[d] # "none"

LifecycleInv ==
    /\ TypeOK
    /\ VisitedIsReachable
    /\ WritersHaveValidated
    /\ DutiesExist
    /\ ClosingSweepsDrafts

------------------------------------------------------------------------------
(* The legal moves, seen from the two states the funnel is about           *)
(* (LegalTransitions::allows).                                             *)
LEMMA FunnelMoves ==
    ASSUME NEW from \in LeadStates, NEW to \in LeadStates, Allows(from, to)
    PROVE  /\ to # "cold"
           /\ to = "qualified" => from = "meeting_scheduled"
           /\ to = "meeting_scheduled" => from = "engaged"
    BY DEF Allows, Legal, Forward, Backward, Drop, LeadStates

(* Where the lead has been determines that the funnel was not skipped.     *)
LEMMA ReachableFunnel == TypeOK /\ VisitedIsReachable => FunnelNotSkipped
    BY FunnelMoves DEF TypeOK, VisitedIsReachable, FunnelNotSkipped

LEMMA InitInv == Init => LifecycleInv
<1> SUFFICES ASSUME Init PROVE LifecycleInv
    OBVIOUS
<1>1. TypeOK
    BY DEF Init, TypeOK, LeadStates, RowStatus, Steps
<1>2. VisitedIsReachable
    BY DEF Init, VisitedIsReachable
<1>3. WritersHaveValidated /\ DutiesExist /\ ClosingSweepsDrafts
    BY DEF Init, WritersHaveValidated, DutiesExist, ClosingSweepsDrafts
<1>4. QED
    BY <1>1, <1>2, <1>3 DEF LifecycleInv

(* One request's own step preserves the invariant.                         *)
LEMMA TransitionInv ==
    ASSUME LifecycleInv, NEW r \in Requests, TransitionStep(r)
    PROVE  LifecycleInv'
<1> USE DEF LifecycleInv, TypeOK, VisitedIsReachable, WritersHaveValidated, DutiesExist,
            ClosingSweepsDrafts, Pending
<1>1. ASSUME NEW to \in Goals, BeginTransition(r, to) PROVE LifecycleInv'
    BY <1>1, GoalsAssumption DEF BeginTransition, leadVars, Steps
<1>2. CASE Validate(r)
    BY <1>2 DEF Validate, leadVars, Steps
<1>3. CASE RefuseIllegal(r)
    BY <1>3 DEF RefuseIllegal, Finish, leadVars, Steps, LeadStates
<1>4. CASE WriteState(r)
    BY <1>4 DEF WriteState, Steps, Terminal
<1>5. CASE SweepDrafts(r)
    BY <1>5 DEF SweepDrafts, Steps, RowStatus, DraftStatus
<1>6. CASE Disarm(r)
    BY <1>6 DEF Disarm, Steps
<1>7. CASE Report(r)
    BY <1>7 DEF Report, Finish, leadVars, Steps, LeadStates
<1>8. CASE Abort(r)
    BY <1>8 DEF Abort, Finish, leadVars, Steps, LeadStates
<1>9. QED
    BY <1>1, <1>2, <1>3, <1>4, <1>5, <1>6, <1>7, <1>8 DEF TransitionStep

(* So does an operation that writes the store with one statement.          *)
LEMMA StoreInv == LifecycleInv /\ StoreStep => LifecycleInv'
<1> SUFFICES ASSUME LifecycleInv, StoreStep PROVE LifecycleInv'
    OBVIOUS
<1> USE DEF LifecycleInv, TypeOK, VisitedIsReachable, WritersHaveValidated, DutiesExist,
            ClosingSweepsDrafts, Pending, requestVars, RowStatus, DraftStatus
<1>1. ASSUME NEW d \in Drafts, CreateDraft(d) PROVE LifecycleInv'
    BY <1>1 DEF CreateDraft
<1>2. ASSUME NEW d \in Drafts, RejectDraft(d) PROVE LifecycleInv'
    BY <1>2 DEF RejectDraft, SettleDraft
<1>3. ASSUME NEW d \in Drafts, DeleteDraft(d) PROVE LifecycleInv'
    BY <1>3 DEF DeleteDraft
<1>4. ASSUME NEW on \in BOOLEAN, SetNextCheck(on) PROVE LifecycleInv'
    BY <1>4 DEF SetNextCheck
<1>5. QED
    BY <1>1, <1>2, <1>3, <1>4 DEF StoreStep

LEMMA ApproveInv ==
    ASSUME LifecycleInv, NEW d \in Drafts, ApproveDraft(d)
    PROVE  LifecycleInv'
    BY DEF ApproveDraft, SettleDraft, LifecycleInv, TypeOK, VisitedIsReachable,
           WritersHaveValidated, DutiesExist, ClosingSweepsDrafts, Pending, requestVars,
           RowStatus, DraftStatus

LEMMA RestartInv == LifecycleInv /\ Restart => LifecycleInv'
    BY DEF LifecycleInv, TypeOK, VisitedIsReachable, WritersHaveValidated, DutiesExist,
           ClosingSweepsDrafts, Pending, Restart, leadVars, Steps, LeadStates

LEMMA StutterInv == LifecycleInv /\ UNCHANGED lifecycleVars => LifecycleInv'
    BY DEF LifecycleInv, TypeOK, VisitedIsReachable, WritersHaveValidated, DutiesExist,
           ClosingSweepsDrafts, Pending, lifecycleVars, leadVars, requestVars

LEMMA NextInv == LifecycleInv /\ [Next]_lifecycleVars => LifecycleInv'
    BY TransitionInv, StoreInv, ApproveInv, RestartInv, StutterInv DEF Next, LifecycleStep

LEMMA InvHolds == Spec => []LifecycleInv
    BY InitInv, NextInv, PTL DEF Spec

------------------------------------------------------------------------------
(* Type correctness of the lead row, its drafts and its requests.          *)
THEOREM TypeCorrect == Spec => []TypeOK
    BY InvHolds, PTL DEF LifecycleInv

(* No interleaving of transition requests skips a stage of the funnel.     *)
THEOREM FunnelKept == Spec => []FunnelNotSkipped
<1>1. LifecycleInv => FunnelNotSkipped
    BY ReachableFunnel DEF LifecycleInv
<1>2. QED
    BY <1>1, InvHolds, PTL

(* A closing move that got past its sweep left no draft it found pending.  *)
THEOREM ClosingSweeps == Spec => []ClosingSweepsDrafts
    BY InvHolds, PTL DEF LifecycleInv

(* An approved or rejected draft keeps its status until it is deleted.     *)
THEOREM SettledStay == Spec => SettledDraftsStay
<1>1. TypeOK /\ [Next]_lifecycleVars =>
          \A d \in Drafts : drafts[d] \in {"approved", "rejected", "deleted"}
                               => drafts'[d] \in {drafts[d], "deleted"}
    <2> SUFFICES ASSUME TypeOK, [Next]_lifecycleVars, NEW d \in Drafts,
                        drafts[d] \in {"approved", "rejected", "deleted"}
                 PROVE  drafts'[d] \in {drafts[d], "deleted"}
        OBVIOUS
    <2>1. CASE StoreStep
        BY <2>1 DEF StoreStep, CreateDraft, RejectDraft, SettleDraft, DeleteDraft,
                    SetNextCheck, TypeOK
    <2>2. ASSUME NEW r \in Requests, TransitionStep(r) PROVE drafts'[d] \in {drafts[d]}
        BY <2>2 DEF TransitionStep, BeginTransition, Validate, RefuseIllegal, WriteState,
                    SweepDrafts, Disarm, Report, Abort, leadVars, Pending, TypeOK
    <2>3. CASE Restart
        BY <2>3 DEF Restart, leadVars
    <2>4. CASE UNCHANGED lifecycleVars
        BY <2>4 DEF lifecycleVars, leadVars
    <2>5. ASSUME NEW e \in Drafts, ApproveDraft(e) PROVE drafts'[d] = drafts[d]
        BY <2>5 DEF ApproveDraft, SettleDraft, TypeOK
    <2>6. QED
        BY <2>1, <2>2, <2>3, <2>4, <2>5 DEF Next, LifecycleStep
<1>2. QED
    BY <1>1, TypeCorrect, PTL DEF Spec, SettledDraftsStay

(* The state column implements LeadMachine.                                *)
THEOREM MachineImplemented == Spec => ImplementsMachine
<1>1. Init => Machine!MachineInit
    BY DEF Init, Machine!MachineInit
<1>2. LifecycleInv /\ [Next]_lifecycleVars => [Machine!MachineNext]_<<state, visited>>
    <2> SUFFICES ASSUME LifecycleInv, [Next]_lifecycleVars
                 PROVE  [Machine!MachineNext]_<<state, visited>>
        OBVIOUS
    <2>1. ASSUME NEW r \in Requests, WriteState(r) PROVE Machine!MachineNext
        <3>1. PICK from \in visited : Allows(from, goal[r])
            BY <2>1 DEF WriteState, LifecycleInv, WritersHaveValidated
        <3>2. from \in LeadStates /\ goal[r] \in LeadStates
            BY <3>1 DEF LifecycleInv, TypeOK
        <3>3. Machine!Move(from, goal[r])
            BY <2>1, <3>1 DEF WriteState, Machine!Move, Machine!Allows, Allows,
               Machine!Legal, Legal, Machine!Forward, Forward, Machine!Backward, Backward,
               Machine!Drop, Drop, Machine!LeadStates, LeadStates
        <3>4. QED
            BY <3>2, <3>3 DEF Machine!MachineNext, Machine!LeadStates, LeadStates
    <2>2. ASSUME NEW r \in Requests, TransitionStep(r), ~ WriteState(r)
          PROVE UNCHANGED <<state, visited>>
        BY <2>2 DEF TransitionStep, BeginTransition, Validate, RefuseIllegal,
                    SweepDrafts, Disarm, Report, Abort, leadVars
    <2>3. CASE StoreStep
        BY <2>3 DEF StoreStep, CreateDraft, RejectDraft, SettleDraft, DeleteDraft, SetNextCheck
    <2>4. CASE Restart
        BY <2>4 DEF Restart, leadVars
    <2>5. CASE UNCHANGED lifecycleVars
        BY <2>5 DEF lifecycleVars, leadVars
    <2>6. ASSUME NEW d \in Drafts, ApproveDraft(d) PROVE UNCHANGED <<state, visited>>
        BY <2>6 DEF ApproveDraft, SettleDraft
    <2>7. QED
        BY <2>1, <2>2, <2>3, <2>4, <2>5, <2>6 DEF Next, LifecycleStep
<1>3. QED
    BY <1>1, <1>2, InvHolds, PTL
    DEF Spec, ImplementsMachine, Machine!MachineSpec, Machine!machineVars

------------------------------------------------------------------------------
(* One request at a time: what the code's comments take for granted.       *)
OneAtATime == \A q, r \in Requests : q = r

(* A lone request writes on top of the state it read: nobody else moves    *)
(* the lead in between.                                                    *)
SerialInv ==
    /\ ~ misreported
    /\ \A r \in Requests :
          /\ pc[r] \in {"read", "write"} => before[r] = state
          /\ pc[r] = "write" => Allows(state, goal[r])
          /\ pc[r] \in {"sweep", "disarm", "report"} => Allows(before[r], goal[r])

LEMMA SerialNext ==
    ASSUME OneAtATime, TypeOK, SerialInv, [Next]_lifecycleVars
    PROVE  SerialInv'
<1> USE DEF SerialInv, TypeOK
<1>1. ASSUME NEW r \in Requests, TransitionStep(r) PROVE SerialInv'
    <2> USE DEF OneAtATime
    <2>1. ASSUME NEW to \in Goals, BeginTransition(r, to) PROVE SerialInv'
        BY <2>1 DEF BeginTransition, leadVars
    <2>2. CASE Validate(r)
        BY <2>2 DEF Validate, leadVars
    <2>3. CASE RefuseIllegal(r) \/ Abort(r)
        BY <2>3 DEF RefuseIllegal, Abort, Finish, leadVars
    <2>4. CASE WriteState(r)
        BY <2>4 DEF WriteState
    <2>5. CASE SweepDrafts(r) \/ Disarm(r)
        BY <2>5 DEF SweepDrafts, Disarm
    <2>6. CASE Report(r)
        BY <2>6 DEF Report, Finish, leadVars
    <2>7. QED
        BY <1>1, <2>1, <2>2, <2>3, <2>4, <2>5, <2>6 DEF TransitionStep
<1>2. CASE StoreStep
    BY <1>2 DEF StoreStep, CreateDraft, RejectDraft, SettleDraft, DeleteDraft, SetNextCheck, requestVars
<1>3. CASE Restart
    BY <1>3 DEF Restart
<1>4. CASE UNCHANGED lifecycleVars
    BY <1>4 DEF lifecycleVars, leadVars, requestVars
<1>5. ASSUME NEW d \in Drafts, ApproveDraft(d) PROVE SerialInv'
    BY <1>5 DEF ApproveDraft, SettleDraft, requestVars
<1>6. QED
    BY <1>1, <1>2, <1>3, <1>4, <1>5 DEF Next, LifecycleStep

LEMMA SerialInvHolds ==
    ASSUME OneAtATime
    PROVE  Spec => []SerialInv
<1>1. Init => SerialInv
    BY DEF Init, SerialInv
<1>2. TypeOK /\ SerialInv /\ [Next]_lifecycleVars => SerialInv'
    BY SerialNext
<1>3. QED
    BY <1>1, <1>2, TypeCorrect, PTL DEF Spec

(* Without overlap a lost lead never re-opens (state.rs).                  *)
THEOREM SerialLostIsTerminal ==
    ASSUME OneAtATime
    PROVE  Spec => LostIsTerminal
<1>1. TypeOK /\ SerialInv /\ [Next]_lifecycleVars => (state = "lost" => state' = "lost")
    <2> SUFFICES ASSUME TypeOK, SerialInv, [Next]_lifecycleVars, state = "lost"
                 PROVE  state' = "lost"
        OBVIOUS
    <2>1. ASSUME NEW r \in Requests, WriteState(r) PROVE FALSE
        BY <2>1 DEF WriteState, SerialInv, Allows, Legal, Forward, Backward, Drop
    <2>2. QED
        BY <2>1 DEF Next, LifecycleStep, TransitionStep, BeginTransition, Validate,
            RefuseIllegal, SweepDrafts, Disarm, Report, Abort, StoreStep, CreateDraft,
            RejectDraft, ApproveDraft, SettleDraft, DeleteDraft, SetNextCheck, Restart,
            lifecycleVars, leadVars
<1>2. QED
    BY <1>1, TypeCorrect, SerialInvHolds, PTL DEF Spec, LostIsTerminal

(* Without overlap every audited `from -> to` is a legal move.             *)
THEOREM SerialReportsAreLegal ==
    ASSUME OneAtATime
    PROVE  Spec => []ReportsAreLegalMoves
<1>1. SerialInv => ReportsAreLegalMoves
    BY DEF SerialInv, ReportsAreLegalMoves
<1>2. QED
    BY <1>1, SerialInvHolds, PTL

------------------------------------------------------------------------------
(* The jitter of set_next_check_with_jitter moves a deadline by half of the *)
(* window at most, never out of an i64, and a window of 0 not at all.       *)
THEOREM JitterStaysInWindow ==
    ASSUME NEW asked \in Times, NEW window \in Nat, NEW stored \in Jittered(asked, window)
    PROVE  /\ stored \in Times
           /\ asked - (window \div 2) <= stored /\ stored <= asked + (window \div 2)
           /\ window = 0 => stored = asked
<1> DEFINE half == window \div 2
<1>1. half \in Nat /\ (window = 0 => half = 0)
    OBVIOUS
<1>2. Latest \in Nat /\ Earliest \in Int /\ asked \in Int /\ Earliest <= asked /\ asked <= Latest
    BY LatestAssumption DEF Earliest, Times
<1>3. PICK offset \in -half .. half : stored = Saturated(asked + offset)
    BY DEF Jittered
<1> HIDE DEF half
<1>4. /\ stored \in Times
      /\ asked - half <= stored /\ stored <= asked + half
      /\ half = 0 => stored = asked
    BY <1>1, <1>2, <1>3 DEF Saturated, Times, Earliest
<1>5. QED
    BY <1>1, <1>4 DEF half

(* A sweep that leaves due leads for later says so and asks to be called    *)
(* soon, and what it leaves is due no earlier than what it returned.        *)
THEOREM BacklogIsSeen ==
    ASSUME NEW deadline,
           NEW now \in Int, NEW limit \in Nat, NEW page \in Pages(deadline, now, limit),
           NEW left \in DueAt(deadline, now) \ page
    PROVE  /\ NextTickHint(deadline, now, limit) = 30000
           /\ Cardinality(page) = limit
           /\ \A l \in page : deadline[l] <= deadline[left]
<1>1. MoreDue(deadline, now, limit)
    BY DEF Pages
<1>2. QED
    BY <1>1 DEF Pages, NextTickHint

-------------------------------------------------------------------------------
(* DraftApproval.                                                            *)
Holders == {"gate", "publish", "flip", "append"}

(* An approval past the publisher holds its draft's reservation, alone.    *)
HoldersReserve ==
    /\ \A a \in Approvals : apc[a] \in Holders => aim[a] \in dispatched
    /\ \A a, b \in Approvals :
           apc[a] \in Holders /\ apc[b] \in Holders /\ aim[a] = aim[b] => a = b

(* What this run has sent is reserved; a holder that has not published yet *)
(* is the first to, and one that has published shows in the ledger.        *)
SentIsReserved ==
    /\ sentNow \subseteq dispatched
    /\ \A a \in Approvals : /\ apc[a] \in {"gate", "publish"} => aim[a] \notin sentNow
                            /\ apc[a] \in {"flip", "append"} => aim[a] \in sentNow

(* A draft once approved is out of the approver's reach: its row is        *)
(* settled, and an approval that read it before that can only be of the    *)
(* run that sent it.                                                       *)
ApprovedIsSettled ==
    /\ \A d \in Drafts : drafts[d] = "approved" => d \in everApproved
    /\ \A d \in everApproved : drafts[d] \notin {"none", "pending"}
    /\ \A a \in Approvals : aim[a] \in everApproved => aim[a] \in sentNow

Owed(d) == IF \E a \in Approvals : apc[a] \in {"flip", "append"} /\ aim[a] = d
           THEN 1 ELSE 0

(* The counters: an outbound row is owed by the approval that published.   *)
Accounts ==
    /\ \A d \in Drafts : sent[d] <= restarts + (IF d \in sentNow THEN 1 ELSE 0)
    /\ \A d \in sentNow \cup everApproved : sent[d] > 0
    /\ \A d \in Drafts : outbound[d] + Owed(d) <= sent[d]

ApprovalInv ==
    /\ LifecycleInv
    /\ ApprovalTypeOK
    /\ HoldersReserve
    /\ SentIsReserved
    /\ ApprovedIsSettled
    /\ Accounts

------------------------------------------------------------------------------
LEMMA AInitInv == AInit => ApprovalInv
<1> SUFFICES ASSUME AInit PROVE ApprovalInv
    OBVIOUS
<1>1. LifecycleInv
    BY InitInv DEF AInit
<1>2. ApprovalTypeOK
    BY <1>1, NoDraftAssumption, MaxRestartsAssumption
    DEF AInit, ApprovalTypeOK, LifecycleInv, ApprovalSteps
<1>3. HoldersReserve /\ SentIsReserved
    BY DEF AInit, HoldersReserve, SentIsReserved, Holders
<1>4. ApprovedIsSettled
    BY DEF AInit, Init, ApprovedIsSettled
<1>5. Accounts
    BY DEF AInit, Accounts, Owed
<1>6. QED
    BY <1>1, <1>2, <1>3, <1>4, <1>5 DEF ApprovalInv

(* A step that leaves the lead and its requests alone keeps LifecycleInv.  *)
LEMMA LifecycleUntouched ==
    LifecycleInv /\ UNCHANGED lifecycleVars => LifecycleInv'
    BY StutterInv

(* The lead's other requests never make a draft that was approved pending  *)
(* again, and never approve one.                                           *)
LEMMA LifecycleStepDrafts ==
    ASSUME TypeOK, LifecycleStep, NEW d \in Drafts
    PROVE  /\ drafts[d] \notin {"none", "pending"} => drafts'[d] \notin {"none", "pending"}
           /\ drafts'[d] = "approved" => drafts[d] = "approved"
<1>1. CASE StoreStep
    BY <1>1 DEF StoreStep, CreateDraft, RejectDraft, SettleDraft, DeleteDraft, SetNextCheck, TypeOK,
                DraftStatus
<1>2. ASSUME NEW r \in Requests, TransitionStep(r)
      PROVE  drafts'[d] = drafts[d] \/ (drafts[d] = "pending" /\ drafts'[d] = "rejected")
    BY <1>2 DEF TransitionStep, BeginTransition, Validate, RefuseIllegal, WriteState,
                SweepDrafts, Disarm, Report, Abort, leadVars, Pending, TypeOK
<1>3. QED
    BY <1>1, <1>2 DEF LifecycleStep

LEMMA LifecycleStepInv ==
    ASSUME ApprovalInv, LifecycleStep, UNCHANGED approvalVars
    PROVE  ApprovalInv'
<1>1. LifecycleInv'
    BY TransitionInv, StoreInv DEF ApprovalInv, LifecycleStep
<1>2. ApprovalTypeOK'
    BY <1>1 DEF ApprovalInv, ApprovalTypeOK, LifecycleInv, approvalVars, historyVars
<1>3. HoldersReserve' /\ SentIsReserved'
    BY DEF ApprovalInv, HoldersReserve, SentIsReserved, approvalVars, historyVars
<1>4. ApprovedIsSettled'
    BY LifecycleStepDrafts
    DEF ApprovalInv, ApprovedIsSettled, ApprovalTypeOK, approvalVars, historyVars
<1>5. Accounts'
    BY DEF ApprovalInv, Accounts, Owed, approvalVars, historyVars
<1>6. QED
    BY <1>1, <1>2, <1>3, <1>4, <1>5 DEF ApprovalInv

------------------------------------------------------------------------------
(* Steps of an approve request.                                            *)

LEMMA StartInv ==
    ASSUME ApprovalInv, NEW a \in Approvals, NEW d \in Drafts, StartApproval(a, d)
    PROVE  ApprovalInv'
<1> USE DEF StartApproval, historyVars
<1>1. LifecycleInv'
    BY LifecycleUntouched DEF ApprovalInv
<1>2. ApprovalTypeOK'
    BY <1>1, NoDraftAssumption DEF ApprovalInv, ApprovalTypeOK, LifecycleInv, ApprovalSteps
<1>3. HoldersReserve' /\ SentIsReserved'
    BY DEF ApprovalInv, ApprovalTypeOK, HoldersReserve, SentIsReserved, Holders
<1>4. ApprovedIsSettled'
    BY DEF ApprovalInv, ApprovalTypeOK, ApprovedIsSettled, lifecycleVars, leadVars
<1>5. Accounts'
    BY DEF ApprovalInv, ApprovalTypeOK, Accounts, Owed
<1>6. QED
    BY <1>1, <1>2, <1>3, <1>4, <1>5 DEF ApprovalInv

\* An approval answering its caller gives up no reservation.
LEMMA LeaveInv ==
    ASSUME ApprovalInv, NEW a \in Approvals, Leave(a),
           UNCHANGED <<lifecycleVars, dispatched, sent, outbound, restarts, historyVars>>,
           tracked' \subseteq Drafts
    PROVE  ApprovalInv'
<1> USE DEF Leave, historyVars
<1>1. LifecycleInv'
    BY LifecycleUntouched DEF ApprovalInv
<1>2. ApprovalTypeOK'
    BY <1>1, NoDraftAssumption DEF ApprovalInv, ApprovalTypeOK, LifecycleInv, ApprovalSteps
<1>3. HoldersReserve' /\ SentIsReserved'
    BY DEF ApprovalInv, ApprovalTypeOK, HoldersReserve, SentIsReserved, Holders
<1>4. ApprovedIsSettled'
    BY NoDraftAssumption
    DEF ApprovalInv, ApprovalTypeOK, ApprovedIsSettled, lifecycleVars, leadVars
<1>5. Accounts'
    BY DEF ApprovalInv, ApprovalTypeOK, Accounts, Owed
<1>6. QED
    BY <1>1, <1>2, <1>3, <1>4, <1>5 DEF ApprovalInv

LEMMA TrackInv ==
    ASSUME ApprovalInv, NEW a \in Approvals, TrackMessageId(a)
    PROVE  ApprovalInv'
<1> USE DEF TrackMessageId, GoTo, historyVars
<1>1. LifecycleInv'
    BY LifecycleUntouched DEF ApprovalInv
<1>2. ApprovalTypeOK'
    BY <1>1 DEF ApprovalInv, ApprovalTypeOK, LifecycleInv, ApprovalSteps
<1>3. HoldersReserve' /\ SentIsReserved'
    BY DEF ApprovalInv, ApprovalTypeOK, HoldersReserve, SentIsReserved, Holders
<1>4. ApprovedIsSettled'
    BY DEF ApprovalInv, ApprovalTypeOK, ApprovedIsSettled, lifecycleVars, leadVars
<1>5. Accounts'
    BY DEF ApprovalInv, ApprovalTypeOK, Accounts, Owed
<1>6. QED
    BY <1>1, <1>2, <1>3, <1>4, <1>5 DEF ApprovalInv

LEMMA ReserveInv ==
    ASSUME ApprovalInv, NEW a \in Approvals, Reserve(a)
    PROVE  ApprovalInv'
<1> USE DEF Reserve, GoTo, historyVars
<1>1. LifecycleInv'
    BY LifecycleUntouched DEF ApprovalInv
<1>2. ApprovalTypeOK'
    BY <1>1 DEF ApprovalInv, ApprovalTypeOK, LifecycleInv, ApprovalSteps
<1>3. HoldersReserve' /\ SentIsReserved'
    BY DEF ApprovalInv, ApprovalTypeOK, HoldersReserve, SentIsReserved, Holders
<1>4. ApprovedIsSettled'
    BY DEF ApprovalInv, ApprovalTypeOK, ApprovedIsSettled, lifecycleVars, leadVars
<1>5. Accounts'
    BY DEF ApprovalInv, ApprovalTypeOK, Accounts, Owed
<1>6. QED
    BY <1>1, <1>2, <1>3, <1>4, <1>5 DEF ApprovalInv

LEMMA PassInv ==
    ASSUME ApprovalInv, NEW a \in Approvals, PassGate(a)
    PROVE  ApprovalInv'
<1> USE DEF PassGate, GoTo, historyVars
<1>1. LifecycleInv'
    BY LifecycleUntouched DEF ApprovalInv
<1>2. ApprovalTypeOK'
    BY <1>1 DEF ApprovalInv, ApprovalTypeOK, LifecycleInv, ApprovalSteps
<1>3. HoldersReserve' /\ SentIsReserved'
    BY DEF ApprovalInv, ApprovalTypeOK, HoldersReserve, SentIsReserved, Holders
<1>4. ApprovedIsSettled'
    BY DEF ApprovalInv, ApprovalTypeOK, ApprovedIsSettled, lifecycleVars, leadVars
<1>5. Accounts'
    BY DEF ApprovalInv, ApprovalTypeOK, Accounts, Owed
<1>6. QED
    BY <1>1, <1>2, <1>3, <1>4, <1>5 DEF ApprovalInv

\* The reservation given back stood for nothing sent, and nobody else's.
LEMMA BlockInv ==
    ASSUME ApprovalInv, NEW a \in Approvals, BlockedByGate(a)
    PROVE  ApprovalInv'
<1> USE DEF BlockedByGate, Leave, historyVars
<1>1. LifecycleInv'
    BY LifecycleUntouched DEF ApprovalInv
<1>2. ApprovalTypeOK'
    BY <1>1, NoDraftAssumption DEF ApprovalInv, ApprovalTypeOK, LifecycleInv, ApprovalSteps
<1>3. HoldersReserve' /\ SentIsReserved'
    BY DEF ApprovalInv, ApprovalTypeOK, HoldersReserve, SentIsReserved, Holders
<1>4. ApprovedIsSettled'
    BY NoDraftAssumption
    DEF ApprovalInv, ApprovalTypeOK, ApprovedIsSettled, lifecycleVars, leadVars
<1>5. Accounts'
    BY DEF ApprovalInv, ApprovalTypeOK, Accounts, Owed
<1>6. QED
    BY <1>1, <1>2, <1>3, <1>4, <1>5 DEF ApprovalInv

\* The holder publishes: the first time in this run, so its one copy is new.
LEMMA PublishInv ==
    ASSUME ApprovalInv, NEW a \in Approvals, Publish(a)
    PROVE  ApprovalInv'
<1> USE DEF Publish, GoTo
<1>0. aim[a] \in Drafts /\ aim[a] \notin sentNow /\ aim[a] \in dispatched
    BY DEF ApprovalInv, ApprovalTypeOK, SentIsReserved, HoldersReserve, Holders
<1>1. LifecycleInv'
    BY LifecycleUntouched DEF ApprovalInv
<1>2. ApprovalTypeOK'
    BY <1>0, <1>1 DEF ApprovalInv, ApprovalTypeOK, LifecycleInv, ApprovalSteps
<1>3. HoldersReserve' /\ SentIsReserved'
    BY <1>0 DEF ApprovalInv, ApprovalTypeOK, HoldersReserve, SentIsReserved, Holders
<1>4. ApprovedIsSettled'
    BY DEF ApprovalInv, ApprovalTypeOK, ApprovedIsSettled, lifecycleVars, leadVars
<1>5. Accounts'
    <2>1. Owed(aim[a])' = 1 /\ Owed(aim[a]) = 0
        BY <1>0 DEF ApprovalInv, ApprovalTypeOK, HoldersReserve, Holders, Owed
    <2>2. \A d \in Drafts \ {aim[a]} : Owed(d)' = Owed(d)
        BY DEF ApprovalInv, ApprovalTypeOK, Owed
    <2>3. QED
        BY <1>0, <2>1, <2>2 DEF ApprovalInv, ApprovalTypeOK, Accounts
<1>6. QED
    BY <1>1, <1>2, <1>3, <1>4, <1>5 DEF ApprovalInv

LEMMA FlipInv ==
    ASSUME ApprovalInv, NEW a \in Approvals, FlipStatus(a)
    PROVE  ApprovalInv'
<1> USE DEF FlipStatus, GoTo
<1>0. aim[a] \in Drafts /\ aim[a] \in sentNow /\ apc[a] = "flip"
    BY DEF ApprovalInv, ApprovalTypeOK, SentIsReserved
<1>1. LifecycleInv'
    BY <1>0
    DEF ApprovalInv, LifecycleInv, TypeOK, VisitedIsReachable, WritersHaveValidated,
        DutiesExist, ClosingSweepsDrafts, Pending, requestVars, RowStatus, DraftStatus
<1>2. ApprovalTypeOK'
    BY <1>0, <1>1 DEF ApprovalInv, ApprovalTypeOK, LifecycleInv, ApprovalSteps
<1>3. HoldersReserve' /\ SentIsReserved'
    BY DEF ApprovalInv, ApprovalTypeOK, HoldersReserve, SentIsReserved, Holders
<1>4. ApprovedIsSettled'
    BY <1>0 DEF ApprovalInv, ApprovalTypeOK, LifecycleInv, TypeOK, ApprovedIsSettled
<1>5. Accounts'
    <2>1. \A d \in Drafts : Owed(d)' = Owed(d)
        BY <1>0 DEF ApprovalInv, ApprovalTypeOK, Owed
    <2>2. QED
        BY <1>0, <2>1 DEF ApprovalInv, ApprovalTypeOK, Accounts
<1>6. QED
    BY <1>1, <1>2, <1>3, <1>4, <1>5 DEF ApprovalInv

\* The row appended is the one owed: no other approval owes one for the draft.
LEMMA AppendInv ==
    ASSUME ApprovalInv, NEW a \in Approvals, AppendOutbound(a)
    PROVE  ApprovalInv'
<1> USE DEF AppendOutbound, Leave, historyVars
<1>0. aim[a] \in Drafts /\ apc[a] = "append"
    BY DEF ApprovalInv, ApprovalTypeOK
<1>1. LifecycleInv'
    BY LifecycleUntouched DEF ApprovalInv
<1>2. ApprovalTypeOK'
    BY <1>0, <1>1, NoDraftAssumption
    DEF ApprovalInv, ApprovalTypeOK, LifecycleInv, ApprovalSteps
<1>3. HoldersReserve' /\ SentIsReserved'
    BY DEF ApprovalInv, ApprovalTypeOK, HoldersReserve, SentIsReserved, Holders
<1>4. ApprovedIsSettled'
    BY NoDraftAssumption
    DEF ApprovalInv, ApprovalTypeOK, ApprovedIsSettled, lifecycleVars, leadVars
<1>5. Accounts'
    <2>1. \A d \in Drafts : d = aim[a] => Owed(d) = 1 /\ Owed(d)' = 0
        BY <1>0, NoDraftAssumption DEF ApprovalInv, ApprovalTypeOK, HoldersReserve, Holders, Owed
    <2>2. \A d \in Drafts \ {aim[a]} : Owed(d)' = Owed(d) /\ outbound'[d] = outbound[d]
        BY <1>0, NoDraftAssumption DEF ApprovalInv, ApprovalTypeOK, Owed
    <2>3. outbound'[aim[a]] \in {outbound[aim[a]], outbound[aim[a]] + 1}
        BY <1>0 DEF ApprovalInv, ApprovalTypeOK
    <2>4. ASSUME NEW d \in Drafts PROVE outbound'[d] + Owed(d)' <= sent'[d]
        <3>1. outbound[d] \in Nat /\ sent[d] \in Nat /\ outbound[d] + Owed(d) <= sent[d]
            BY DEF ApprovalInv, ApprovalTypeOK, Accounts
        <3>2. CASE d = aim[a]
            BY <3>1, <3>2, <2>1, <2>3
        <3>3. CASE d # aim[a]
            BY <3>1, <3>3, <2>2
        <3>4. QED
            BY <3>2, <3>3
    <2>5. QED
        BY <2>4 DEF ApprovalInv, Accounts
<1>6. QED
    BY <1>1, <1>2, <1>3, <1>4, <1>5 DEF ApprovalInv

LEMMA ApprovalStepInv ==
    ASSUME ApprovalInv, NEW a \in Approvals, ApprovalStep(a)
    PROVE  ApprovalInv'
<1>1. ASSUME NEW d \in Drafts, StartApproval(a, d) PROVE ApprovalInv'
    BY <1>1, StartInv
<1>2. CASE SkipDispatched(a) \/ PublishFails(a) \/ Abandon(a)
    BY <1>2, LeaveInv
    DEF SkipDispatched, PublishFails, Abandon, ApprovalInv, ApprovalTypeOK
<1>3. QED
    BY <1>1, <1>2, TrackInv, ReserveInv, PassInv, BlockInv, PublishInv, FlipInv, AppendInv DEF ApprovalStep

(* The new run starts with no reservation and nothing sent: each draft has *)
(* one more copy to go, except the approved ones, whose rows say so.       *)
LEMMA RestartProcessInv ==
    ASSUME ApprovalInv, RestartProcess
    PROVE  ApprovalInv'
<1> USE DEF RestartProcess
<1>1. LifecycleInv'
    BY RestartInv DEF ApprovalInv
<1>2. ApprovalTypeOK'
    BY <1>1, NoDraftAssumption, MaxRestartsAssumption
    DEF ApprovalInv, ApprovalTypeOK, LifecycleInv, ApprovalSteps
<1>3. HoldersReserve' /\ SentIsReserved'
    BY DEF HoldersReserve, SentIsReserved, Holders
<1>4. ApprovedIsSettled'
    BY NoDraftAssumption
    DEF ApprovalInv, ApprovalTypeOK, ApprovedIsSettled, Restart, leadVars
<1>5. Accounts'
    <2>1. \A d \in Drafts : Owed(d)' = 0 /\ Owed(d) \in {0, 1}
        BY DEF Owed
    <2>2. \A d \in Drafts : sent[d] <= restarts + 1
        BY DEF ApprovalInv, ApprovalTypeOK, Accounts
    <2>3. \A d \in Drafts : outbound'[d] + Owed(d)' <= sent'[d]
        BY <2>1 DEF ApprovalInv, ApprovalTypeOK, Accounts
    <2>4. QED
        BY <2>2, <2>3 DEF ApprovalInv, ApprovalTypeOK, Accounts
<1>6. QED
    BY <1>1, <1>2, <1>3, <1>4, <1>5 DEF ApprovalInv

LEMMA AStutterInv == ApprovalInv /\ UNCHANGED vars => ApprovalInv'
<1> SUFFICES ASSUME ApprovalInv, UNCHANGED vars PROVE ApprovalInv'
    OBVIOUS
<1>1. LifecycleInv'
    BY LifecycleUntouched DEF ApprovalInv, vars
<1>2. ApprovalTypeOK'
    BY <1>1 DEF ApprovalInv, ApprovalTypeOK, LifecycleInv, vars, approvalVars, historyVars
<1>3. HoldersReserve' /\ SentIsReserved' /\ Accounts'
    BY DEF ApprovalInv, HoldersReserve, SentIsReserved, Accounts, Owed, vars, approvalVars,
           historyVars
<1>4. ApprovedIsSettled'
    BY DEF ApprovalInv, ApprovedIsSettled, vars, approvalVars, historyVars, lifecycleVars,
           leadVars
<1>5. QED
    BY <1>1, <1>2, <1>3, <1>4 DEF ApprovalInv

LEMMA ANextInv == ApprovalInv /\ [ANext]_vars => ApprovalInv'
    BY LifecycleStepInv, ApprovalStepInv, RestartProcessInv, AStutterInv DEF ANext

LEMMA AInvHolds == ASpec => []ApprovalInv
    BY AInitInv, ANextInv, PTL DEF ASpec

------------------------------------------------------------------------------
(* Type correctness of approvals, publisher and ledger.                    *)
THEOREM ApprovalTypeCorrect == ASpec => []ApprovalTypeOK
    BY AInvHolds, PTL DEF ApprovalInv

(* The operator is never shown a send that did not happen.                 *)
THEOREM ShownWasSent == ASpec => []ShownAsSentWasSent
<1>1. ApprovalInv => ShownAsSentWasSent
    <2> SUFFICES ASSUME ApprovalInv, NEW d \in Drafts
                 PROVE  /\ drafts[d] = "approved" => sent[d] > 0
                        /\ outbound[d] <= sent[d]
        BY DEF ShownAsSentWasSent
    <2>1. Owed(d) \in {0, 1}
        BY DEF Owed
    <2>2. QED
        BY <2>1 DEF ApprovalInv, ApprovalTypeOK, ApprovedIsSettled, Accounts
<1>2. QED
    BY <1>1, AInvHolds, PTL

(* At most one copy per run of the process.                                *)
THEOREM CopiesBounded == ASpec => []CopiesBoundedByRestarts
<1>1. ApprovalInv => CopiesBoundedByRestarts
    BY DEF ApprovalInv, ApprovalTypeOK, Accounts, CopiesBoundedByRestarts
<1>2. QED
    BY <1>1, AInvHolds, PTL

(* Publisher, draft row and restarts implement SendLedger.                 *)
THEOREM LedgerImplemented == ASpec => ImplementsLedger
<1>1. AInit => Ledger!LedgerInit
    BY DEF AInit, Ledger!LedgerInit
<1>2. ApprovalInv /\ [ANext]_vars => [Ledger!LedgerNext]_<<sent, sentNow, everApproved>>
    <2> SUFFICES ASSUME ApprovalInv, [ANext]_vars
                 PROVE  [Ledger!LedgerNext]_<<sent, sentNow, everApproved>>
        OBVIOUS
    <2>1. ASSUME NEW a \in Approvals, Publish(a) PROVE Ledger!LedgerNext
        <3>1. /\ aim[a] \in Drafts
              /\ aim[a] \notin sentNow
              /\ aim[a] \notin everApproved
            BY <2>1 DEF Publish, ApprovalInv, ApprovalTypeOK, SentIsReserved, ApprovedIsSettled
        <3>2. Ledger!Send(aim[a])
            BY <2>1, <3>1 DEF Publish, Ledger!Send
        <3>3. QED
            BY <3>1, <3>2 DEF Ledger!LedgerNext
    <2>2. ASSUME NEW a \in Approvals, FlipStatus(a)
          PROVE  [Ledger!LedgerNext]_<<sent, sentNow, everApproved>>
        <3>1. aim[a] \in Drafts /\ aim[a] \in sentNow
            BY <2>2 DEF FlipStatus, ApprovalInv, ApprovalTypeOK, SentIsReserved
        <3>2. Ledger!Record(aim[a]) \/ UNCHANGED <<sent, sentNow, everApproved>>
            BY <2>2, <3>1 DEF FlipStatus, Ledger!Record
        <3>3. QED
            BY <3>1, <3>2 DEF Ledger!LedgerNext
    <2>3. ASSUME NEW a \in Approvals, ApprovalStep(a), ~ Publish(a), ~ FlipStatus(a)
          PROVE  UNCHANGED <<sent, sentNow, everApproved>>
        BY <2>3 DEF ApprovalStep, StartApproval, TrackMessageId, SkipDispatched,
                    Reserve, PassGate, BlockedByGate, PublishFails, AppendOutbound, Abandon, historyVars
    <2>4. CASE RestartProcess
        BY <2>4 DEF RestartProcess, Ledger!Forget, Ledger!LedgerNext
    <2>5. CASE LifecycleStep /\ UNCHANGED approvalVars
        BY <2>5 DEF approvalVars, historyVars
    <2>6. CASE UNCHANGED vars
        BY <2>6 DEF vars, approvalVars, historyVars
    <2>7. QED
        BY <2>1, <2>2, <2>3, <2>4, <2>5, <2>6 DEF ANext
<1>3. QED
    BY <1>1, <1>2, AInvHolds, PTL
    DEF ASpec, ImplementsLedger, Ledger!LedgerSpec, Ledger!ledgerVars

(* The lead keeps every guarantee of LeadLifecycle while drafts of it are  *)
(* approved.                                                               *)
THEOREM LifecycleImplemented == ASpec => ImplementsLifecycle
<1>1. AInit => Init
    BY DEF AInit
<1>2. ApprovalInv /\ [ANext]_vars => [Next]_lifecycleVars
    <2> SUFFICES ASSUME ApprovalInv, [ANext]_vars
                 PROVE  [Next]_lifecycleVars
        OBVIOUS
    <2>1. ASSUME NEW a \in Approvals, FlipStatus(a) PROVE [Next]_lifecycleVars
        <3>1. aim[a] \in Drafts
            BY <2>1 DEF FlipStatus, ApprovalInv, ApprovalTypeOK
        <3>2. ApproveDraft(aim[a]) \/ UNCHANGED lifecycleVars
            BY <2>1 DEF FlipStatus, ApproveDraft, SettleDraft, lifecycleVars, leadVars
        <3>3. QED
            BY <3>1, <3>2 DEF Next
    <2>2. ASSUME NEW a \in Approvals, ApprovalStep(a), ~ FlipStatus(a)
          PROVE  UNCHANGED lifecycleVars
        BY <2>2 DEF ApprovalStep, StartApproval, TrackMessageId, SkipDispatched, Reserve,
                    PassGate, BlockedByGate, Publish, PublishFails, AppendOutbound, Abandon
    <2>3. CASE RestartProcess
        BY <2>3 DEF RestartProcess, Next
    <2>4. CASE LifecycleStep \/ UNCHANGED vars
        BY <2>4 DEF Next, vars
    <2>5. QED
        BY <2>1, <2>2, <2>3, <2>4 DEF ANext
<1>3. QED
    BY <1>1, <1>2, AInvHolds, PTL DEF ASpec, ImplementsLifecycle, Spec

===============================================================================
