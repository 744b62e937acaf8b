---------------------------- MODULE LeadLifecycle ----------------------------
(***************************************************************************)
(* One lead of one tenant: its row, its drafts, and the requests that move *)
(* it through its lifecycle while other requests run.                      *)
(*                                                                         *)
(* Every SQL statement is one atomic step (sqlite serialises statements),  *)
(* but a handler issues several of them, each behind its own `.await`, and *)
(* opens no transaction: admin calls, tool calls and broker events         *)
(* interleave between them.  A transition request therefore has a step per *)
(* statement; an operation that changes the store by one statement only    *)
(* is one action.                                                          *)
(*                                                                         *)
(* A lead is never deleted, so the "lead not found" exits do not arise.    *)
(* Statements are keyed by (tenant_id, lead id): other leads do not take   *)
(* part.                                                                   *)
(***************************************************************************)
EXTENDS LeadState

CONSTANTS Requests,   \* slots for the transition requests in flight
          Drafts,     \* message ids (fresh uuids) of the lead's draft rows
          Goals,      \* the states that transition requests ask for
          MayAbort    \* whether requests may stop half way

ASSUME GoalsAssumption == Goals \subseteq LeadStates
ASSUME MayAbortAssumption == MayAbort \in BOOLEAN

VARIABLES
    state,      \* leads.state
    armed,      \* leads.next_check_at_ms is not NULL
    drafts,     \* draft_status of each draft row; "none" before it is
                \* appended, "deleted" once the row is gone
    pc,         \* the next statement of each transition request
    goal,       \* the state it was asked for
    before,     \* the state its handler read for the audit row
    misreported,\* some `from -> to` written to the audit log and the firehose
                \* is not a legal move (all the model keeps of those rows)
    visited,    \* history: every state the lead has been in
    duty        \* history: drafts pending when the request closed the lead

leadVars == <<state, visited, armed, drafts>>
requestVars == <<pc, goal, before, misreported, duty>>
lifecycleVars == <<leadVars, requestVars>>

Steps == {"idle", "read", "write", "sweep", "disarm", "report"}
DraftStatus == {"pending", "approved", "rejected"}
RowStatus == DraftStatus \cup {"none", "deleted"}

Pending == {d \in Drafts : drafts[d] = "pending"}

Init ==
    /\ state = "cold"
    /\ visited = {"cold"}
    /\ armed = FALSE
    /\ drafts = [d \in Drafts |-> "none"]
    /\ pc = [r \in Requests |-> "idle"]
    /\ goal = [r \in Requests |-> "cold"]
    /\ before = [r \in Requests |-> "cold"]
    /\ misreported = FALSE
    /\ duty = [r \in Requests |-> {}]

------------------------------------------------------------------------------
(* A transition request: the admin handler, the mark_qualified tool and    *)
(* the unsubscribe path of the broker all have this shape.                 *)

\* The request's locals go with it.
Finish(r) ==
    /\ pc' = [pc EXCEPT ![r] = "idle"]
    /\ goal' = [goal EXCEPT ![r] = "cold"]
    /\ before' = [before EXCEPT ![r] = "cold"]
    /\ duty' = [duty EXCEPT ![r] = {}]

\* The handler's own read of the lead, kept for the audit row.
BeginTransition(r, to) ==
    /\ pc[r] = "idle"
    /\ pc' = [pc EXCEPT ![r] = "read"]
    /\ goal' = [goal EXCEPT ![r] = to]
    /\ before' = [before EXCEPT ![r] = state]
    /\ UNCHANGED <<leadVars, misreported, duty>>

\* Mutant: the move is not validated.
BugValidate(r) ==
    /\ pc[r] = "read"
    /\ pc' = [pc EXCEPT ![r] = "write"]
    /\ UNCHANGED <<leadVars, goal, before, misreported, duty>>

\* LeadStore::transition reads the row again and validates the move.
Validate(r) ==
    /\ pc[r] = "read"
    /\ Allows(state, goal[r])
    /\ pc' = [pc EXCEPT ![r] = "write"]
    /\ UNCHANGED <<leadVars, goal, before, misreported, duty>>

RefuseIllegal(r) ==
    /\ pc[r] = "read"
    /\ ~ Allows(state, goal[r])
    /\ Finish(r)
    /\ UNCHANGED <<leadVars, misreported>>

\* UPDATE leads SET state: the statement does not mention the state that was
\* validated.
WriteState(r) ==
    /\ pc[r] = "write"
    /\ state' = goal[r]
    /\ visited' = visited \cup {goal[r]}
    /\ duty' = [duty EXCEPT ![r] = IF goal[r] \in Terminal THEN Pending ELSE {}]
    /\ pc' = [pc EXCEPT ![r] = IF goal[r] \in Terminal THEN "sweep" ELSE "report"]
    /\ UNCHANGED <<armed, drafts, goal, before, misreported>>

\* Mutant: an error of the sweep is ignored.
BugSweepDrafts(r) ==
    /\ pc[r] = "sweep"
    /\ drafts' \in {drafts, [d \in Drafts |->
                                 IF d \in Pending THEN "rejected" ELSE drafts[d]]}
    /\ pc' = [pc EXCEPT ![r] = "disarm"]
    /\ UNCHANGED <<state, visited, armed, goal, before, misreported, duty>>

\* reject_pending_drafts
SweepDrafts(r) ==
    /\ pc[r] = "sweep"
    /\ drafts' = [d \in Drafts |->
                     IF d \in Pending THEN "rejected" ELSE drafts[d]]
    /\ pc' = [pc EXCEPT ![r] = "disarm"]
    /\ UNCHANGED <<state, visited, armed, goal, before, misreported, duty>>

\* UPDATE leads SET next_check_at_ms = NULL
Disarm(r) ==
    /\ pc[r] = "disarm"
    /\ armed' = FALSE
    /\ pc' = [pc EXCEPT ![r] = "report"]
    /\ UNCHANGED <<state, visited, drafts, goal, before, misreported, duty>>

\* The audit row and the firehose frame carry the handler's own earlier read.
Report(r) ==
    /\ pc[r] = "report"
    /\ misreported' = (misreported \/ ~ Allows(before[r], goal[r]))
    /\ Finish(r)
    /\ UNCHANGED leadVars

\* A statement returns an error (`?`), or the request's future is dropped at an
\* await: what it has written so far stays.
Abort(r) ==
    /\ MayAbort
    /\ pc[r] # "idle"
    /\ Finish(r)
    /\ UNCHANGED <<leadVars, misreported>>

TransitionStep(r) ==
    \/ \E to \in Goals : BeginTransition(r, to)
    \/ Validate(r)
    \/ RefuseIllegal(r)
    \/ WriteState(r)
    \/ SweepDrafts(r)
    \/ Disarm(r)
    \/ Report(r)
    \/ Abort(r)

------------------------------------------------------------------------------
(* Operations that write the store with a single statement.                *)

\* Mutant: the row is written without a status.
BugCreateDraft(d) ==
    /\ drafts[d] = "none"
    /\ drafts' = [drafts EXCEPT ![d] = "null"]
    /\ UNCHANGED <<state, visited, armed, requestVars>>

\* The operator's own draft, or the last step of a generated one.  Neither
\* looks at the lead's state.
CreateDraft(d) ==
    /\ drafts[d] = "none"
    /\ drafts' = [drafts EXCEPT ![d] = "pending"]
    /\ UNCHANGED <<state, visited, armed, requestVars>>

\* Mutant: the UPDATE has lost its `AND draft_status = 'pending'`.
BugSettleDraft(d, status) ==
    /\ drafts[d] \in DraftStatus
    /\ drafts' = [drafts EXCEPT ![d] = status]
    /\ UNCHANGED <<state, visited, armed, requestVars>>

\* set_draft_status, guarded by draft_status = 'pending'.
SettleDraft(d, status) ==
    /\ drafts[d] = "pending"
    /\ drafts' = [drafts EXCEPT ![d] = status]
    /\ UNCHANGED <<state, visited, armed, requestVars>>

RejectDraft(d) == SettleDraft(d, "rejected")

\* What an approval writes here; DraftApproval has the rest of the handler.
ApproveDraft(d) == SettleDraft(d, "approved")

\* delete_draft, whatever the draft's status.
DeleteDraft(d) ==
    /\ drafts[d] \in DraftStatus
    /\ drafts' = [drafts EXCEPT ![d] = "deleted"]
    /\ UNCHANGED <<state, visited, armed, requestVars>>

\* set_next_check: the schedule_followup tool and the operator's skip (NULL)
\* and postpone.  No state of the lead is excluded.
SetNextCheck(on) ==
    /\ armed' = on
    /\ UNCHANGED <<state, visited, drafts, requestVars>>

StoreStep ==
    \/ \E d \in Drafts : CreateDraft(d)
    \/ \E d \in Drafts : RejectDraft(d)
    \/ \E d \in Drafts : DeleteDraft(d)
    \/ \E on \in BOOLEAN : SetNextCheck(on)

\* The process dies and starts again: rows survive, requests do not.
Restart ==
    /\ pc' = [r \in Requests |-> "idle"]
    /\ goal' = [r \in Requests |-> "cold"]
    /\ before' = [r \in Requests |-> "cold"]
    /\ duty' = [r \in Requests |-> {}]
    /\ UNCHANGED <<leadVars, misreported>>

LifecycleStep == StoreStep \/ \E r \in Requests : TransitionStep(r)

Next ==
    \/ LifecycleStep
    \/ \E d \in Drafts : ApproveDraft(d)
    \/ Restart

Spec == Init /\ [][Next]_lifecycleVars

------------------------------------------------------------------------------
(* Type invariant of the lead row, its drafts and the requests in flight.  *)
TypeOK ==
    /\ state \in LeadStates
    /\ visited \subseteq LeadStates
    /\ armed \in BOOLEAN
    /\ drafts \in [Drafts -> RowStatus]
    /\ pc \in [Requests -> Steps]
    /\ goal \in [Requests -> LeadStates]
    /\ before \in [Requests -> LeadStates]
    /\ misreported \in BOOLEAN
    /\ duty \in [Requests -> SUBSET Drafts]

(* However the reads, checks and writes of transition requests interleave, *)
(* a lead that is or was qualified has been in meeting_scheduled, and one  *)
(* in meeting_scheduled has been engaged: the funnel cannot be skipped     *)
(* (state.rs, "Forward path").                                             *)
FunnelNotSkipped ==
    /\ "qualified" \in visited => "meeting_scheduled" \in visited
    /\ "meeting_scheduled" \in visited => "engaged" \in visited

(* A request that closed the lead and got past its sweep has left none of  *)
(* the drafts that were pending when it wrote the closing state waiting    *)
(* for approval (store.rs, "terminal transitions auto-reject any pending   *)
(* drafts").  Drafts appended meanwhile are not covered.                   *)
ClosingSweepsDrafts ==
    \A r \in Requests :
        pc[r] \in {"disarm", "report"} => duty[r] \cap Pending = {}

(* A draft that has been approved or rejected never changes status again;  *)
(* it can only be deleted (store.rs, set_draft_status: "Refuses to update  *)
(* ... non-pending drafts").                                               *)
SettledDraftsStay ==
    [][\A d \in Drafts : drafts[d] \in {"approved", "rejected", "deleted"}
                            => drafts'[d] \in {drafts[d], "deleted"}]_lifecycleVars

(* The strongest promise about the state column that survives overlapping  *)
(* requests: LeadMachine.                                                  *)
Machine == INSTANCE LeadMachine
ImplementsMachine == Machine!MachineSpec

(* "`lost` itself is terminal — never re-opens" (state.rs).  The code only *)
(* keeps this when transition requests do not overlap.                     *)
LostIsTerminal == [][state = "lost" => state' = "lost"]_lifecycleVars

(* "Snapshot the current state BEFORE the transition so the notification   *)
(* carries `from -> to` accurately" (lead_mark_qualified.rs).              *)
ReportsAreLegalMoves == ~ misreported

==============================================================================
