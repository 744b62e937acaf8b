---------------------------- MODULE DraftApproval ----------------------------
(***************************************************************************)
(* Approving drafts of the lead of LeadLifecycle while that lead is moved, *)
(* closed and edited by other requests: approve_draft_handler              *)
(* (admin/leads.rs), OutboundPublisher::dispatch (broker/outbound.rs), the *)
(* broker that may refuse the publication, and restarts of the process.    *)
(*                                                                         *)
(* The handler has a step per await.  Its refusals that depend on          *)
(* configuration only (no publisher, no broker handle, no seller, no SMTP  *)
(* credential, a person id that is not an address) change nothing and are  *)
(* left out: an approval starts when they have passed.                     *)
(***************************************************************************)
EXTENDS LeadLifecycle, Naturals

CONSTANTS Approvals,     \* slots for the approve requests in flight
          NoDraft,       \* what an idle slot approves
          MaxRestarts    \* bound on restarts of the process

ASSUME NoDraftAssumption == NoDraft \notin Drafts
ASSUME MaxRestartsAssumption == MaxRestarts \in Nat

VARIABLES
    apc,          \* the next await of each approve request
    aim,          \* the draft it approves
    dispatched,   \* OutboundPublisher::dispatched, in memory
    tracked,      \* drafts with a row in outbound_message_ids
    sent,         \* messages handed to the broker, per draft
    outbound,     \* outbound rows of thread_messages, per draft
    restarts,     \* restarts so far
    sentNow,      \* history: drafts handed over since the last restart
    everApproved  \* history: drafts whose row was set to approved

historyVars == <<sentNow, everApproved>>
approvalVars == <<apc, aim, dispatched, tracked, sent, outbound, restarts, historyVars>>
vars == <<lifecycleVars, approvalVars>>

ApprovalSteps == {"idle", "track", "dispatch", "gate", "publish", "flip", "append"}

\* The publisher's key is thread_id:draft_id; a draft has one thread.
AInit ==
    /\ Init
    /\ apc = [a \in Approvals |-> "idle"]
    /\ aim = [a \in Approvals |-> NoDraft]
    /\ dispatched = {}
    /\ tracked = {}
    /\ sent = [d \in Drafts |-> 0]
    /\ outbound = [d \in Drafts |-> 0]
    /\ restarts = 0
    /\ sentNow = {}
    /\ everApproved = {}

GoTo(a, step) ==
    /\ apc' = [apc EXCEPT ![a] = step]
    /\ aim' = aim

\* Mutant: the slot keeps its draft.
BugLeave(a) ==
    /\ apc' = [apc EXCEPT ![a] = "idle"]
    /\ aim' = aim

\* The handler has answered.
Leave(a) ==
    /\ apc' = [apc EXCEPT ![a] = "idle"]
    /\ aim' = [aim EXCEPT ![a] = NoDraft]

------------------------------------------------------------------------------
\* Mutant: any draft that is still there may be approved.
BugStartApproval(a, d) ==
    /\ apc[a] = "idle"
    /\ drafts[d] \in {"pending", "approved"}
    /\ apc' = [apc EXCEPT ![a] = "track"]
    /\ aim' = [aim EXCEPT ![a] = d]
    /\ UNCHANGED <<lifecycleVars, dispatched, tracked, sent, outbound, restarts,
                   historyVars>>

\* store.get and list_drafts: only a pending draft goes on.  The lead's own
\* state is not looked at.
StartApproval(a, d) ==
    /\ apc[a] = "idle"
    /\ drafts[d] = "pending"
    /\ apc' = [apc EXCEPT ![a] = "track"]
    /\ aim' = [aim EXCEPT ![a] = d]
    /\ UNCHANGED <<lifecycleVars, dispatched, tracked, sent, outbound, restarts,
                   historyVars>>

\* record_outbound_message_id, before anything is decided; a failure is logged
\* and the approval goes on.
TrackMessageId(a) ==
    /\ apc[a] = "track"
    /\ GoTo(a, "dispatch")
    /\ tracked' \in {tracked, tracked \cup {aim[a]}}
    /\ UNCHANGED <<lifecycleVars, dispatched, sent, outbound, restarts, historyVars>>

\* OutboundPublisher::dispatch: the reservation is tested and taken under one
\* lock, which is released before the compliance gate is asked.
SkipDispatched(a) ==
    /\ apc[a] = "dispatch"
    /\ aim[a] \in dispatched
    /\ Leave(a)
    /\ UNCHANGED <<lifecycleVars, dispatched, tracked, sent, outbound, restarts,
                   historyVars>>

\* Mutant: the reservation is tested and not taken.
BugReserve(a) ==
    /\ apc[a] = "dispatch"
    /\ aim[a] \notin dispatched
    /\ GoTo(a, "gate")
    /\ UNCHANGED <<lifecycleVars, dispatched, tracked, sent, outbound, restarts,
                   historyVars>>

Reserve(a) ==
    /\ apc[a] = "dispatch"
    /\ aim[a] \notin dispatched
    /\ dispatched' = dispatched \cup {aim[a]}
    /\ GoTo(a, "gate")
    /\ UNCHANGED <<lifecycleVars, tracked, sent, outbound, restarts, historyVars>>

PassGate(a) ==
    /\ apc[a] = "gate"
    /\ GoTo(a, "publish")
    /\ UNCHANGED <<lifecycleVars, dispatched, tracked, sent, outbound, restarts,
                   historyVars>>

\* Block: the reservation is given back, so that a fixed body can be approved.
BlockedByGate(a) ==
    /\ apc[a] = "gate"
    /\ dispatched' = dispatched \ {aim[a]}
    /\ Leave(a)
    /\ UNCHANGED <<lifecycleVars, tracked, sent, outbound, restarts, historyVars>>

Publish(a) ==
    /\ apc[a] = "publish"
    /\ sent' = [sent EXCEPT ![aim[a]] = @ + 1]
    /\ sentNow' = sentNow \cup {aim[a]}
    /\ GoTo(a, "flip")
    /\ UNCHANGED <<lifecycleVars, dispatched, tracked, outbound, restarts,
                   everApproved>>

\* Mutant: a failed publication is logged and the approval goes on.
BugPublishFails(a) ==
    /\ apc[a] = "publish"
    /\ GoTo(a, "flip")
    /\ UNCHANGED <<lifecycleVars, dispatched, tracked, sent, outbound, restarts,
                   historyVars>>

\* "broker_publish_failed": the handler returns and the reservation stays.
PublishFails(a) ==
    /\ apc[a] = "publish"
    /\ Leave(a)
    /\ UNCHANGED <<lifecycleVars, dispatched, tracked, sent, outbound, restarts,
                   historyVars>>

\* Mutant: the row is approved whatever became of it meanwhile.
BugFlipStatus(a) ==
    /\ apc[a] = "flip"
    /\ drafts' = [drafts EXCEPT ![aim[a]] = "approved"]
    /\ everApproved' = everApproved \cup {aim[a]}
    /\ GoTo(a, "append")
    /\ UNCHANGED <<state, visited, armed, requestVars, dispatched, tracked, sent,
                   outbound, restarts, sentNow>>

\* set_draft_status(.., Approved), guarded by draft_status = 'pending'.  The
\* handler does not look at the number of rows it changed.
FlipStatus(a) ==
    /\ apc[a] = "flip"
    /\ IF drafts[aim[a]] = "pending"
       THEN /\ drafts' = [drafts EXCEPT ![aim[a]] = "approved"]
            /\ everApproved' = everApproved \cup {aim[a]}
       ELSE UNCHANGED <<drafts, everApproved>>
    /\ GoTo(a, "append")
    /\ UNCHANGED <<state, visited, armed, requestVars, dispatched, tracked, sent,
                   outbound, restarts, sentNow>>

\* The outbound row, under a fresh message id; a failure is logged only.
AppendOutbound(a) ==
    /\ apc[a] = "append"
    /\ outbound' \in {outbound, [outbound EXCEPT ![aim[a]] = @ + 1]}
    /\ Leave(a)
    /\ UNCHANGED <<lifecycleVars, dispatched, tracked, sent, restarts, historyVars>>

\* A store error, or the request's future dropped at an await; the publisher
\* itself awaits nothing.
Abandon(a) ==
    /\ MayAbort
    /\ apc[a] \notin {"idle", "gate"}
    /\ Leave(a)
    /\ UNCHANGED <<lifecycleVars, dispatched, tracked, sent, outbound, restarts,
                   historyVars>>

ApprovalStep(a) ==
    \/ \E d \in Drafts : StartApproval(a, d)
    \/ TrackMessageId(a)
    \/ SkipDispatched(a)
    \/ Reserve(a)
    \/ PassGate(a)
    \/ BlockedByGate(a)
    \/ Publish(a)
    \/ PublishFails(a)
    \/ FlipStatus(a)
    \/ AppendOutbound(a)
    \/ Abandon(a)

\* The publisher's reservations and every request in flight are lost.
RestartProcess ==
    /\ restarts < MaxRestarts
    /\ restarts' = restarts + 1
    /\ Restart
    /\ apc' = [a \in Approvals |-> "idle"]
    /\ aim' = [a \in Approvals |-> NoDraft]
    /\ dispatched' = {}
    /\ sentNow' = {}
    /\ UNCHANGED <<tracked, sent, outbound, everApproved>>

ANext ==
    \/ LifecycleStep /\ UNCHANGED approvalVars
    \/ \E a \in Approvals : ApprovalStep(a)
    \/ RestartProcess

ASpec == AInit /\ [][ANext]_vars

------------------------------------------------------------------------------
(* Type invariant of the approve requests, the publisher and what was sent. *)
ApprovalTypeOK ==
    /\ TypeOK
    /\ apc \in [Approvals -> ApprovalSteps]
    /\ aim \in [Approvals -> Drafts \cup {NoDraft}]
    /\ \A a \in Approvals : apc[a] # "idle" <=> aim[a] \in Drafts
    /\ dispatched \subseteq Drafts
    /\ tracked \subseteq Drafts
    /\ sent \in [Drafts -> Nat]
    /\ outbound \in [Drafts -> Nat]
    /\ restarts \in 0 .. MaxRestarts
    /\ sentNow \subseteq Drafts
    /\ everApproved \subseteq Drafts

(* A draft shown as approved was handed to the broker, and every outbound  *)
(* row in a lead's thread stands for a message that was: the operator is   *)
(* never shown a send that did not happen, whichever step fails or is cut  *)
(* short by a restart (approve_draft_handler, steps 6 and 7).              *)
ShownAsSentWasSent ==
    \A d \in Drafts : /\ drafts[d] = "approved" => sent[d] > 0
                      /\ outbound[d] <= sent[d]

(* A draft is sent at most once per run of the process: over a history     *)
(* with k restarts the recipient gets at most k + 1 copies, however many   *)
(* approvals of it race (outbound.rs, "so a double-approve from the        *)
(* operator doesn't double-send").                                         *)
CopiesBoundedByRestarts == \A d \in Drafts : sent[d] <= restarts + 1

(* Publisher and draft row together implement SendLedger: one send per     *)
(* run, approval recorded only after the send, never a send after it.      *)
Ledger == INSTANCE SendLedger
ImplementsLedger == Ledger!LedgerSpec

(* Seen from the lead, an approval is one write of the draft row: what     *)
(* LeadLifecycle guarantees holds with approvals in flight.                *)
ImplementsLifecycle == Spec

(* "Skipped short-circuits when an idempotent retry hit a previously-sent  *)
(* draft" (outbound.rs): a reservation stands for a message sent or being  *)
(* sent.                                                                   *)
ReservedMeansSent ==
    \A d \in dispatched : \/ d \in sentNow
                          \/ \E a \in Approvals : apc[a] \in {"gate", "publish"} /\ aim[a] = d

(* "so an operator can't accidentally approve and send a draft to a lead   *)
(* that's already closed" (store.rs, transition).                          *)
NoSendToClosedLead == [][sent' # sent => state \notin Terminal]_vars

==============================================================================
