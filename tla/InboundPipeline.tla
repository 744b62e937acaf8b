--------------------------- MODULE InboundPipeline ---------------------------
(***************************************************************************)
(* From mails to leads: handle_inbound_event (plugin/broker.rs) on mails   *)
(* that may be delivered again and handled concurrently, next to the cold  *)
(* mails operators compose (admin/compose.rs), whose recipients reply.     *)
(*                                                                         *)
(* A handler has a step per statement on the lead store.  What the other   *)
(* stores are asked (spam rules, persons, companies, router, score) only   *)
(* decides whether a cold mail is dropped and who gets the lead: the model *)
(* keeps the first, as a choice.  So are a paused tenant and a seller      *)
(* without notifications.  Mails that do not decode or come from a         *)
(* disposable sender change nothing and are not delivered.                 *)
(***************************************************************************)
EXTENDS Naturals, FiniteSets

CONSTANTS Handlers,       \* slots for the events in flight
          Mails,
          Leads,          \* lead ids (fresh uuids)
          Composed,       \* those of them that compose uses
          Threads,        \* thread ids derived from mail headers
          Thread,         \* the thread id of each mail
          Answers,        \* the composed lead whose mail it replies to, or NoLead
          Unsubscribes,   \* the mails with an unsubscribe keyword
          NoLead,
          NoMail,
          MayFail,        \* whether lookups and transitions may fail
          MaxDeliveries   \* bound on the deliveries of all mails

ASSUME ComposedAssumption == Composed \subseteq Leads /\ NoLead \notin Leads
ASSUME ThreadAssumption == Thread \in [Mails -> Threads]
ASSUME AnswersAssumption == Answers \in [Mails -> Composed \cup {NoLead}]
ASSUME MailAssumption == Unsubscribes \subseteq Mails /\ NoMail \notin Mails
ASSUME MayFailAssumption == MayFail \in BOOLEAN
ASSUME MaxDeliveriesAssumption == MaxDeliveries \in Nat
ASSUME FiniteAssumption == IsFiniteSet(Handlers) /\ IsFiniteSet(Leads)

Unused == "no lead yet"
Synthetic == "compose:lead_id"   \* matches no header
ASSUME ThreadsAssumption == Threads \cap {Unused, Synthetic} = {}

Outgoing == "the composed mail"
ASSUME OutgoingAssumption == Outgoing \notin Mails

Kinds == {"lead_created", "lead_replied"}

VARIABLES
    thread,     \* leads.thread_id
    closed,     \* leads in state lost
    rows,       \* thread_messages of each lead
    replyable,  \* composed leads with a row in outbound_message_ids
    pinged,     \* the dedup cache: <<lead, kind>> keys of the current minute
    step,       \* the next statement of each handler
    mail,       \* the mail it handles
    target,     \* the lead it has found or created
    composing,  \* the next step of the compose request of each composed lead
    mailed,     \* composed leads whose mail has left
    delivered,  \* deliveries so far
    opener,     \* history: the mail that created each lead
    told,       \* history: <<mail, kind>> of the notifications published
    heard,      \* history: unsubscribe mails that have been answered
    blind       \* history: mails for which a statement on the store failed

storeVars == <<thread, closed, rows, replyable>>
handlerVars == <<step, mail, target>>
composeVars == <<composing, mailed>>
historyVars == <<opener, told, heard, blind>>
vars == <<storeVars, pinged, handlerVars, composeVars, delivered, historyVars>>

HandlerSteps == {"idle", "hear", "close", "resolve", "file", "lookup", "bump", "screen",
                 "create", "seed", "lead_created", "lead_replied"}
ComposeSteps == {"none", "track", "dispatch", "append", "done"}

LeadsOf(t) == {l \in Leads : thread[l] = t}

Init ==
    /\ thread = [l \in Leads |-> Unused]
    /\ closed = {}
    /\ rows = [l \in Leads |-> {}]
    /\ replyable = {}
    /\ pinged = {}
    /\ step = [h \in Handlers |-> "idle"]
    /\ mail = [h \in Handlers |-> NoMail]
    /\ target = [h \in Handlers |-> NoLead]
    /\ composing = [l \in Composed |-> "none"]
    /\ mailed = {}
    /\ delivered = 0
    /\ opener = [l \in Leads |-> NoMail]
    /\ told = {}
    /\ heard = {}
    /\ blind = {}

GoTo(h, s) ==
    /\ step' = [step EXCEPT ![h] = s]
    /\ UNCHANGED <<mail, target>>

\* Mutant: the row that was read is not kept.
BugFound(h, l, s) ==
    /\ step' = [step EXCEPT ![h] = s]
    /\ UNCHANGED <<mail, target>>

Found(h, l, s) ==
    /\ step' = [step EXCEPT ![h] = s]
    /\ target' = [target EXCEPT ![h] = l]
    /\ mail' = mail

Done(h) ==
    /\ step' = [step EXCEPT ![h] = "idle"]
    /\ mail' = [mail EXCEPT ![h] = NoMail]
    /\ target' = [target EXCEPT ![h] = NoLead]

\* append_thread_message of the handled mail: keyed by message id, and a
\* failure is ignored (`let _ =`).
File(h) == rows' \in {rows, [rows EXCEPT ![target[h]] = @ \cup {mail[h]}]}

------------------------------------------------------------------------------
\* NATS delivers at least once.  A reply exists once the composed mail left.
Deliver(h, m) ==
    /\ step[h] = "idle"
    /\ delivered < MaxDeliveries
    /\ Answers[m] # NoLead => Answers[m] \in mailed
    /\ delivered' = delivered + 1
    /\ step' = [step EXCEPT ![h] = IF m \in Unsubscribes THEN "hear" ELSE "resolve"]
    /\ mail' = [mail EXCEPT ![h] = m]
    /\ UNCHANGED <<storeVars, pinged, target, composeVars, historyVars>>

\* An unsubscribe closes the lead of its thread, if find_by_thread has one.
\* (The sender block it also writes is a Put of ReadThroughCache.)
Hear(h) ==
    /\ step[h] = "hear"
    /\ \/ /\ \E l \in LeadsOf(Thread[mail[h]]) : Found(h, l, "close")
          /\ heard' = heard
       \/ /\ LeadsOf(Thread[mail[h]]) = {}
          /\ heard' = heard \cup {mail[h]}
          /\ Done(h)
    /\ UNCHANGED <<storeVars, pinged, composeVars, delivered, opener, told, blind>>

CloseLead(h) ==
    /\ step[h] = "close"
    /\ closed' = closed \cup {target[h]}
    /\ heard' = heard \cup {mail[h]}
    /\ Done(h)
    /\ UNCHANGED <<thread, rows, replyable, pinged, composeVars, delivered, opener, told,
                   blind>>

\* Mutant: any composed lead with a recorded id answers.
BugResolve(h) ==
    /\ step[h] = "resolve"
    /\ \/ \E l \in replyable : Found(h, l, "file")
       \/ replyable = {} /\ GoTo(h, "lookup")
    /\ UNCHANGED <<storeVars, pinged, composeVars, delivered, historyVars>>

\* find_lead_by_outbound_message_id on In-Reply-To and References, then get.
Resolve(h) ==
    /\ step[h] = "resolve"
    /\ IF Answers[mail[h]] \in replyable
       THEN Found(h, Answers[mail[h]], "file")
       ELSE GoTo(h, "lookup")
    /\ UNCHANGED <<storeVars, pinged, composeVars, delivered, historyVars>>

\* A resolved reply is filed; nobody is notified.
FileReply(h) ==
    /\ step[h] = "file"
    /\ File(h)
    /\ Done(h)
    /\ UNCHANGED <<thread, closed, replyable, pinged, composeVars, delivered, historyVars>>

\* Mutant: a lead that holds the mail already is not the one to bump.
BugLookup(h) ==
    /\ step[h] = "lookup"
    /\ \/ \E l \in LeadsOf(Thread[mail[h]]) : mail[h] \notin rows[l] /\ Found(h, l, "bump")
       \/ /\ \A l \in LeadsOf(Thread[mail[h]]) : mail[h] \in rows[l]
          /\ GoTo(h, "screen")
    /\ UNCHANGED <<storeVars, pinged, composeVars, delivered, historyVars>>

\* find_by_thread; with several leads on the thread it is any one of them.
Lookup(h) ==
    /\ step[h] = "lookup"
    /\ \/ \E l \in LeadsOf(Thread[mail[h]]) : Found(h, l, "bump")
       \/ LeadsOf(Thread[mail[h]]) = {} /\ GoTo(h, "screen")
    /\ UNCHANGED <<storeVars, pinged, composeVars, delivered, historyVars>>

\* `if let Ok(Some(lead))`: an error reads as "no lead", and `let _ =` makes a
\* failed transition one that was done.
StatementFails(h) ==
    /\ MayFail
    /\ \/ step[h] = "resolve" /\ GoTo(h, "lookup")
       \/ step[h] = "lookup" /\ GoTo(h, "screen")
       \/ step[h] \in {"hear", "close"} /\ Done(h)
    /\ blind' = blind \cup {mail[h]}
    /\ UNCHANGED <<storeVars, pinged, composeVars, delivered, opener, told, heard>>

Bump(h) ==
    /\ step[h] = "bump"
    /\ File(h)
    /\ GoTo(h, "lead_replied")
    /\ UNCHANGED <<thread, closed, replyable, pinged, composeVars, delivered, historyVars>>

------------------------------------------------------------------------------
\* A cold mail: spam filter, resolver, router.
Drop(h) ==
    /\ step[h] = "screen"
    /\ Done(h)
    /\ UNCHANGED <<storeVars, pinged, composeVars, delivered, historyVars>>

Admit(h) ==
    /\ step[h] = "screen"
    /\ GoTo(h, "create")
    /\ UNCHANGED <<storeVars, pinged, composeVars, delivered, historyVars>>

\* The id is fresh, so ON CONFLICT(tenant_id, id) never applies; the thread id
\* is not unique in the table.
Create(h) ==
    /\ step[h] = "create"
    /\ \E l \in Leads \ Composed :
          /\ thread[l] = Unused
          /\ thread' = [thread EXCEPT ![l] = Thread[mail[h]]]
          /\ opener' = [opener EXCEPT ![l] = mail[h]]
          /\ Found(h, l, "seed")
    /\ UNCHANGED <<closed, rows, replyable, pinged, composeVars, delivered, told, heard,
                   blind>>

\* The event has been taken: the mail is gone.
CreateFails(h) ==
    /\ step[h] = "create"
    /\ Done(h)
    /\ UNCHANGED <<storeVars, pinged, composeVars, delivered, historyVars>>

Seed(h) ==
    /\ step[h] = "seed"
    /\ File(h)
    /\ GoTo(h, "lead_created")
    /\ UNCHANGED <<thread, closed, replyable, pinged, composeVars, delivered, historyVars>>

------------------------------------------------------------------------------
\* is_duplicate records the key it did not find, before the publish that may
\* fail.
Notify(h) ==
    /\ step[h] \in Kinds
    /\ <<target[h], step[h]>> \notin pinged
    /\ pinged' = pinged \cup {<<target[h], step[h]>>}
    /\ told' \in {told, told \cup {<<mail[h], step[h]>>}}
    /\ Done(h)
    /\ UNCHANGED <<storeVars, composeVars, delivered, opener, heard, blind>>

\* A duplicate, a paused tenant, or nobody to tell.
NotifyNobody(h) ==
    /\ step[h] \in Kinds
    /\ Done(h)
    /\ UNCHANGED <<storeVars, pinged, composeVars, delivered, historyVars>>

\* The key ends in the minute of the notification: older keys match nothing.
NextMinute ==
    /\ pinged' = {}
    /\ UNCHANGED <<storeVars, handlerVars, composeVars, delivered, historyVars>>

------------------------------------------------------------------------------
(* send_handler of admin/compose.rs, after its checks of configuration.    *)

Advance(l, s) == composing' = [composing EXCEPT ![l] = s]

ComposeLead(l) ==
    /\ composing[l] = "none"
    /\ thread' = [thread EXCEPT ![l] = Synthetic]
    /\ Advance(l, "track")
    /\ UNCHANGED <<closed, rows, replyable, pinged, handlerVars, mailed, delivered,
                   historyVars>>

\* A failure is logged: "reply may not thread back to this lead".
TrackComposed(l) ==
    /\ composing[l] = "track"
    /\ replyable' \in {replyable, replyable \cup {l}}
    /\ Advance(l, "dispatch")
    /\ UNCHANGED <<thread, closed, rows, pinged, handlerVars, mailed, delivered,
                   historyVars>>

\* Mutant: the mail may leave before its id is recorded.
BugPublishComposed(l) ==
    /\ composing[l] \in {"track", "dispatch"}
    /\ mailed' = mailed \cup {l}
    /\ Advance(l, IF composing[l] = "track" THEN "track" ELSE "append")
    /\ UNCHANGED <<storeVars, pinged, handlerVars, delivered, historyVars>>

PublishComposed(l) ==
    /\ composing[l] = "dispatch"
    /\ mailed' = mailed \cup {l}
    /\ Advance(l, "append")
    /\ UNCHANGED <<storeVars, pinged, handlerVars, delivered, historyVars>>

\* The compliance gate blocks it, or the broker refuses it: the lead stays.
RefuseComposed(l) ==
    /\ composing[l] = "dispatch"
    /\ Advance(l, "done")
    /\ UNCHANGED <<storeVars, pinged, handlerVars, mailed, delivered, historyVars>>

AppendComposed(l) ==
    /\ composing[l] = "append"
    /\ rows' \in {rows, [rows EXCEPT ![l] = @ \cup {Outgoing}]}
    /\ Advance(l, "done")
    /\ UNCHANGED <<thread, closed, replyable, pinged, handlerVars, mailed, delivered,
                   historyVars>>

\* Rows survive; requests, handlers and the dedup cache do not.
Restart ==
    /\ step' = [h \in Handlers |-> "idle"]
    /\ mail' = [h \in Handlers |-> NoMail]
    /\ target' = [h \in Handlers |-> NoLead]
    /\ composing' = [l \in Composed |-> IF composing[l] = "none" THEN "none" ELSE "done"]
    /\ pinged' = {}
    /\ UNCHANGED <<storeVars, mailed, delivered, historyVars>>

HandlerStep(h) ==
    \/ \E m \in Mails : Deliver(h, m)
    \/ Hear(h) \/ CloseLead(h)
    \/ Resolve(h) \/ FileReply(h)
    \/ Lookup(h) \/ Bump(h)
    \/ StatementFails(h)
    \/ Drop(h) \/ Admit(h)
    \/ Create(h) \/ CreateFails(h) \/ Seed(h)
    \/ Notify(h) \/ NotifyNobody(h)

ComposeStep(l) ==
    \/ ComposeLead(l)
    \/ TrackComposed(l)
    \/ PublishComposed(l) \/ RefuseComposed(l)
    \/ AppendComposed(l)

Next ==
    \/ \E h \in Handlers : HandlerStep(h)
    \/ \E l \in Composed : ComposeStep(l)
    \/ NextMinute
    \/ Restart

Spec == Init /\ [][Next]_vars

------------------------------------------------------------------------------
(* Type invariant of the store, the handlers and the compose requests.     *)
TypeOK ==
    /\ thread \in [Leads -> Threads \cup {Unused, Synthetic}]
    /\ closed \subseteq Leads
    /\ rows \in [Leads -> SUBSET (Mails \cup {Outgoing})]
    /\ replyable \subseteq Composed
    /\ pinged \subseteq Leads \X Kinds
    /\ step \in [Handlers -> HandlerSteps]
    /\ mail \in [Handlers -> Mails \cup {NoMail}]
    /\ target \in [Handlers -> Leads \cup {NoLead}]
    /\ \A h \in Handlers : step[h] # "idle" => mail[h] \in Mails
    /\ \A h \in Handlers :
          step[h] \in {"close", "file", "bump", "seed"} \cup Kinds => target[h] \in Leads
    /\ composing \in [Composed -> ComposeSteps]
    /\ mailed \subseteq Composed
    /\ delivered \in 0 .. MaxDeliveries
    /\ opener \in [Leads -> Mails \cup {NoMail}]
    /\ told \subseteq Mails \X Kinds
    /\ heard \subseteq Mails
    /\ blind \subseteq Mails

(* However often a thread's mails are delivered, and whenever the process  *)
(* restarts, the thread gets no more leads than events can be in flight at *)
(* once, unless a lookup failed: only the deliveries that overlapped the   *)
(* first can open another (find_by_thread decides create-vs-update).       *)
SiblingsNeedOverlap ==
    \A t \in Threads :
        (\A m \in Mails : Thread[m] = t => m \notin blind)
            => Cardinality(LeadsOf(t)) <= Cardinality(Handlers)

(* "the reply threads back to THIS lead instead of creating a sibling"     *)
(* (compose.rs): a reply opens a lead of its own only if the message id of *)
(* the mail it answers was not recorded, or a statement failed.            *)
RepliesThreadBack ==
    \A l \in Leads :
        opener[l] # NoMail /\ opener[l] \notin blind => Answers[opener[l]] \notin replyable

(* However late a handler files its mail, after other deliveries, composed *)
(* mails and restarts, the mail is under the lead whose mail it answers or *)
(* under a lead of its own thread, and only a mail that has left shows in  *)
(* a composed lead's thread.                                               *)
FiledWhereItBelongs ==
    \A l \in Leads :
        /\ \A m \in rows[l] \cap Mails : Answers[m] = l \/ Thread[m] = thread[l]
        /\ Outgoing \in rows[l] => l \in mailed

(* "dedupe under TTL window so a NATS redelivery of the same inbound       *)
(* doesn't ping the operator twice" (broker.rs).                           *)
OnePingPerMail == \A m \in Mails : \E kind \in Kinds : <<m, kind>> \notin told

(* "so a customer replying `darse de baja` on an active thread also halts  *)
(* cron followups" (broker.rs).                                            *)
UnsubscribeClosesLead ==
    \A m \in heard : Answers[m] \in Leads => Answers[m] \in closed

==============================================================================
