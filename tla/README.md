# nexo-rs-extension-marketing: TLA+ models and proofs

`nexo-marketing` is an e-mail CRM that runs as a plugin process: it watches
inbound mail, opens leads for new senders, routes them to sellers, generates
reply drafts that an operator approves, and keeps every lead's lifecycle. One
process serves one tenant. It is a tokio program: admin requests (axum), tool
calls (JSON-RPC) and broker events (NATS) are handled concurrently, share one
sqlite database with several connections, and no handler opens a transaction.
Almost everything that can go wrong sits between two awaits of a handler, and
this project is about that. Paths below are relative to the crate (`src/src/`).

## 1. Inventory

| Component | State | Operations that change it | What makes it correct |
|---|---|---|---|
| Lead state machine, `lead/state.rs` | none | `allows`, `validate_transition` | the funnel cannot be skipped, `lost` is final |
| Lead store, `lead/store.rs` | tables `leads`, `thread_messages`, `outbound_message_ids` | `create`, `transition`, `set_draft_status`, `reject_pending_drafts`, `delete_draft`, `append_thread_message`, `record_outbound_message_id`, `set_next_check`, edits | moves are legal, closing a lead disposes of its drafts, one lead per thread |
| Lead handlers, `admin/leads.rs` | none of their own | transition, create / generate / approve / reject / delete draft, follow-up override, edits | what is shown as sent was sent, no double send |
| Outbound publisher, `broker/outbound.rs` | reservations, in memory | `dispatch` | a double approve does not double-send |
| Compliance gate, `compliance/outbound_gate.rs` | anti-loop window, rate limit | `check` | a blocked draft can be approved again |
| Draft generation, `draft.rs`, `draft_lock.rs` | lock per signature, in memory | `generate`, `acquire` | one model call per signature, nobody waits forever |
| Inbound hop, `plugin/broker.rs` | none (store, dedup cache) | `handle_inbound_event` | each mail under the right lead, one ping |
| Compose, `admin/compose.rs` | none (store, publisher) | `send_handler` | replies come back to the lead |
| Caches: `marketing_state.rs`, `spam_filter/rules.rs`, `scoring.rs` and their admin handlers | tenant -> entry, in memory | `get`, `invalidate`, put handlers | the next read sees the write |
| Tools, `tools/*.rs`, `plugin/dispatch.rs` | none (store) | mark_qualified, schedule_followup, followup_sweep, ... | as the admin handlers |
| Notification, `notification.rs`, `notification_dedup.rs`, `forwarder.rs` | dedup cache | decision, `is_duplicate` | one ping per event |
| WhatsApp ingest, `whatsapp_ingest.rs` | persons, mappings | `handle_whatsapp_event` | one person per human |
| Enrichment, `enrichment/scraper.rs`, its hook in `plugin/broker.rs`, `admin/persons.rs` | company rows and a cache of them with times to live (sqlite), 4 scrape permits | hook with a detached scrape and a 4 s budget, confirm-enrichment | links are to stored companies, one row per domain, mail never waits for the web |
| Audit and firehose, `audit.rs`, `firehose/mod.rs` | append-only log, broadcast channel | `record`, `publish` | rows tell the truth |
| Deciding about a cold mail: `spam_filter/*`, `lead/router.rs`, `availability.rs`, `scoring.rs` | settings rows and their copies, round-robin cursor | `classify`, `route`, `score`, filter admin | who is let in is what the operator says, turns are even |
| Persons: `identity/*`, `duplicate.rs`, `admin/persons.rs` | persons, addresses, phones | `upsert`, `link`, `find_duplicates` | one row per human, or a report |
| Tracking, `tracking.rs`, `admin/tracking.rs` | links and events | `prepare_outbound_email`, open, click | a rewritten link can be followed |
| Small rules: `unsubscribe.rs`, `guardrails.rs`, `lead/score.rs` | none | | deterministic |
| Configuration, `config/mod.rs`, `admin/config.rs` | YAML files, live copies behind `arc_swap` | put handlers, boot | files are whole, the process uses what is on disk |
| Templates, auth, telemetry | tables | CRUD | validation |

How they interact:

- **Inbound**: `main.rs` hands every broker event to `handle_inbound_event` in
  a task of its own (`broker_metrics.rs:11` counts how many run at once). It
  looks for an unsubscribe, then for a lead that composed the mail being
  answered, then for a lead with that thread, and only then opens a lead.
- **Operator**: admin handlers read rows, decide, write rows. Approve and
  compose also call the publisher and publish on the broker.
- **Agent**: tool calls reach the same store.
- **Caches** are read by all three and invalidated by the put handlers.

What is hard: read-decide-write sequences that interleave; failures ignored by
`let _ =` or `if let Ok(Some(..))`; futures dropped half way (a client that
hangs up, a timeout); a restart that keeps the rows and forgets reservations,
locks and caches; at-least-once delivery. The hazards are listed at their lines
in `PROJECT.json`, each with the property that covers it or the reason why none
does.

## 2. Modules

```
LeadState <- LeadMachine   (abstract)      SendLedger (abstract)      TrackedMail (abstract)
    ^            ^ refines                      ^ refines                 ^ refines
    LeadLifecycle  <------ EXTENDS, refines ------  DraftApproval         Outreach
    (+ FollowUp)

InboundPipeline   ColdMail  <- EXTENDS -  SpamFilter, LeadRouting, LeadScore
(+ Threading)     Contacts   Enrichment   Pings
DraftGeneration   ReadThroughCache   ConfigReload
```

`FollowUp`, `Threading`, `SpamFilter`, `LeadRouting` and `LeadScore` are pure:
operators without variables. `handle_inbound_event` is long (about 900 lines of
`plugin/broker.rs`) and is split by the state it works on: lead store and dedup in
InboundPipeline, filter, router and score in ColdMail, persons in Contacts,
companies in Enrichment, notifications in Pings. Where one of them needs an
answer of another (is the mail admitted? does its company have a row?) it takes
either answer. The way out is split likewise: rows and reservation in
DraftApproval, links and gate in Outreach.

Each `X.tla` has an `MCX.tla` / `MCX.cfg` that gives it a small instance; its
theorems are in one of the eight proof modules of section 4. Every definition named `Bug...` is a mutant: a
version of the definition after it with a plausible mistake, used to check that
the properties notice. The properties close each module.

**LeadState** has the states of a lead and the legal moves (`lead/state.rs`).

**LeadLifecycle** is one lead, its drafts and the requests that move it. A
transition request has one step per statement, as the code does:

| Action | Code |
|---|---|
| `BeginTransition` | the handler reads the lead for the audit row (`admin/leads.rs:871`) |
| `Validate` / `RefuseIllegal` | `LeadStore::transition` reads it again and validates (`lead/store.rs:340`) |
| `WriteState` | `UPDATE leads SET state`, keyed by id only (`:350`) |
| `SweepDrafts` | `reject_pending_drafts` when the goal is qualified or lost (`:365`) |
| `Disarm` | `next_check_at_ms = NULL` (`:366`) |
| `Report` | audit row and firehose frame with the handler's own `from` |
| `Abort` | `?` on a statement, or the future dropped: what was written stays |

`state`, `armed` and `drafts` are columns; `pc`, `goal`, `before` are the locals
of a request; `visited` and `duty` are history; `misreported` is all that is
kept of audit rows. The single-statement operations (`CreateDraft`,
`RejectDraft`, `ApproveDraft`, `DeleteDraft`, `SetNextCheck`) are one action
each. **LeadMachine** is what the store still promises when requests overlap:
each state written is one legal move from a state the lead *has been* in.

**DraftApproval** extends LeadLifecycle with `approve_draft_handler`: read the
draft (`StartApproval`), record the message id (`TrackMessageId`), reserve under
the publisher's mutex (`Reserve` / `SkipDispatched`), ask the gate outside of it
(`PassGate` / `BlockedByGate`), publish (`Publish` / `PublishFails`), flip the
row (`FlipStatus`, whose row count the code ignores), append the outbound row
(`AppendOutbound`). `RestartProcess` forgets reservations and requests. The
gate's verdict is a choice. **SendLedger** is the promise: a draft is sent at
most once by a run of the process, recorded as approved only by the run that sent
it, and never sent after that.

**DraftGeneration** is `generate_draft_handler` with `DraftLockMap`: read lead
and thread, compute the signature, take its lock (not with an operator hint),
look for a stored draft, generate, store. A signature is the pair of what the
lead and seller contribute (`Stages`) and the latest inbound message
(`Messages`). tokio's mutex is modelled as the FIFO queue it documents, with
waiters that can leave it from the middle. `RoomForRow` bounds the pending rows;
settled rows free their slot.

**ReadThroughCache** is the algorithm the three caches share. The spam filter
loads its entry by two statements (config, then rules), the others by one;
`Load` is the list of parts. A part is represented by the number of times it
was written (`MaxWrites`). A failed load serves the default and caches nothing
(`LoadEnds`). Its top-level names begin with `Cache`, since one proof module extends
it together with Enrichment.

**InboundPipeline** has several handlers running `handle_inbound_event` next to
compose requests. Each handler has one step per store statement: `Hear` /
`CloseLead` (unsubscribe), `Resolve` / `FileReply` (reply to a composed mail),
`Lookup` / `Bump` (existing thread), `Drop` / `Admit` / `Create` / `Seed` (cold
mail), `Notify` / `NotifyNobody`. `StatementFails` is the `if let Ok(Some(..))`
and `let _ =` of the source. `Deliver` may deliver any mail again, at most
`MaxDeliveries` times in all; `NextMinute` makes the dedup keys, which end in a
minute bucket, stop matching. A composed lead has the thread id
`compose:<lead id>`, which no header of a reply matches, so only the recorded
message id brings its replies back.

**Enrichment** is the hook that links the sender of a cold mail to a company,
inside `Admit` of InboundPipeline:

| Action | Code |
|---|---|
| `CacheHit`, `CacheMiss` | `cache.get`, whatever the entry says (`plugin/broker.rs:443`) |
| `FindCompany` | `find_by_domain` has a row: link it, no network |
| `ForgetEntry`, `ScrapeAgain` | it has none: invalidate, and scrape (`:455`) |
| `StartFetch`, `EndFetch` | the detached task: semaphore, robots.txt, four paths |
| `UpsertCompany`, `PutEntry` | its row under the deterministic id, then its cache entry, or the entry of a failure |
| `Joined`, `Timeout` | the hook takes the task's answer, or goes on after 4 seconds while the task stays |
| `ConfirmFind`, `ConfirmWrite` | the operator's confirmation, which makes a fresh id when it finds no row |

A company row is its id, since no property looks at its name; `erred` is history.
What a page says and when it answers is a choice. Expired entries are the cache's
own doing (`Expire`), and `Restart` loses the tasks but neither rows nor entries.

**ColdMail** is what InboundPipeline's `Admit` and `Drop` stand for, with the state
it reads:

| Action | Code |
|---|---|
| `Deliver`, `FindThread` | the event, and the lookup that ends the cold path |
| `UseCached`, `ReadConfig`, `ReadRules`, `EndLoad`, `Insert`, `LoadFails` | `RulesCache::get`: a hit, or two statements and an insert; a failed load serves the defaults (`spam_filter/rules.rs:187`) |
| `BlockSender`, `ForgetCopy`, `BlockFails` | the unsubscribe: a `sender_block` row, then the invalidation |
| `Route`, `CreateLead`, `CreateFails` | dispatcher, cursor, working hours, score |
| `ReadRow`, `SaveRow`, `AddRule`, `DeleteRule`, `Invalidate`, `CutShort` | the requests of `admin/spam_filter.rs`; PUT reads the row, changes what the body names and writes all of it |
| `DryRun`, `ToolRoutes` | the test endpoint uses the same cache, the agent's `route` tool the same cursor |
| `SwapRouter`, `Restart` | a new rule set brings a new cursor, while a handler keeps the router it took |

`gone`, `vetted`, `muted`, `welcome`, `tuned` and `overlap` are history: what was
promised, and to which event in flight. **SpamFilter** is presets, rules and
verdict, **LeadRouting** dispatcher, cursor and availability, **LeadScore** the
weights and their clamp. `IsRuleSet` and `IsScoringConfig` are what a rules file and
a scoring row parse into: the targets of rules are sellers, pools of sellers or
drop, and weights are integers for finitely many keywords.

**Contacts** is persons: a cold mail's name (`ResolvedName`, the chain of the
two adapters `main.rs` wires), upsert, address link, read-back and duplicate scan
(`MailComes` to `Scan`); the row a composed mail writes for its recipient, with the
name the operator typed, no company and no scan (`Compose`); a WhatsApp message's bridge from LID to number, upsert
and phone link (`MessageComes` to `LinkPhone`); the operator's confirmation
(`ConfirmReads`, `ConfirmWrites`). Every statement may fail, and `Learn` is the
session learning a mapping. Ids are derived from addresses and numbers, so a row
is written whole again and again. `Twins` are two rows of one company whose names
have the same words; a name of punctuation alone has no words, is
similar to nothing (`duplicate.rs:189`) and makes no twins.

**Pings** is from the decision to tell a seller to the text that leaves:
`Hear` / `Tell` / `Deduped` / `DoNotTell` in a handler, `PublishPing`, and
`Forward` when the process hears its own notification. Each event has a number of
its own, which stands for the time stamp in the notification's payload
(`notification.rs:190`), so that two tellings of the same text are two. The broker
may deliver a notification again, also to the run after a restart, and `Forward`
then texts again: it keeps no record (`forwarder.rs:167`). `Copies` counts the texts
of a notification and `MaxCopies` bounds them. `PutSeller` and `PutTemplates` may
come between any two. `Panics` is the excerpt cut at byte 120
inside a character (`tools/lead_detect_meeting_intent.rs:256`).

**Outreach** is from a reserved draft to the recipient's clicks: links are
registered one by one and the body rewritten, or left alone when a row fails
(`RegisterLink`, `RegisterFails`, `Rewrite`); the gate counts equal bodies under
one lock and permits under another (`CheckBody`, `TakePermit`, `Throttled`); then
`Publish` or `PublishFails`, `Open`, `Click`. The gate runs the redactor over the
body as rewritten, pixel and link URLs included, after their rows were written, and
what is published is its result (`ModifyAndSend`, `outbound_gate.rs:121`,
`outbound.rs:152`). The redactor is a library's, so whether it takes a part of a
signed URL for personal data is a choice: `CheckBody` blots out any set of a body's
URLs, and `Publish` sends the others. Without `redact_pii` (`RedactPii`) a body the
redactor would change is refused. A clock drives both windows and a restart forgets
both counters. **TrackedMail** is the promise of tracking, link by link: a link that
leaves whole was registered before, and stays so. A blotted URL leads nowhere: its
signature or its id is gone, and `Open` and `Click` refuse it.

**Threading** derives a mail's thread and the lead it answers from its headers;
MCInboundPipeline applies it to its mails. **FollowUp** is the deadline a
follow-up is stored with, and the pages of a sweep; MCLeadLifecycle evaluates it
over small times.

**ConfigReload** is what the PUT handlers of `admin/config.rs` share, at the level
of system calls, because that is where they interleave: a handler has no await
after its body arrived, but handlers run on several worker threads.

| Action | Code |
|---|---|
| `Open` | `File::create(".<name>.tmp")`: a new inode, or the one that is there, truncated (`config/mod.rs:195`) |
| `Write` / `WriteFails` | `write_all`, from offset 0 of the inode the handle has |
| `Rename` / `SaveFails` | fsync, then rename of *whatever* bears the temporary name |
| `Swap` | sellers, notification templates, guardrails, draft template: the live copy becomes the request's body |
| `Reload`, `Store` | rules: the file is read back and the router rebuilt, or `restart_required` is answered (`admin/config.rs:292`) |
| `Crash`, `Boot` | the process stops anywhere; boot loads each file, or takes a default (not for the rules) |

`raced`, `lone` and `published` are history. A text is the document of one PUT or
`Broken`; sizes matter only for a shorter document written over a longer one.
A crash is of the process, not of the machine: completed system calls survive.

## 3. Runs

Passing runs, each exhaustive within its bounds:

| Run | Instance | Shows |
|---|---|---|
| `lifecycle` | 2 requests, 2 drafts, all goals, stops anywhere (944,108 states) | `FunnelNotSkipped`, `ClosingSweepsDrafts`, `SettledDraftsStay`, refinement of LeadMachine |
| `approval` | 2 approvals, 2 drafts, 1 closing request, 1 restart (1,474,236 states) | `ShownAsSentWasSent`, `CopiesBoundedByRestarts`, refinement of SendLedger and of LeadLifecycle |
| `generation` | 3 requests, 3 rows, 1 stage, 1 message (18,572 states) | `NoWastedGeneration`, `OnePendingPerSignature`, `EveryRequestEnds` |
| `cache` | 2 readers, 2 writers, 2 parts, 2 writes of each (4,028 states) | `FreshUnlessRaced` |
| `config` | 3 PUTs of 2 lengths, 3 kinds of document (296,232 states) | `FileIsLastPublished`, `LiveIsOnDisk` |
| `enrichment` | 3 mails of 2 domains, 1 confirmation, 1 permit (111,132 states) | `KnownDomainsLink`, `LinksHold`, `ScrapesShareARow`, `LeadsGoOn` |
| `inbound` | 2 handlers, 3 mails, 4 deliveries, 3 + 1 leads (1,728,864 states) | `SiblingsNeedOverlap`, `RepliesThreadBack`, `FiledWhereItBelongs` |
| `coldmail` | 2 handlers, 2 admin requests, 3 mails, 2 deliveries, 2 writes, 2 routers (955,486 states) | `UnsubscribedStaysOut`, `AllowedGetsThrough`, `RotationEven`, `TuningKept` |
| `outreach` | 2 requests, 3 drafts, 3 attempts, 2 instants, 2 runs, one link, any of the body's URLs redacted, a loop at 2 and a rate of 1 (1,771,546 states) | `GateHolds`, refinement of TrackedMail |
| `pings` | 2 handlers, 2 sellers with a lead each, 2 events, 3 settings, 2 minutes, 2 runs, 2 copies (1,251,858 states) | `PingsAreAskedFor` |
| `contacts` | 2 handlers, 3 mails of 2 senders, a WhatsApp contact, 4 events, 1 composed name (1,431,458 states) | `NoSilentTwins` |

Every run also checks the type invariant of its module, and MCLeadLifecycle
evaluates two assumptions about FollowUp: `SweepsCatchUp` (what a page leaves
behind, the next finds) and `JitterIsCentred`.

Why the bounds are enough to be interesting: two requests are what it takes for
one to write on top of a state it did not validate; two drafts give a sweep one
to hit and one to miss; one restart separates "once" from "once per run"; three
generate requests let one leave the queue from the middle while another holds
the lock; a two-part entry can be torn; three PUTs let one run alone after two have raced; three leads are one more than two
handlers may open on one thread; four deliveries cover a mail, its redelivery
after a crash, and two more; two mails of one domain race their scrapes and a
third, of another, makes them queue for the permit. Two deliveries are an unsubscribe and the next
mail of the same customer; two writes are the operator's change and the block
that race one invalidation, or two overlapping PUTs; two routers let a mail route
on the one that was replaced. Two instants and windows of one instant let a count
expire; three attempts are a loop of two and one more, and a restart between them
starts both counts again; one link and the pixel let the redactor hit one URL of a mail
and miss the other. Three settings are one change of one of two sellers (a
seller without an agent is refused like the others that are not told, and is left to the
theorems); two copies are a
delivery and its repetition. Four
events are two mails of colleagues, whose scans may each precede the other's row,
and two messages of a contact around its mapping. The numbers of the gate
(3 in a minute, 30 in an hour) are constants of Outreach: a smaller limit makes the
same steps happen sooner.

Symmetry is over handlers, requests, drafts and leads that nothing tells apart
(in `pings`, the swap of both sellers together with their leads), and in no run
with a liveness property.

One run shows the code departing from what a comment says:

| Run | The comment | What happens |
|---|---|---|
| `burnt_reservation` | `broker/outbound.rs:67` "`Skipped` ... a previously-sent draft" | the publish fails, the reservation stays, every retry is "already sent" until a restart |

`ImplementsLedger` is what does hold of the reservations.

The modules state five more such sentences as properties that no run checks,
because TLC refutes each of them within seconds and the passing properties and
theorems say what holds in their place:

| Property | The comment | What happens |
|---|---|---|
| `LostIsTerminal` (LeadLifecycle) | `lead/state.rs:53` "`lost` itself is terminal" | two overlapping transitions: one validates, the other closes, the first writes. Without overlap it holds (`SerialLostIsTerminal`) |
| `NoSendToClosedLead` (DraftApproval) | `lead/store.rs:358` "can't accidentally approve and send a draft to a lead that's already closed" | approval never looks at the lead's state, and an approval under way passes the sweep |
| `OnePingPerMail` (InboundPipeline) | `plugin/broker.rs:1409` "doesn't ping the operator twice" | the redelivery is a *reply* to the lead the first one created, under another key. Under one key `PingsAreAskedFor` holds |
| `TextedOnce` (Pings) | `forwarder.rs:4` "idempotency dedup uses the lifted SDK `dedup` cache" | the forwarder has no such cache: a notification the broker delivers twice is texted twice. That all texts of a minute are of one notification holds (`PingsAreAskedFor`) |
| `UnsubscribeClosesLead` (InboundPipeline) | `plugin/broker.rs:745` "on an active thread also halts cron followups" | a composed lead is not found by the reply's thread id. Its sender is blocked all the same (`UnsubscribedStaysOut`) |

Six properties begin where nothing has raced, and say nothing of the raced half of
their hazard: `FreshUnlessRaced` (a load overtaken by a write, or torn by one),
`UnsubscribedStaysOut` and `AllowedGetsThrough` (such a load around the block or the
allow, or a block that is stored and not invalidated), `TuningKept`,
`FileIsLastPublished` and `LiveIsOnDisk` (PUTs that overlap). They say that the race is
the only way to go wrong.

What the passing properties exclude is reachable as well. Two overlapping deliveries on a new
thread both create a lead (`lead/store.rs:309` says "at most one lead per thread
per tenant"). A mail that reads the cache entry of a failed scrape finds no row,
invalidates the entry and scrapes again (`plugin/broker.rs:622` says that the
entry is there "so this domain doesn't re-scrape on every inbound", and the
times to live by kind of failure never come to bear). A confirmation before the
first scrape, or between a scrape's start and its row, gives a domain two
company rows. A cache load overtaken by a write inserts the old value, which
then stays (`admin/marketing_state.rs:7` says that the next reader "sees the new
value"), and two PUTs of one document, which share its temporary file, can leave
a mixed or empty file under its name (`config/mod.rs:171` says "never leaves a
half-rewritten config on disk") or swap in the other order than they saved.
InboundPipeline refutes `\A t \in Threads : Cardinality(LeadsOf(t)) <= 1`,
Enrichment `\A m \in Mails : hit[m] = "failed" => task[m] = "none"`,
ReadThroughCache `cached # NoEntry /\ (\A w \in Writers : writing[w] = 0) =>
cached = stored`, and ConfigReload `\A d \in Documents : text[target[d]] #
Broken`.

Other observations made while modelling, which no run checks:

- The comment at `admin/leads.rs:719` says the order "status flip, then append"
  avoids an approved draft without an outbound row; it is the state a crash between
  the two leaves. And a transition interrupted after `WriteState` cannot be retried
  (`lost -> lost` is refused), so its drafts stay pending.
- With tracking no two bodies are equal (each has its message id in pixel and
  links), so the anti-loop counter never fires on tracked mail; `GateHolds` says so
  (`~m.tracked`). Links are registered before the reservation is looked at, though
  `tracking.rs:90` says a retry "sees the `Skipped` short-circuit before reaching
  this fn".
- `redact_pii` is on by default, and the redactor sees a body with tracking after it was
  rewritten. If it blots out a part of a link, the mail is sent, the link's row stays
  and the reader's click is refused; the original address is not in the mail any more.
  ImplementsTracking promises something of links that leave whole only.
- Nobody transitions a lead because the gate blocked (`compliance/outbound_gate.rs:39`
  says "Caller transitions the lead to `Lost`").
- The duplicate scan of a cold mail is given an empty list of phones
  (`plugin/broker.rs:1301`), so its phone signal never fires, though
  `whatsapp_ingest.rs:327` says it will.
- `scoring.rs:290` says "Multi-match takes MAX"; weighted keywords add up
  (`PurchaseIntent`).
- A WhatsApp upsert that fails is logged, and the message is still answered as
  upserted (`UpsertFails`).
- A meeting whose excerpt is cut inside a character of several bytes panics the tool
  call (`Panics`), and nobody is told.
- The tools' pings do not ask whether the tenant is paused; those of the mail
  handlers do.

**Deadlock** is checked in all runs but five. In `config` rules that cannot be read
may keep the process from booting again: that stop is real. In `coldmail`,
`outreach`, `pings` and `contacts` every event has been delivered and answered
when a run stops: their deliveries are bounded, and nothing else is under way.

**Fairness** is assumed in two runs. In `generation` it is assumed only for the
steps of a request that is being served (`Served`): sqlite statements return, and
the model call is cut off by `LLM_TIMEOUT` (`draft.rs:486`) after which a template
answers. Neither new requests, nor dropped ones, nor restarts are fair. A waiter
needs no fairness of its own: tokio hands the lock to the first waiter when the
guard is dropped. In `enrichment` it is assumed for a mail's own steps
(`MailStep`): store statements return and the 4 second timer fires. Nothing is
assumed of scrapes, which may queue or hang for ever, nor of new mails.
Symmetry is not used in either. The new properties of the other modules are safety
properties and assume none.

## 4. Theorems

All are for every value of the constants (any number of requests, drafts,
readers, handlers, mails, sellers, persons, restarts), from the named assumptions on
the constants in each module: what is parsed is well formed (rule sets, filter rules
and PUT bodies, integer weights for finitely many keywords), values are disjoint from
the "nothing" values, a name has finitely many words, bounds are naturals (at least
one router), and handlers and leads are finite sets in InboundPipeline. A proof
module holds the theorems of one model or of a few small ones.

| Module | Theorems | Inductive invariant, and why the property alone is not inductive |
|---|---|---|
| `LeadProofs`, of LeadLifecycle | `TypeCorrect`, `FunnelKept`, `ClosingSweeps`, `SettledStay`, `MachineImplemented` | `LifecycleInv`: every visited state was one legal move from a visited one, and a request about to write validated against a visited one. `FunnelNotSkipped` alone says nothing about a request between check and write. |
| | `SerialLostIsTerminal`, `SerialReportsAreLegal` | `SerialInv`, under the assumption `OneAtATime` that there is at most one request slot: a lone request writes on the state it read. So overlap is the only cause of the two departures. |
| `LeadProofs`, of DraftApproval | `ApprovalTypeCorrect`, `ShownWasSent`, `CopiesBounded`, `LedgerImplemented`, `LifecycleImplemented` | `ApprovalInv`: a request past the publisher holds its draft's reservation alone; what this run sent is reserved; an approved draft is settled; the counters add up, counting the row an approval still owes (`Owed`). |
| `DraftGenerationProofs` | `GenerationTypeCorrect`, `NothingWasted`, `OneDraftPerSignature` | `GenInv`: a generating request holds its signature's lock, and nobody else stores that signature meanwhile. |
| `CacheProofs`, of ReadThroughCache | `CacheTypeCorrect`, `CacheFresh` | `CacheInv`: the same freshness of the values readers carry. |
| `SettingsProofs`, of ConfigReload | `TypeCorrect`, `FilesAreWhole`, `LiveFollowsDisk` | `ConfigInv`: documents and their two names share no inode, and at each step of a PUT nobody overlapped the temporary file is the one it has open and holds what it wrote. |
| `CacheProofs`, of Enrichment | `EnrichmentTypeCorrect`, `CachedIsLinked`, `LinksAreRows`, `ScrapesCoalesce` | `EnrichmentInv`: what the cache calls a company, what a scrape reports and what a confirmation chose are in the table, whose rows never leave (`RowsGrow`). `LinksHold` alone does not know that a finished scrape has a row. |
| `ColdMailProofs` | `UnsubscribedStayOut`, `AllowedGetThrough` | `FilterInv`: what was promised to a sender holds in the rows, in the copy, and in every load that will be inserted without another look (`InUse`), and a handler that was promised to is not past the filter. The property alone knows nothing of a load in flight. |
| | `TuningIsKept` | `TuningInv`: as long as no PUTs overlapped, a request about to save holds the thresholds that are stored or those it submits. |
| | `RotationIsEven` | `RoutersInv`: where a rule set rotates over one pool, the first r sellers of the pool have had one turn more than the others, r being the remainder of the cursor (`InRotation`). `RotationEven` does not say whose turn is next, so a step could favour one seller twice. One more turn moves the remainder by one or back to 0 (`NextPosition`), which needs that quotient and remainder are unique. |
| | `ColdMailTypeCorrect` | `TypeInv`: a handler past the delivery has a mail, one about to create a lead has an owner, a load and a request in progress hold well-formed settings. The score is a percentage for every configuration and every mail, since a sum of integers over a finite set is an integer (`SumIsInt`) and the clamp does the rest. |
| | `InterestNeverLowers` | none: a mail with more of the signals of interest and the same otherwise scores no less, if weights and boost are not negative. A keyword with a weight of its own leaves the shared boost, so the two sums are compared over different sets (`SumGrows`, which needs weights of at least 0: with a negative one the claim is false). |
| `ContactsProofs` | `ContactsTypeCorrect`, `TwinsAreReported` | `ContactsInv`: rows and handlers agree on who is whom, a LID's row is only written while its number is unknown, and of two twins, either one is watched by a handler that has yet to scan with both in sight, or they are reported or excused (`TwinsWatched`). `NoSilentTwins` looks at rows no handler works on and knows nothing of a scan to come. Companies have at most 200 persons, as in the model. |
| `LeadProofs`, of FollowUp | `JitterStaysInWindow`, `BacklogIsSeen` | none: arithmetic of one call, and cardinality of a page and of what it leaves. |
| `SettingsProofs`, of Pings | `PingsTypeCorrect`, `PingsSound` | `PingsInv`: every notification made, wherever it is by now (held by a handler, on the bus, texted), was asked for and, while its run lasts, has its key recorded; and two made under one key in one run are the same one. The property alone looks at texts that left and knows nothing of those on their way. |
| `OutreachProofs` | `OutreachTypeCorrect`, `TrackingImplemented` | `OutreachInv`: a message id is one request's until it leaves, what was rewritten has its rows, and a request about to publish has one permit. A rewritten body says nothing of its rows until it leaves, and what leaves is what the redactor left of it (`AwayGrows`: the marks a publication adds are registered). |
| | `GateIsHeld` | `GateInv`: every mail that left is in the log the check reads, the part of the log that belongs to mails that passed is bounded in every window, and runs that are over had their bounds when they ended. The property counts mails and the check counts log entries, refused bodies included, so the two are related by an injection. |
| `InboundPipelineProofs` | `InboundTypeCorrect`, `SiblingsBounded`, `RepliesFound`, `FiledRight` | `InboundInv`: what the steps of compose have done, that answered mails have left, that a handler's target belongs to its mail, and that a thread's leads plus the handlers that may still open one are no more than the handlers (`LeadsAndOpeners`, by cardinality). |

Only model-checked: `EveryRequestEnds` and `LeadsGoOn` (liveness under fairness is
out of the prover's reach, as is ENABLED). Every safety property a run checks is also
a theorem. The library's induction theorems take an operator as a parameter, which
no installed prover can instantiate; facts about every finite set (a sum, the first
rule of a list) are proved from a smallest counterexample instead: strict inclusion
of the finite sets of a finite set is well founded, so a set that lacks the property
has a subset that lacks it and all of whose own subsets have it (`SmallestSubset`).
No module declares a RECURSIVE operator. What TLC adds to the safety theorems is the mutants: each property is
broken by a small change of the code's model.

## 5. What is left out

- Leads are never deleted by the code, so "not found" exits do not arise.
- Configuration refusals (no seller, no SMTP credential, no broker handle yet,
  `main.rs:544`) change nothing; an approval or a compose starts after them.
- Bodies, subjects, notes, scores: data no property looks at. Editing a draft
  while it is approved is listed as a hazard.
- Undecodable events change nothing and are not delivered. In InboundPipeline
  persons and routing are a choice: they decide whether a cold mail is admitted.
- Whether a mail unsubscribes, which vocabulary entries occur in it, whether a
  routing condition holds of it, what a display name looks like, how many images
  and visible characters it has: attributes of the mail, since the phrases and the
  MIME and HTML parsing behind them are data or a library's.
- Guardrails tag a new lead and write audit rows; the demotion of drafts they name
  is not wired (`plugin/broker.rs:1188`), so nothing modelled depends on them.
- Not called by the process, hence not modelled: `identity/resolver.rs`,
  `cross_thread`, `signature` and `llm_extractor`, the sentiment and intent of
  `lead/score.rs`, and `broker/promo_classifier.rs`, which no module declares.
- `list_by_company` returns at most 200 rows to the duplicate scan; a company of the
  model is smaller.
- E-mail templates (rendering, sanitising, a table), the bearer check, read models
  and counters: no state that interacts.
- Signatures of tracking links are taken to verify for the URLs that were sent whole, and
  for no other. What the redactor takes for personal data is not modelled, only what
  becomes of a body in which it finds some.
- The dedup cache is the in-memory one of the default build; the optional sled
  backend (`main.rs:664`) survives a restart.
- In InboundPipeline only composed leads have recorded ids. Approved drafts
  record theirs as well (`tracked` in DraftApproval); their replies also carry
  headers of the thread they continue.
- In Enrichment the name and the stamp of a company row are left out: a scrape that
  ends after a confirmation of its own row overwrites the confirmed name. Personal
  domains and malformed addresses end the hook before it reads anything.
- A compose request dropped half way looks like the same request at a restart.

## 6. Plan

Done: all components that keep state of their own, but the templates' table, each
with its module, and theorems for LeadLifecycle, FollowUp, DraftApproval, DraftGeneration,
ReadThroughCache, ConfigReload, Enrichment, InboundPipeline, ColdMail, Outreach,
Pings and Contacts.

Next, in this order:

1. Drafts with a body in DraftApproval: what was sent is what was last shown, and
   an acknowledged edit that was not sent is reported (`admin/leads.rs:464`).
2. The pause switch of ReadThroughCache composed with the handlers that read it.
3. Templates, once drafts have bodies.
