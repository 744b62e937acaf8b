-------------------------------- MODULE Pings --------------------------------
(* How a seller is told about a lead.  A handler of an inbound mail or of a  *)
(* tool decides from the seller's settings whether to tell                   *)
(* (notification.rs), leaves out what it has told in this minute and         *)
(* publishes a notification; the process hears its own notification and      *)
(* turns it into a WhatsApp or e-mail text (forwarder.rs).  The audit row    *)
(* that follows every attempt, published or not, is a log nothing reads here.*)
(*                                                                           *)
(* The settings may be replaced between any two of these steps, and either   *)
(* publication may fail, and the broker may deliver a notification again     *)
(* (FOLLOWUPS.md speaks of at-least-once).  Whether the tenant is paused is  *)
(* a read of ReadThroughCache: a handler that sees it paused does not come   *)
(* here.                                                                     *)
EXTENDS Naturals, FiniteSets

CONSTANTS
    Handlers,
    Leads, Sellers, SellerOf,
    Kinds,         \* the events a seller can ask to be told of
    SellerRows,    \* what PUT /config/sellers may say of a seller
    NoRow, NoAgent, Nothing,
    Overrides,     \* what the notification templates may override
    Bodies,        \* of the texts a meeting may be read from
    MaxTime, MaxRuns,
    MaxRows,       \* bounds: of the settings the sellers have in all,
    MaxEvents,     \* of the events,
    MaxCopies      \* and of the times one notification is texted

Languages == {"es", "en"}

(* NotificationChannel: where a text goes, with what the frontend resolved   *)
(* when the seller was saved.                                                *)
Unresolved == ""
Disabled == [by |-> "disabled", via |-> Unresolved, to |-> Unresolved]

ASSUME SettingsAssumption ==
    /\ Kinds \subseteq {"lead_created", "lead_replied", "lead_transitioned", "meeting_intent"}
    /\ \A row \in SellerRows : /\ row.configured \in BOOLEAN /\ row.on \subseteq Kinds
                               /\ row.language \in Languages
                               /\ row.channel.by \in {"disabled", "whatsapp", "email"}
    /\ Overrides \subseteq Kinds \X Languages
    /\ NoRow \notin SellerRows /\ SellerOf \in [Leads -> Sellers]
ASSUME BoundsAssumption == MaxTime \in Nat /\ MaxRuns \in Nat \ {0} /\ MaxRows \in Nat
                         /\ MaxEvents \in Nat /\ MaxCopies \in Nat

(* What is passed on: a row of the settings goes into each notification.     *)
(* The number of the event it is about stands for at_ms: two notifications   *)
(* are two, whatever else they have in common.                               *)
Events == [no : 1 .. MaxEvents, lead : Leads, kind : Kinds]
Notifications ==
    [no : 1 .. MaxEvents, lead : Leads, kind : Kinds, agent : {row.agent : row \in SellerRows},
     channel : {row.channel : row \in SellerRows},
     summary : [text : {"override", "builtin"}, language : Languages],
     minute : 0 .. MaxTime, run : 1 .. MaxRuns]

ASSUME NothingAssumption == Nothing \notin Events \cup Notifications

VARIABLES
    clock,       \* in minutes, as the dedup key counts it
    run,
    heard,       \* events so far
    sellers,     \* the live copy of the settings
    templates,   \* the live overrides
    told,        \* the dedup cache of this run: <<lead, kind, minute>>
    step,        \* the next step of each handler
    event,       \* the lead and kind it is about
    ping,        \* the notification it is to publish
    bus,         \* notifications published that may (still) be delivered
    outbox,      \* the texts that left, with which copy of its notification each is
    said         \* history: every row a seller has had

settingVars == <<sellers, templates, said>>
handlerVars == <<step, event, ping>>
pingsVars == <<clock, run, heard, settingVars, told, handlerVars, bus, outbox>>

PingsInit ==
    /\ clock = 0 /\ run = 1 /\ heard = 0
    /\ sellers \in [Sellers -> SellerRows]
    /\ templates \in {{}, Overrides}
    /\ said = {<<s, sellers[s]>> : s \in Sellers}
    /\ told = {}
    /\ step = [h \in Handlers |-> "idle"]
    /\ event = [h \in Handlers |-> Nothing]
    /\ ping = [h \in Handlers |-> Nothing]
    /\ bus = {} /\ outbox = {}

------------------------------------------------------------------------------
(* lead_detect_meeting_intent.  How sure the classifier is, in percent.      *)
Confidence(body) ==
    IF body.calendar THEN 90 ELSE IF body.agrees /\ body.names_a_time THEN 78 ELSE 0

NotifyFloor == 70

(* short_excerpt cuts at byte 120, wherever in a character that is: the call *)
(* panics when it is inside one.  A calendar link is quoted instead.         *)
Panics(body) == ~body.calendar /\ body.cut = "inside a character"

Detected(body) == ~Panics(body) /\ Confidence(body) >= NotifyFloor

Finish(h) ==
    /\ step' = [step EXCEPT ![h] = "idle"]
    /\ event' = [event EXCEPT ![h] = Nothing]
    /\ ping' = [ping EXCEPT ![h] = Nothing]

(* A mail opened or reached a lead, a lead was qualified, or a text speaks   *)
(* of a meeting.  Hearing of the same again is an event of its own.          *)
Hear(h, l, kind) ==
    /\ step[h] = "idle"
    /\ heard < MaxEvents /\ heard' = heard + 1
    /\ kind = "meeting_intent" => \E b \in Bodies : Detected(b)
    /\ step' = [step EXCEPT ![h] = "decide"]
    /\ event' = [event EXCEPT ![h] = [no |-> heard + 1, lead |-> l, kind |-> kind]]
    /\ UNCHANGED <<clock, run, settingVars, told, ping, bus, outbox>>

------------------------------------------------------------------------------
(* notification.rs, in the order it asks.                                    *)
Outcome(row, kind) ==
    CASE row = NoRow -> "SellerMissing"
      [] row # NoRow /\ ~row.configured -> "NotConfigured"
      [] row # NoRow /\ row.configured /\ kind \notin row.on -> "EventDisabled"
      [] row # NoRow /\ row.configured /\ kind \in row.on /\ row.agent = NoAgent ->
             "NoAgentBound"
      [] row # NoRow /\ row.configured /\ kind \in row.on /\ row.agent # NoAgent
             /\ row.channel = Disabled -> "ChannelDisabled"
      [] OTHER -> "Publish"

(* The override of a kind in the seller's language, or the built-in text.    *)
Summary(kind, language) ==
    [text |-> IF <<kind, language>> \in templates THEN "override" ELSE "builtin",
     language |-> language]

Payload(e, row) ==
    [no |-> e.no, lead |-> e.lead, kind |-> e.kind, agent |-> row.agent, channel |-> row.channel,
     summary |-> Summary(e.kind, row.language), minute |-> clock, run |-> run]

Row(h) == sellers[SellerOf[event[h].lead]]

Key(h) == <<event[h].lead, event[h].kind, clock>>

\* Mutant: the key is looked up and never recorded.
BugTell(h) ==
    /\ step[h] = "decide"
    /\ Outcome(Row(h), event[h].kind) = "Publish"
    /\ Key(h) \notin told
    /\ ping' = [ping EXCEPT ![h] = Payload(event[h], Row(h))]
    /\ step' = [step EXCEPT ![h] = "publish"]
    /\ UNCHANGED <<clock, run, heard, settingVars, told, event, bus, outbox>>

(* One snapshot of the settings is read, and the key recorded, without an    *)
(* await in between.                                                         *)
Tell(h) ==
    /\ step[h] = "decide"
    /\ Outcome(Row(h), event[h].kind) = "Publish"
    /\ Key(h) \notin told
    /\ told' = told \cup {Key(h)}
    /\ ping' = [ping EXCEPT ![h] = Payload(event[h], Row(h))]
    /\ step' = [step EXCEPT ![h] = "publish"]
    /\ UNCHANGED <<clock, run, heard, settingVars, event, bus, outbox>>

Deduped(h) ==
    /\ step[h] = "decide"
    /\ Outcome(Row(h), event[h].kind) = "Publish"
    /\ Key(h) \in told
    /\ Finish(h)
    /\ UNCHANGED <<clock, run, heard, settingVars, told, bus, outbox>>

DoNotTell(h) ==
    /\ step[h] = "decide"
    /\ Outcome(Row(h), event[h].kind) # "Publish"
    /\ Finish(h)
    /\ UNCHANGED <<clock, run, heard, settingVars, told, bus, outbox>>

(* A failed publication is logged; the key stays recorded.                   *)
PublishPing(h) ==
    /\ step[h] = "publish"
    /\ bus' \in {bus, bus \cup {ping[h]}}
    /\ Finish(h)
    /\ UNCHANGED <<clock, run, heard, settingVars, told, outbox>>

------------------------------------------------------------------------------
(* forwarder.rs: where the text goes is what the notification says, not what *)
(* the settings say by now.                                                  *)
Resolved(channel) ==
    CASE channel.by = "whatsapp" -> channel.via # Unresolved
      [] channel.by = "email" -> channel.via # Unresolved /\ channel.to # Unresolved
      [] OTHER -> FALSE

\* Mutant: a channel the frontend did not resolve is used all the same.
BugText(p, copy) ==
    IF p.channel = Disabled THEN {}
    ELSE {[by |-> p.channel.by, via |-> p.channel.via, to |-> p.channel.to, ping |-> p,
           copy |-> copy]}

(* A WhatsApp text is addressed to the agent, an e-mail to the address.      *)
Text(p, copy) ==
    IF ~Resolved(p.channel) THEN {}
    ELSE {[by |-> p.channel.by, via |-> p.channel.via, ping |-> p, copy |-> copy,
           to |-> IF p.channel.by = "whatsapp" THEN p.agent ELSE p.channel.to]}

Copies(p) == Cardinality({t \in outbox : t.ping = p})

(* No record is kept of what was forwarded: what the broker delivers again   *)
(* is texted again.                                                          *)
Forward(p) ==
    /\ bus' \in {bus, bus \ {p}}     \* it may be delivered once more, or not
    /\ LET copy == Copies(p) + 1
       IN  /\ copy <= MaxCopies
           /\ outbox' \in {outbox, outbox \cup Text(p, copy)}     \* or publishing fails
    /\ UNCHANGED <<clock, run, heard, settingVars, told, handlerVars>>

------------------------------------------------------------------------------
(* PUT /config/sellers and /config/notification_templates swap the live copy.*)
PutSeller(s) ==
    /\ sellers' \in {[sellers EXCEPT ![s] = row] : row \in SellerRows \cup {NoRow}}
    /\ said' = said \cup {<<s, sellers'[s]>>}
    /\ Cardinality(said') <= MaxRows
    /\ UNCHANGED <<clock, run, heard, templates, told, handlerVars, bus, outbox>>

PutTemplates ==
    /\ templates' \in {{}, Overrides}
    /\ UNCHANGED <<clock, run, heard, sellers, said, told, handlerVars, bus, outbox>>

Tick ==
    /\ clock < MaxTime
    /\ clock' = clock + 1
    /\ UNCHANGED <<run, heard, settingVars, told, handlerVars, bus, outbox>>

(* The dedup cache is in memory; what was published may be lost, or be       *)
(* delivered to the next run.                                                *)
Restart ==
    /\ run < MaxRuns
    /\ run' = run + 1
    /\ told' = {} /\ bus' \in SUBSET bus
    /\ step' = [h \in Handlers |-> "idle"]
    /\ event' = [h \in Handlers |-> Nothing]
    /\ ping' = [h \in Handlers |-> Nothing]
    /\ UNCHANGED <<clock, heard, settingVars, outbox>>

HandlerStep(h) ==
    \/ \E l \in Leads, kind \in Kinds : Hear(h, l, kind)
    \/ Tell(h) \/ Deduped(h) \/ DoNotTell(h)
    \/ PublishPing(h)

PingsNext ==
    \/ \E h \in Handlers : HandlerStep(h)
    \/ \E p \in bus : Forward(p)
    \/ \E s \in Sellers : PutSeller(s)
    \/ PutTemplates
    \/ Tick
    \/ Restart

PingsSpec == PingsInit /\ [][PingsNext]_pingsVars

------------------------------------------------------------------------------
(* Type invariant; a text that left has an instance, and a mail an address.  *)
PingsTypeOK ==
    /\ clock \in 0 .. MaxTime /\ run \in 1 .. MaxRuns /\ heard \in 0 .. MaxEvents
    /\ sellers \in [Sellers -> SellerRows \cup {NoRow}]
    /\ templates \subseteq Overrides
    /\ told \subseteq Leads \X Kinds \X (0 .. clock)
    /\ step \in [Handlers -> {"idle", "decide", "publish"}]
    /\ \A h \in Handlers :
          /\ step[h] = "idle" <=> event[h] = Nothing
          /\ step[h] = "publish" <=> ping[h] # Nothing
    /\ \A p \in bus : p.minute <= clock /\ p.run <= run
    /\ \A t \in outbox : /\ t.by \in {"whatsapp", "email"}
                         /\ t.via # Unresolved
                         /\ t.by = "email" => t.to # Unresolved
                         /\ t.copy <= MaxCopies

(* However the settings change between the decision, the publication and the *)
(* forwarding, a text is one that some settings of the lead's own seller     *)
(* asked for, with the agent, the channel and the language of those same     *)
(* settings; and "a tool retry inside the same minute doesn't ping the       *)
(* operator twice" while the process runs, however the handlers interleave:  *)
(* of one lead, kind and minute all texts are of one notification, the       *)
(* further ones deliveries of it that the broker repeats (notification.rs,   *)
(* forwarder.rs, tools/lead_detect_meeting_intent.rs).                       *)
PingsAreAskedFor ==
    /\ \A t \in outbox : \E row \in SellerRows :
          /\ <<SellerOf[t.ping.lead], row>> \in said
          /\ row.configured
          /\ t.ping.kind \in row.on
          /\ row.agent = t.ping.agent
          /\ row.channel = t.ping.channel
          /\ row.language = t.ping.summary.language
          /\ t.by = row.channel.by /\ t.via = row.channel.via
    /\ \A t, u \in outbox :
          (/\ t.ping.lead = u.ping.lead /\ t.ping.kind = u.ping.kind
           /\ t.ping.minute = u.ping.minute /\ t.ping.run = u.ping.run)
          => t.ping.no = u.ping.no

(* "Subject routing logic + idempotency dedup" (the header of forwarder.rs): *)
(* one notification is texted once.  A delivery that is repeated refutes it. *)
TextedOnce == \A t, u \in outbox : t.ping = u.ping => t = u

==============================================================================
