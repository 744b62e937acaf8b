------------------------------- MODULE ColdMail -------------------------------
(* What happens to a mail that opens a thread, up to its lead: disposable    *)
(* gate, unsubscribe detector, promo filter, router and score of             *)
(* handle_inbound_event (plugin/broker.rs), next to the operators who change *)
(* the filter's settings (admin/spam_filter.rs) and the routing rules.       *)
(*                                                                           *)
(* The settings are two rows of the store and a copy in memory, RulesCache:  *)
(* a miss reads the configuration, then the rules, then inserts, and a       *)
(* change writes, then invalidates.  Every mail here has a thread of its     *)
(* own; what replies and redeliveries do to the lead store is                *)
(* InboundPipeline, the file of the routing rules ConfigReload.              *)
EXTENDS SpamFilter, LeadRouting, LeadScore

CONSTANTS
    Handlers,        \* slots for the events in flight
    Mails,
    Mail,            \* the record of what is looked at in each mail
    OptOuts,         \* mails with an unsubscribe keyword
    NoMail,
    NoCopy,          \* nothing cached
    Operators,       \* slots for the admin requests in flight
    RuleChoices,     \* the rules operators may add
    Bodies,          \* the bodies of PUT: a strictness, and thresholds or Keep
    Keep,            \* a PUT without thresholds
    RuleSets,        \* the routing rules operators may put
    SellerRecords,   \* the sellers that have a record
    Instants,        \* the times at which a mail may be routed
    Scoring,         \* the tenant's weights
    MaxDeliveries,   \* bound on deliveries, dry runs and tool calls
    MaxWrites,       \* bound on changes of the settings
    MaxRouters       \* bound on the routers of one run of the process

ASSUME ScoringAssumption == IsScoringConfig(Scoring)
ASSUME RuleSetsAssumption == \A ruleSet \in RuleSets : IsRuleSet(ruleSet)
ASSUME BoundsAssumption ==
    MaxDeliveries \in Nat /\ MaxWrites \in Nat /\ MaxRouters \in Nat \ {0}

Senders == {Mail[m].from : m \in Mails}
RuleRows == [kind : RuleKinds, value : Senders \cup {r.value : r \in RuleChoices}]

(* What the requests carry has been parsed.                                  *)
ASSUME RequestsAssumption ==
    /\ RuleChoices \subseteq RuleRows
    /\ Bodies \subseteq [strictness : Strictness, thresholds : Thresholds \cup {Keep}]

DefaultsOnly == [config |-> DefaultConfig, rules |-> {}]
Unloaded == [config |-> DefaultConfig, rules |-> {}]

VARIABLES
    config,    \* the row of spam_filter_config
    rules,     \* the rows of spam_filter_rules
    cached,    \* RulesCache: a copy of both, or NoCopy
    request,   \* the admin requests: their step and the row they will save
    step,      \* the next step of each handler
    load,      \* how far its load of the settings is: "no", "rules", "put"
    view,      \* what it has loaded so far
    mail,      \* the mail it handles
    router,    \* the router it took when the event arrived
    owner,     \* the seller it has chosen
    fate,      \* how the last mail of the slot ended
    routers,   \* the routers of this run of the process, the last one in use
    leads,     \* the leads created, with seller and score
    delivered,
    writes,
    gone,      \* history: senders blocked since an invalidation nobody raced
    vetted,    \* history: senders allowed since an invalidation nobody raced
    muted,     \* history: handlers whose mail came from somebody gone
    welcome,   \* history: handlers whose mail came from somebody vetted
    tuned,     \* history: the thresholds last submitted
    overlap    \* history: two PUTs of the configuration have overlapped

settingVars == <<config, rules, cached>>
handlerVars == <<step, load, view, mail, router, owner, fate>>
historyVars == <<gone, vetted, muted, welcome>>
tuningVars == <<tuned, overlap>>
vars == <<settingVars, request, handlerVars, routers, leads, delivered, writes,
          historyVars, tuningVars>>

Idle == [step |-> "idle", row |-> DefaultConfig, thresholds |-> Keep]

NewRouter(ruleSet) ==
    [ruleSet |-> ruleSet, cursor |-> 0, turns |-> [s \in Sellers |-> 0]]

Init ==
    /\ config = DefaultConfig
    /\ rules = {}
    /\ cached = NoCopy
    /\ request = [o \in Operators |-> Idle]
    /\ step = [h \in Handlers |-> "idle"]
    /\ load = [h \in Handlers |-> "no"]
    /\ view = [h \in Handlers |-> Unloaded]
    /\ mail = [h \in Handlers |-> NoMail]
    /\ router = [h \in Handlers |-> 1]
    /\ owner = [h \in Handlers |-> NoSeller]
    /\ fate = [h \in Handlers |-> "none"]
    /\ routers = <<NewRouter(EmptyRuleSet)>>
    /\ leads = {}
    /\ delivered = 0
    /\ writes = 0
    /\ gone = {} /\ vetted = {}
    /\ muted = [h \in Handlers |-> FALSE]
    /\ welcome = [h \in Handlers |-> FALSE]
    /\ tuned = Balanced
    /\ overlap = FALSE

(* Under these rules the filter drops every mail of the sender, or none.     *)
Blocks(rs, s) ==
    s \in Values(rs, "sender_block") /\ s \notin Values(rs, "sender_allow")
Allows(rs, s) == s \in Values(rs, "sender_allow")

(* The history of a change of the rows: who is no longer blocked or allowed  *)
(* has nothing promised.                                                     *)
RulesBecome(rs) ==
    /\ rules' = rs
    /\ gone' = {s \in gone : Blocks(rs, s)}
    /\ vetted' = {s \in vetted : Allows(rs, s)}
    /\ muted' = [h \in Handlers |-> muted[h] /\ Blocks(rs, Mail[mail[h]].from)]
    /\ welcome' = [h \in Handlers |-> welcome[h] /\ Allows(rs, Mail[mail[h]].from)]

(* RulesCache::invalidate.  A load that has read other rules and will insert *)
(* them afterwards races it.                                                 *)
Forget ==
    /\ cached' = NoCopy
    /\ LET raced == \E h \in Handlers : load[h] = "put" /\ view[h].rules # rules
       IN  /\ gone' = IF raced THEN gone ELSE {s \in Senders : Blocks(rules, s)}
           /\ vetted' = IF raced THEN vetted ELSE {s \in Senders : Allows(rules, s)}
    /\ UNCHANGED <<config, rules, muted, welcome>>

GoTo(h, s) == step' = [step EXCEPT ![h] = s]

Proceed(h, s) ==
    /\ GoTo(h, s)
    /\ UNCHANGED <<router, owner, fate>>

Finish(h, how) ==
    /\ GoTo(h, "idle")
    /\ router' = [router EXCEPT ![h] = 1]
    /\ owner' = [owner EXCEPT ![h] = NoSeller]
    /\ fate' = [fate EXCEPT ![h] = how]

------------------------------------------------------------------------------
(* A mail arrives: the handler takes the router of the moment.               *)
Deliver(h, m) ==
    /\ step[h] = "idle"
    /\ delivered < MaxDeliveries
    /\ delivered' = delivered + 1
    /\ mail' = [mail EXCEPT ![h] = m]
    /\ router' = [router EXCEPT ![h] = Len(routers)]
    /\ fate' = [fate EXCEPT ![h] = "none"]
    /\ muted' = [muted EXCEPT ![h] = Mail[m].from \in gone]
    /\ welcome' = [welcome EXCEPT ![h] = Mail[m].from \in vetted]
    /\ GoTo(h, CASE Mail[m].domainKind = "disposable" -> "gate"
                 [] Mail[m].domainKind # "disposable" /\ m \in OptOuts -> "block"
                 [] OTHER -> "thread")
    /\ UNCHANGED <<settingVars, request, load, view, owner, routers, leads, writes, gone,
                   vetted, tuningVars>>

(* The dry run of the settings screen goes through the same cache.           *)
DryRun(h) ==
    /\ step[h] = "idle"
    /\ delivered < MaxDeliveries
    /\ delivered' = delivered + 1
    /\ fate' = [fate EXCEPT ![h] = "none"]
    /\ muted' = [muted EXCEPT ![h] = FALSE]
    /\ welcome' = [welcome EXCEPT ![h] = FALSE]
    /\ GoTo(h, "test")
    /\ UNCHANGED <<settingVars, request, load, view, mail, router, owner, routers, leads,
                   writes, gone, vetted, tuningVars>>

(* What a handler does with the settings it has got.                         *)
Decide(h, settings) ==
    \/ /\ step[h] = "gate"
       /\ IF Rescued(Mail[mail[h]], settings.rules)
          THEN Proceed(h, IF mail[h] \in OptOuts THEN "block" ELSE "thread")
          ELSE Finish(h, "disposable")
    \/ /\ step[h] = "filter"
       /\ IF IsHuman(Mail[mail[h]], settings.config, settings.rules)
          THEN Proceed(h, "route")
          ELSE Finish(h, "filtered")
    \/ step[h] = "test" /\ Finish(h, "tested")

(* RulesCache::get_or_load: a hit,                                           *)
UseCached(h) ==
    /\ load[h] = "no"
    /\ cached # NoCopy
    /\ Decide(h, cached)
    /\ UNCHANGED <<settingVars, request, load, view, mail, routers, leads,
                   delivered, writes, historyVars, tuningVars>>

(* or a miss: the first statement of load_from_store,                        *)
ReadConfig(h) ==
    /\ step[h] \in {"gate", "filter", "test"}
    /\ load[h] = "no"
    /\ cached = NoCopy
    /\ load' = [load EXCEPT ![h] = "rules"]
    /\ view' = [view EXCEPT ![h].config = config]
    /\ UNCHANGED <<settingVars, request, step, mail, router, owner, fate, routers, leads,
                   delivered, writes, historyVars, tuningVars>>

(* the second,                                                               *)
ReadRules(h) ==
    /\ load[h] = "rules"
    /\ load' = [load EXCEPT ![h] = "put"]
    /\ view' = [view EXCEPT ![h].rules = rules]
    /\ UNCHANGED <<settingVars, request, step, mail, router, owner, fate, routers, leads,
                   delivered, writes, historyVars, tuningVars>>

EndLoad(h) ==
    /\ load' = [load EXCEPT ![h] = "no"]
    /\ view' = [view EXCEPT ![h] = Unloaded]

(* the insert, which looks at nothing,                                       *)
Insert(h) ==
    /\ load[h] = "put"
    /\ cached' = view[h]
    /\ Decide(h, view[h])
    /\ EndLoad(h)
    /\ UNCHANGED <<config, rules, request, mail, routers, leads, delivered,
                   writes, historyVars, tuningVars>>

(* or, when a statement fails, the built-in settings, which know no sender.  *)
LoadFails(h) ==
    /\ load[h] = "rules"
    /\ Decide(h, DefaultsOnly)
    /\ EndLoad(h)
    /\ muted' = [muted EXCEPT ![h] = FALSE]
    /\ welcome' = [welcome EXCEPT ![h] = FALSE]
    /\ UNCHANGED <<settingVars, request, mail, routers, leads, delivered,
                   writes, gone, vetted, tuningVars>>

(* The unsubscribe detector blocks the sender; when add_rule reports an      *)
(* error the copy in memory is left alone, also when the row went in and     *)
(* only the reading back failed.                                             *)
BlockSender(h) ==
    /\ step[h] = "block"
    /\ RulesBecome(rules \cup {[kind |-> "sender_block", value |-> Mail[mail[h]].from]})
    /\ \/ Proceed(h, "forget")
       \/ Finish(h, "unsubscribed")
    /\ UNCHANGED <<config, cached, request, load, view, mail, routers, leads,
                   delivered, writes, tuningVars>>

BlockFails(h) ==
    /\ step[h] = "block"
    /\ Finish(h, "unsubscribed")
    /\ UNCHANGED <<settingVars, request, load, view, mail, routers, leads,
                   delivered, writes, historyVars, tuningVars>>

ForgetCopy(h) ==
    /\ step[h] = "forget"
    /\ Forget
    /\ Finish(h, "unsubscribed")
    /\ UNCHANGED <<request, load, view, mail, routers, leads, delivered,
                   writes, tuningVars>>

(* A mail on the thread of a lead is never filtered, on purpose.             *)
FindThread(h) ==
    /\ step[h] = "thread"
    /\ IF \E l \in leads : l.mail = mail[h]
       THEN Finish(h, "reply")
       ELSE Proceed(h, "filter")
    /\ UNCHANGED <<settingVars, request, load, view, mail, routers, leads,
                   delivered, writes, historyVars, tuningVars>>

(* A turn of the cursor of router r, whoever asks for it.                    *)
TakeTurn(r, target) ==
    LET pick == Pick(target, routers[r].cursor)
    IN  routers' =
          IF TakesTurn(target)
          THEN [routers EXCEPT ![r].cursor = Advanced(target, @), ![r].turns[pick] = @ + 1]
          ELSE routers

(* route_inbound: by the router taken on arrival, the sellers of the moment  *)
(* and the clock.  A seller who is away has had the turn all the same.       *)
Route(h) ==
    /\ step[h] = "route"
    /\ LET target == Dispatch(routers[router[h]].ruleSet, mail[h])
           pick == Pick(target, routers[router[h]].cursor)
       IN  /\ TakeTurn(router[h], target)
           /\ IF pick = NoSeller
              THEN Finish(h, "dropped by a rule")
              ELSE /\ GoTo(h, "create")
                   /\ \E now \in Instants :
                         owner' = [owner EXCEPT ![h] = Owner(pick, SellerRecords, now)]
                   /\ UNCHANGED <<router, fate>>
    /\ UNCHANGED <<settingVars, request, load, view, mail, leads, delivered, writes,
                   historyVars, tuningVars>>

(* The agent's tool asks the router in use with no mail at hand.             *)
ToolRoutes ==
    /\ delivered < MaxDeliveries
    /\ delivered' = delivered + 1
    /\ TakeTurn(Len(routers), Dispatch(routers[Len(routers)].ruleSet, NoMail))
    /\ UNCHANGED <<settingVars, request, handlerVars, leads, writes, historyVars,
                   tuningVars>>

CreateLead(h) ==
    /\ step[h] = "create"
    /\ leads' = leads \cup {[mail |-> mail[h], seller |-> owner[h],
                             score |-> Score(Mail[mail[h]], Scoring)]}
    /\ Finish(h, "lead")
    /\ UNCHANGED <<settingVars, request, load, view, mail, routers, delivered,
                   writes, historyVars, tuningVars>>

CreateFails(h) ==
    /\ step[h] = "create"
    /\ Finish(h, "lost")
    /\ UNCHANGED <<settingVars, request, load, view, mail, routers, leads,
                   delivered, writes, historyVars, tuningVars>>

------------------------------------------------------------------------------
(* admin/spam_filter.rs.  Every request ends with the invalidation, unless   *)
(* it is cut short before.                                                   *)
Ask(o, s, row, thresholds) ==
    request' = [request EXCEPT ![o] = [step |-> s, row |-> row, thresholds |-> thresholds]]

(* Mutant: without thresholds in the body the built-in ones are stored.      *)
BugReadRow(o, body) ==
    /\ request[o].step = "idle"
    /\ writes < MaxWrites
    /\ writes' = writes + 1
    /\ Ask(o, "save",
           [strictness |-> body.strictness,
            custom |-> IF body.thresholds = Keep THEN Balanced ELSE body.thresholds],
           body.thresholds)
    /\ overlap' = (overlap \/ \E other \in Operators \ {o} : request[other].step = "save")
    /\ UNCHANGED <<settingVars, handlerVars, routers, leads, delivered, historyVars, tuned>>

(* put_config_handler reads the row and changes what the body names.         *)
ReadRow(o, body) ==
    /\ request[o].step = "idle"
    /\ writes < MaxWrites
    /\ writes' = writes + 1
    /\ Ask(o, "save",
           [strictness |-> body.strictness,
            custom |-> IF body.thresholds = Keep THEN config.custom ELSE body.thresholds],
           body.thresholds)
    /\ overlap' = (overlap \/ \E other \in Operators \ {o} : request[other].step = "save")
    /\ UNCHANGED <<settingVars, handlerVars, routers, leads, delivered, historyVars, tuned>>

(* It writes back all of it.                                                 *)
SaveRow(o) ==
    /\ request[o].step = "save"
    /\ config' = request[o].row
    /\ tuned' = IF request[o].thresholds = Keep THEN tuned ELSE request[o].thresholds
    /\ Ask(o, "forget", DefaultConfig, Keep)
    /\ UNCHANGED <<rules, cached, handlerVars, routers, leads, delivered, writes,
                   historyVars, overlap>>

AddRule(o, r) ==
    /\ request[o].step = "idle"
    /\ writes < MaxWrites
    /\ writes' = writes + 1
    /\ RulesBecome(rules \cup {r})
    /\ \/ Ask(o, "forget", DefaultConfig, Keep)
       \/ UNCHANGED request
    /\ UNCHANGED <<config, cached, handlerVars, routers, leads, delivered, tuningVars>>

DeleteRule(o, r) ==
    /\ request[o].step = "idle"
    /\ writes < MaxWrites
    /\ writes' = writes + 1
    /\ RulesBecome(rules \ {r})
    /\ Ask(o, "forget", DefaultConfig, Keep)
    /\ UNCHANGED <<config, cached, handlerVars, routers, leads, delivered, tuningVars>>

Invalidate(o) ==
    /\ request[o].step = "forget"
    /\ Forget
    /\ Ask(o, "idle", DefaultConfig, Keep)
    /\ UNCHANGED <<handlerVars, routers, leads, delivered, writes, tuningVars>>

(* The client goes away, or the row cannot be saved.                         *)
CutShort(o) ==
    /\ request[o].step # "idle"
    /\ Ask(o, "idle", DefaultConfig, Keep)
    /\ UNCHANGED <<settingVars, handlerVars, routers, leads, delivered, writes, historyVars,
                   tuningVars>>

------------------------------------------------------------------------------
(* PUT of the routing rules: a router whose cursor starts at 0.              *)
SwapRouter(ruleSet) ==
    /\ Len(routers) < MaxRouters
    /\ routers' = Append(routers, NewRouter(ruleSet))
    /\ UNCHANGED <<settingVars, request, handlerVars, leads, delivered, writes, historyVars,
                   tuningVars>>

(* Copy, router, events and requests are in memory.                          *)
Restart ==
    /\ cached' = NoCopy
    /\ request' = [o \in Operators |-> Idle]
    /\ step' = [h \in Handlers |-> "idle"]
    /\ load' = [h \in Handlers |-> "no"]
    /\ view' = [h \in Handlers |-> Unloaded]
    /\ router' = [h \in Handlers |-> 1]
    /\ owner' = [h \in Handlers |-> NoSeller]
    /\ routers' = <<NewRouter(routers[Len(routers)].ruleSet)>>
    /\ gone' = {s \in Senders : Blocks(rules, s)}
    /\ vetted' = {s \in Senders : Allows(rules, s)}
    /\ UNCHANGED <<config, rules, mail, fate, leads, delivered, writes, muted,
                   welcome, tuningVars>>

HandlerStep(h) ==
    \/ \E m \in Mails : Deliver(h, m)
    \/ DryRun(h)
    \/ UseCached(h)
    \/ ReadConfig(h) \/ ReadRules(h) \/ Insert(h) \/ LoadFails(h)
    \/ BlockSender(h) \/ BlockFails(h) \/ ForgetCopy(h)
    \/ FindThread(h)
    \/ Route(h)
    \/ CreateLead(h) \/ CreateFails(h)

OperatorStep(o) ==
    \/ \E body \in Bodies : ReadRow(o, body)
    \/ SaveRow(o)
    \/ \E r \in RuleChoices : AddRule(o, r)
    \/ \E r \in rules : DeleteRule(o, r)
    \/ Invalidate(o)
    \/ CutShort(o)

Next ==
    \/ \E h \in Handlers : HandlerStep(h)
    \/ \E o \in Operators : OperatorStep(o)
    \/ \E ruleSet \in RuleSets : SwapRouter(ruleSet)
    \/ ToolRoutes
    \/ Restart

Spec == Init /\ [][Next]_vars

------------------------------------------------------------------------------
HandlerSteps == {"idle", "gate", "block", "forget", "thread", "filter", "test", "route",
                 "create"}
Fates == {"none", "disposable", "filtered", "tested", "unsubscribed", "reply",
          "dropped by a rule", "lead", "lost"}
ConfigRows == [strictness : Strictness, custom : Thresholds]
Settings == [config : ConfigRows, rules : SUBSET RuleRows]
Routers == [ruleSet : RuleSets \cup {EmptyRuleSet}, cursor : Nat, turns : [Sellers -> Nat]]

(* Type invariant.  A lead has an owner, and its score is a percentage       *)
(* whatever the weights.                                                     *)
TypeOK ==
    /\ config \in ConfigRows
    /\ rules \subseteq RuleRows
    /\ cached = NoCopy \/ cached \in Settings
    /\ request \in [Operators -> [step : {"idle", "save", "forget"}, row : ConfigRows,
                                  thresholds : Thresholds \cup {Keep}]]
    /\ step \in [Handlers -> HandlerSteps]
    /\ load \in [Handlers -> {"no", "rules", "put"}]
    /\ view \in [Handlers -> Settings]
    /\ mail \in [Handlers -> Mails \cup {NoMail}]
    /\ owner \in [Handlers -> Sellers \cup {Unassigned, NoSeller}]
    /\ fate \in [Handlers -> Fates]
    /\ routers \in Seq(Routers) /\ Len(routers) \in 1 .. MaxRouters
    /\ router \in [Handlers -> 1 .. Len(routers)]
    /\ leads \subseteq [mail : Mails, seller : Sellers \cup {Unassigned}, score : 0 .. 100]
    /\ delivered \in 0 .. MaxDeliveries /\ writes \in 0 .. MaxWrites
    /\ gone \subseteq Senders /\ vetted \subseteq Senders
    /\ muted \in [Handlers -> BOOLEAN] /\ welcome \in [Handlers -> BOOLEAN]
    /\ tuned \in Thresholds
    /\ overlap \in BOOLEAN

(* "so the next inbound from this address gets dropped pre-pipeline"         *)
(* (broker.rs, of an unsubscribe): once the block is in place and nobody has *)
(* raced its invalidation, no interleaving of loads, other changes, dry runs *)
(* and restarts lets a mail of the sender open a lead, until an operator     *)
(* takes the block back or a load fails.                                     *)
UnsubscribedStaysOut == \A h \in Handlers : muted[h] => fate[h] # "lead"

(* The other side: a sender an operator allows is neither filtered nor taken *)
(* for disposable, whoever else blocks it and whatever the thresholds become *)
(* meanwhile.                                                                *)
AllowedGetsThrough ==
    \A h \in Handlers : welcome[h] => fate[h] \notin {"filtered", "disposable"}

Targets(ruleSet) ==
    {ruleSet.default} \cup {ruleSet.rules[i].target : i \in DOMAIN ruleSet.rules}

(* "distributes across pool": where a router has one pool, which lists        *)
(* nobody twice, its sellers have had their turns as evenly as can be,       *)
(* through concurrent mails, mails that took the router before it was        *)
(* replaced, and the agent's questions.                                      *)
RotationEven ==
    \A r \in DOMAIN routers :
        \A t \in Targets(routers[r].ruleSet) :
            (/\ t.kind = "round_robin"
             /\ \A i, j \in DOMAIN t.pool : t.pool[i] = t.pool[j] => i = j
             /\ \A other \in Targets(routers[r].ruleSet) : TakesTurn(other) => other = t)
            => \A i, j \in DOMAIN t.pool :
                  routers[r].turns[t.pool[i]] - routers[r].turns[t.pool[j]] \in {-1, 0, 1}

(* "The custom thresholds are always persisted alongside the strictness so a *)
(* switch Balanced -> Custom keeps the previously saved values" (store.rs):  *)
(* only PUTs that overlap can lose what an operator has tuned.               *)
TuningKept == ~overlap => config.custom = tuned

==============================================================================
