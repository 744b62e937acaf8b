---------------------------- MODULE ColdMailProofs ----------------------------
(* Theorems about ColdMail for any number of handlers, operators, mails,     *)
(* rules, routers and writes.                                                *)
EXTENDS ColdMail, FiniteSetTheorems, WellFoundedInduction, TLAPS

(* The variables are functions on the handlers and the requests.             *)
Shape ==
    /\ DOMAIN step = Handlers /\ DOMAIN load = Handlers /\ DOMAIN view = Handlers
    /\ DOMAIN mail = Handlers /\ DOMAIN fate = Handlers
    /\ DOMAIN muted = Handlers /\ DOMAIN welcome = Handlers
    /\ \A h \in Handlers : DOMAIN view[h] = {"config", "rules"}
    /\ gone \subseteq Senders /\ vetted \subseteq Senders

(* The rules in the store, in memory, and in the hands of a load that will   *)
(* be inserted without another look.                                         *)
InUse == {rules} \cup {c.rules : c \in {cached} \ {NoCopy}}
                 \cup {view[h].rules : h \in {k \in Handlers : load[k] = "put"}}

(* What the history promises holds of all of them,                           *)
PromisesKept ==
    /\ \A s \in gone : \A rs \in InUse : Blocks(rs, s)
    /\ \A s \in vetted : \A rs \in InUse : Allows(rs, s)

(* and a handler to which it is promised has not got past the filter, or has *)
(* not been held up.                                                         *)
HandlersObey ==
    \A h \in Handlers :
        /\ muted[h] => /\ Mail[mail[h]].from \in gone
                       /\ step[h] \notin {"route", "create"}
                       /\ fate[h] # "lead"
        /\ welcome[h] => /\ Mail[mail[h]].from \in vetted
                         /\ fate[h] \notin {"filtered", "disposable"}

FilterInv == Shape /\ PromisesKept /\ HandlersObey

filterVars == <<rules, cached, step, load, view, mail, fate, historyVars>>

LEMMA FilterInit == Init => FilterInv
BY DEF Init, FilterInv, Shape, PromisesKept, HandlersObey, Unloaded

(* The rules of a filter that blocks or allows a sender decide.              *)
LEMMA BlockedIsNotHuman ==
    ASSUME NEW m, NEW cfg, NEW rs, Blocks(rs, m.from)
    PROVE  ~IsHuman(m, cfg, rs)
BY DEF Blocks, IsHuman

LEMMA AllowedIsHuman ==
    ASSUME NEW m, NEW cfg, NEW rs, Allows(rs, m.from)
    PROVE  IsHuman(m, cfg, rs) /\ Rescued(m, rs)
BY DEF Allows, IsHuman, Rescued

(* A handler that decides by rules the promises hold for keeps them.         *)
LEMMA DecideObeys ==
    ASSUME FilterInv, NEW h \in Handlers, NEW settings, Decide(h, settings),
           muted[h] => Blocks(settings.rules, Mail[mail[h]].from),
           welcome[h] => Allows(settings.rules, Mail[mail[h]].from)
    PROVE  /\ DOMAIN step' = Handlers /\ DOMAIN fate' = Handlers
           /\ \A k \in Handlers : k # h => step'[k] = step[k] /\ fate'[k] = fate[k]
           /\ muted[h] => step'[h] \notin {"route", "create"} /\ fate'[h] # "lead"
           /\ welcome[h] => fate'[h] \notin {"filtered", "disposable"}
<1> USE DEF FilterInv, Shape, HandlersObey, Proceed, Finish, GoTo
<1>1. CASE step[h] = "gate" /\ Rescued(Mail[mail[h]], settings.rules)
    BY <1>1 DEF Decide
<1>2. CASE step[h] = "gate" /\ ~Rescued(Mail[mail[h]], settings.rules)
    BY <1>2, AllowedIsHuman DEF Decide
<1>3. CASE step[h] = "filter" /\ IsHuman(Mail[mail[h]], settings.config, settings.rules)
    BY <1>3, BlockedIsNotHuman DEF Decide
<1>4. CASE step[h] = "filter" /\ ~IsHuman(Mail[mail[h]], settings.config, settings.rules)
    BY <1>4, AllowedIsHuman DEF Decide
<1>5. CASE step[h] = "test"
    BY <1>5 DEF Decide
<1>6. QED
    BY <1>1, <1>2, <1>3, <1>4, <1>5 DEF Decide

(* Rows change: the promises shrink with them.                               *)
LEMMA RulesBecomeKeeps ==
    ASSUME FilterInv, NEW rs, RulesBecome(rs), UNCHANGED <<cached, load, view, mail>>,
           DOMAIN step' = Handlers, DOMAIN fate' = Handlers,
           \A h \in Handlers : /\ step'[h] \in {"route", "create"} => step'[h] = step[h]
                               /\ fate'[h] = fate[h] \/ fate'[h] = "unsubscribed"
    PROVE  FilterInv'
<1> USE DEF FilterInv, RulesBecome
<1>1. Shape'
    BY DEF Shape
<1>2. PromisesKept'
    BY DEF PromisesKept, InUse
<1>3. HandlersObey'
    BY DEF HandlersObey, PromisesKept
<1>4. QED
    BY <1>1, <1>2, <1>3

(* An invalidation that no load races makes every copy follow the rows.      *)
LEMMA ForgetKeeps ==
    ASSUME FilterInv, Forget, UNCHANGED <<load, view, mail>>,
           DOMAIN step' = Handlers, DOMAIN fate' = Handlers,
           \A h \in Handlers : /\ step'[h] \in {"route", "create"} => step'[h] = step[h]
                               /\ fate'[h] = fate[h] \/ fate'[h] = "unsubscribed"
    PROVE  FilterInv'
<1> USE DEF FilterInv
<1>1. Shape'
    BY DEF Shape, Forget
<1>2. /\ \A rs \in InUse' : rs \in InUse
      /\ rules \in InUse /\ UNCHANGED <<rules, muted, welcome>>
    BY DEF InUse, Forget
<1>3. CASE UNCHANGED <<gone, vetted>>
    BY <1>1, <1>2, <1>3 DEF PromisesKept, HandlersObey
<1>4. CASE /\ \A h \in Handlers : load[h] = "put" => view[h].rules = rules
           /\ gone' = {s \in Senders : Blocks(rules, s)}
           /\ vetted' = {s \in Senders : Allows(rules, s)}
    <2>1. \A rs \in InUse' : rs = rules
        BY <1>4 DEF InUse, Forget
    <2>2. PromisesKept'
        BY <1>4, <2>1 DEF PromisesKept
    <2>3. gone \subseteq gone' /\ vetted \subseteq vetted'
        BY <1>2, <1>4 DEF PromisesKept, Shape
    <2>4. QED
        BY <1>1, <1>2, <2>2, <2>3 DEF HandlersObey
<1>5. QED
    BY <1>3, <1>4 DEF Forget

(* One step per action of a handler.                                         *)
LEMMA HandlerKeeps ==
    ASSUME FilterInv, NEW h \in Handlers, HandlerStep(h)
    PROVE  FilterInv'
<1> USE DEF FilterInv
<1>1. ASSUME NEW m \in Mails, Deliver(h, m) PROVE FilterInv'
    <2>1. Shape' /\ InUse' = InUse
        BY <1>1 DEF Deliver, GoTo, settingVars, Shape, InUse
    <2>2. /\ step'[h] \in {"gate", "block", "thread"} /\ fate'[h] = "none"
          /\ mail'[h] = m
          /\ muted'[h] <=> Mail[m].from \in gone
          /\ welcome'[h] <=> Mail[m].from \in vetted
        BY <1>1 DEF Deliver, GoTo, Shape
    <2>3. /\ UNCHANGED <<gone, vetted>>
          /\ \A k \in Handlers : k # h =>
                /\ step'[k] = step[k] /\ fate'[k] = fate[k] /\ mail'[k] = mail[k]
                /\ muted'[k] = muted[k] /\ welcome'[k] = welcome[k]
        BY <1>1 DEF Deliver, GoTo, Shape
    <2>4. HandlersObey'
        BY <2>2, <2>3 DEF HandlersObey
    <2>5. QED
        BY <2>1, <2>3, <2>4 DEF PromisesKept
<1>2. CASE DryRun(h)
    <2>1. Shape' /\ InUse' = InUse
        BY <1>2 DEF DryRun, GoTo, settingVars, Shape, InUse
    <2>2. HandlersObey'
        BY <1>2 DEF DryRun, GoTo, HandlersObey, Shape
    <2>3. QED
        BY <1>2, <2>1, <2>2 DEF PromisesKept, DryRun
<1>3. CASE UseCached(h)
    <2>1. cached.rules \in InUse
        BY <1>3 DEF UseCached, InUse
    <2>2. /\ DOMAIN step' = Handlers /\ DOMAIN fate' = Handlers
          /\ \A k \in Handlers : k # h => step'[k] = step[k] /\ fate'[k] = fate[k]
          /\ muted[h] => step'[h] \notin {"route", "create"} /\ fate'[h] # "lead"
          /\ welcome[h] => fate'[h] \notin {"filtered", "disposable"}
        BY <1>3, <2>1, DecideObeys DEF UseCached, PromisesKept, HandlersObey
    <2>3. UNCHANGED <<rules, cached, load, view, mail, historyVars>>
        BY <1>3 DEF UseCached, settingVars
    <2>4. QED
        BY <2>2, <2>3 DEF Shape, PromisesKept, InUse, HandlersObey, historyVars
<1>4. CASE ReadConfig(h)
    BY <1>4 DEF ReadConfig, Shape, PromisesKept, InUse, HandlersObey, settingVars, historyVars
<1>5. CASE ReadRules(h)
    <2>1. Shape' /\ \A rs \in InUse' : rs \in InUse
        BY <1>5 DEF ReadRules, Shape, InUse, settingVars, historyVars
    <2>2. QED
        BY <1>5, <2>1 DEF ReadRules, PromisesKept, HandlersObey, historyVars
<1>6. CASE Insert(h)
    <2>1. view[h].rules \in InUse
        BY <1>6 DEF Insert, InUse
    <2>2. /\ DOMAIN step' = Handlers /\ DOMAIN fate' = Handlers
          /\ \A k \in Handlers : k # h => step'[k] = step[k] /\ fate'[k] = fate[k]
          /\ muted[h] => step'[h] \notin {"route", "create"} /\ fate'[h] # "lead"
          /\ welcome[h] => fate'[h] \notin {"filtered", "disposable"}
        BY <1>6, <2>1, DecideObeys DEF Insert, PromisesKept, HandlersObey
    <2>3. UNCHANGED <<mail, historyVars>>
        BY <1>6 DEF Insert
    <2>4. Shape'
        BY <1>6, <2>2, <2>3 DEF Insert, EndLoad, Unloaded, Shape, historyVars
    <2>5. \A rs \in InUse' : rs \in InUse
        BY <1>6 DEF Insert, EndLoad, InUse, Shape
    <2>6. QED
        BY <2>2, <2>3, <2>4, <2>5 DEF PromisesKept, HandlersObey, historyVars
<1>7. CASE LoadFails(h)
    <2>1. /\ DOMAIN step' = Handlers /\ DOMAIN fate' = Handlers
          /\ \A k \in Handlers : k # h => step'[k] = step[k] /\ fate'[k] = fate[k]
        BY <1>7 DEF LoadFails, Decide, Proceed, Finish, GoTo, Shape
    <2>2. Shape' /\ \A rs \in InUse' : rs \in InUse
        BY <1>7, <2>1 DEF LoadFails, EndLoad, Unloaded, InUse, Shape, settingVars
    <2>3. QED
        BY <1>7, <2>1, <2>2 DEF LoadFails, PromisesKept, HandlersObey, Shape
<1>8. CASE BlockSender(h)
    <2>1. /\ DOMAIN step' = Handlers /\ DOMAIN fate' = Handlers
          /\ \A k \in Handlers : /\ step'[k] \in {"route", "create"} => step'[k] = step[k]
                                 /\ fate'[k] = fate[k] \/ fate'[k] = "unsubscribed"
        BY <1>8 DEF BlockSender, Proceed, Finish, GoTo, Shape
    <2>2. /\ RulesBecome(rules \cup {[kind |-> "sender_block", value |-> Mail[mail[h]].from]})
          /\ UNCHANGED <<cached, load, view, mail>>
        BY <1>8 DEF BlockSender
    <2>3. QED
        BY <2>1, <2>2, RulesBecomeKeeps
<1>9. CASE BlockFails(h) \/ FindThread(h)
    <2>1. /\ DOMAIN step' = Handlers /\ DOMAIN fate' = Handlers
          /\ \A k \in Handlers : /\ step'[k] \in {"route", "create"} => step'[k] = step[k]
                                 /\ fate'[k] = fate[k] \/ fate'[k] \in {"unsubscribed", "reply"}
        BY <1>9 DEF BlockFails, FindThread, Proceed, Finish, GoTo, Shape
    <2>2. UNCHANGED <<rules, cached, load, view, mail, historyVars>>
        BY <1>9 DEF BlockFails, FindThread, settingVars
    <2>3. Shape' /\ InUse' = InUse /\ UNCHANGED <<gone, vetted, muted, welcome>>
        BY <2>1, <2>2 DEF Shape, InUse, historyVars
    <2>4. HandlersObey'
        BY <2>1, <2>2, <2>3 DEF HandlersObey
    <2>5. QED
        BY <2>3, <2>4 DEF PromisesKept
<1>10. CASE ForgetCopy(h)
    <2>1. /\ DOMAIN step' = Handlers /\ DOMAIN fate' = Handlers
          /\ \A k \in Handlers : /\ step'[k] \in {"route", "create"} => step'[k] = step[k]
                                 /\ fate'[k] = fate[k] \/ fate'[k] = "unsubscribed"
        BY <1>10 DEF ForgetCopy, Finish, GoTo, Shape
    <2>2. Forget /\ UNCHANGED <<load, view, mail>>
        BY <1>10 DEF ForgetCopy
    <2>3. QED
        BY <2>1, <2>2, ForgetKeeps
<1>11. CASE Route(h) \/ CreateLead(h) \/ CreateFails(h)
    <2>1. ~muted[h]
        BY <1>11 DEF Route, CreateLead, CreateFails, HandlersObey
    <2>2. /\ DOMAIN step' = Handlers /\ DOMAIN fate' = Handlers
          /\ \A k \in Handlers : k # h => step'[k] = step[k] /\ fate'[k] = fate[k]
          /\ fate'[h] = fate[h] \/ fate'[h] \in {"dropped by a rule", "lead", "lost"}
        BY <1>11 DEF Route, CreateLead, CreateFails, Finish, GoTo, Shape
    <2>3. UNCHANGED <<rules, cached, load, view, mail, historyVars>>
        BY <1>11 DEF Route, CreateLead, CreateFails, settingVars
    <2>4. Shape' /\ InUse' = InUse /\ UNCHANGED <<gone, vetted, muted, welcome>>
        BY <2>1, <2>2, <2>3 DEF Shape, InUse, historyVars
    <2>5. HandlersObey'
        BY <2>1, <2>2, <2>3, <2>4 DEF HandlersObey
    <2>6. QED
        BY <2>4, <2>5 DEF PromisesKept
<1>12. QED
    BY <1>1, <1>2, <1>3, <1>4, <1>5, <1>6, <1>7, <1>8, <1>9, <1>10, <1>11 DEF HandlerStep

(* An operator's change of the rules, and the invalidation after it.         *)
LEMMA OperatorKeeps ==
    ASSUME FilterInv, NEW o \in Operators, OperatorStep(o)
    PROVE  FilterInv' \/ UNCHANGED filterVars
<1>1. CASE (\E body \in Bodies : ReadRow(o, body)) \/ SaveRow(o) \/ CutShort(o)
    BY <1>1 DEF ReadRow, SaveRow, CutShort, filterVars, settingVars, handlerVars, historyVars
<1>2. ASSUME NEW rs, RulesBecome(rs), UNCHANGED <<cached, handlerVars>>
      PROVE  FilterInv'
    <2>1. /\ UNCHANGED <<cached, load, view, mail>>
          /\ DOMAIN step' = Handlers /\ DOMAIN fate' = Handlers
          /\ \A h \in Handlers : step'[h] = step[h] /\ fate'[h] = fate[h]
        BY <1>2 DEF FilterInv, Shape, handlerVars
    <2>2. QED
        BY <1>2, <2>1, RulesBecomeKeeps
<1>3. ASSUME NEW r, AddRule(o, r) PROVE FilterInv'
    <2>1. RulesBecome(rules \cup {r}) /\ UNCHANGED <<cached, handlerVars>>
        BY <1>3 DEF AddRule
    <2>2. QED
        BY <2>1, <1>2
<1>4. ASSUME NEW r, DeleteRule(o, r) PROVE FilterInv'
    <2>1. RulesBecome(rules \ {r}) /\ UNCHANGED <<cached, handlerVars>>
        BY <1>4 DEF DeleteRule
    <2>2. QED
        BY <2>1, <1>2
<1>5. CASE Invalidate(o)
    <2>1. /\ Forget /\ UNCHANGED <<load, view, mail>>
          /\ DOMAIN step' = Handlers /\ DOMAIN fate' = Handlers
          /\ \A h \in Handlers : step'[h] = step[h] /\ fate'[h] = fate[h]
        BY <1>5 DEF Invalidate, FilterInv, Shape, handlerVars
    <2>2. QED
        BY <2>1, ForgetKeeps
<1>6. QED
    BY <1>1, <1>3, <1>4, <1>5 DEF OperatorStep

LEMMA RestartKeeps ==
    ASSUME FilterInv, Restart
    PROVE  FilterInv'
<1> USE DEF FilterInv
<1>1. Shape'
    BY DEF Restart, Shape, Unloaded
<1>2. \A rs \in InUse' : rs = rules
    BY DEF Restart, InUse
<1>3. PromisesKept'
    BY <1>2 DEF Restart, PromisesKept
<1>4. gone \subseteq gone' /\ vetted \subseteq vetted'
    BY DEF Restart, PromisesKept, InUse, Shape
<1>5. HandlersObey'
    BY <1>4 DEF Restart, HandlersObey
<1>6. QED
    BY <1>1, <1>3, <1>5

LEMMA FilterInvHolds == Spec => []FilterInv
<1>1. FilterInv /\ UNCHANGED filterVars => FilterInv'
    <2> SUFFICES ASSUME FilterInv, UNCHANGED filterVars PROVE FilterInv'
        OBVIOUS
    <2>1. Shape' /\ InUse' = InUse
        BY DEF filterVars, historyVars, FilterInv, Shape, InUse
    <2>2. QED
        BY <2>1 DEF filterVars, historyVars, FilterInv, PromisesKept, HandlersObey
<1>2. FilterInv /\ [Next]_vars => FilterInv'
    <2> SUFFICES ASSUME FilterInv, [Next]_vars PROVE FilterInv'
        OBVIOUS
    <2>1. CASE (\E ruleSet \in RuleSets : SwapRouter(ruleSet)) \/ ToolRoutes \/ UNCHANGED vars
        BY <1>1, <2>1 DEF SwapRouter, ToolRoutes, vars, filterVars, settingVars,
            handlerVars, historyVars
    <2>2. QED
        BY <1>1, <2>1, HandlerKeeps, OperatorKeeps, RestartKeeps DEF Next
<1>3. QED
    BY <1>2, FilterInit, PTL DEF Spec

(* Once the block of somebody who unsubscribed is in place and nobody raced  *)
(* its invalidation, no mail from there opens a lead.                        *)
THEOREM UnsubscribedStayOut == Spec => []UnsubscribedStaysOut
<1>1. FilterInv => UnsubscribedStaysOut
    BY DEF FilterInv, HandlersObey, UnsubscribedStaysOut
<1>2. QED
    BY <1>1, FilterInvHolds, PTL

(* A sender an operator lets in is let in, whatever else the rules say.      *)
THEOREM AllowedGetThrough == Spec => []AllowedGetsThrough
<1>1. FilterInv => AllowedGetsThrough
    BY DEF FilterInv, HandlersObey, AllowedGetsThrough
<1>2. QED
    BY <1>1, FilterInvHolds, PTL

------------------------------------------------------------------------------
(* Without overlap one request at most is between its read and its save, and *)
(* the row it will save has what it was sent, or what the row has now.       *)
Saving(o) == request[o].step = "save"

TuningInv ==
    /\ DOMAIN request = Operators
    /\ ~overlap =>
          /\ config.custom = tuned
          /\ \A o, other \in Operators : Saving(o) /\ Saving(other) => o = other
          /\ \A o \in Operators : Saving(o) =>
                request[o].row.custom = IF request[o].thresholds = Keep THEN config.custom
                                        ELSE request[o].thresholds

LEMMA TuningStep ==
    ASSUME TuningInv, NEW o \in Operators, OperatorStep(o)
    PROVE  TuningInv'
<1> USE DEF TuningInv, Saving, Ask
<1>1. ASSUME NEW body \in Bodies, ReadRow(o, body) PROVE TuningInv'
    BY <1>1 DEF ReadRow, settingVars
<1>2. CASE SaveRow(o)
    BY <1>2 DEF SaveRow
<1>3. ASSUME NEW r, AddRule(o, r) \/ DeleteRule(o, r) PROVE TuningInv'
    BY <1>3 DEF AddRule, DeleteRule, tuningVars
<1>4. CASE Invalidate(o) \/ CutShort(o)
    BY <1>4 DEF Invalidate, Forget, CutShort, settingVars, tuningVars
<1>5. QED
    BY <1>1, <1>2, <1>3, <1>4 DEF OperatorStep

(* PUTs of the configuration that do not overlap lose no tuning, presets     *)
(* switched on in between, interrupted requests and restarts included.       *)
THEOREM TuningIsKept == Spec => []TuningKept
<1>1. Init => TuningInv
    BY DEF Init, TuningInv, Saving, Idle, DefaultConfig
<1>2. TuningInv /\ UNCHANGED <<config, request, tuningVars>> => TuningInv'
    BY DEF TuningInv, Saving, tuningVars
<1>3. ASSUME NEW h \in Handlers, HandlerStep(h) PROVE UNCHANGED <<config, request, tuningVars>>
    BY <1>3 DEF HandlerStep, Deliver, DryRun, UseCached, ReadConfig, ReadRules, Insert,
        LoadFails, BlockSender, BlockFails, ForgetCopy, Forget, FindThread, Route, CreateLead,
        CreateFails, settingVars
<1>4. TuningInv /\ Restart => TuningInv'
    BY DEF Restart, TuningInv, Saving, Idle, tuningVars
<1>5. TuningInv /\ [Next]_vars => TuningInv'
    <2> SUFFICES ASSUME TuningInv, [Next]_vars PROVE TuningInv'
        OBVIOUS
    <2>1. CASE (\E ruleSet \in RuleSets : SwapRouter(ruleSet)) \/ ToolRoutes \/ UNCHANGED vars
        BY <1>2, <2>1 DEF SwapRouter, ToolRoutes, vars, settingVars
    <2>2. QED
        BY <1>2, <1>3, <1>4, <2>1, TuningStep DEF Next
<1>6. TuningInv => TuningKept
    BY DEF TuningInv, TuningKept
<1>7. QED
    BY <1>1, <1>5, <1>6, PTL DEF Spec

------------------------------------------------------------------------------
(* The routers.                                                              *)

(* Division with remainder is unique,                                        *)
LEMMA RemainderUnique ==
    ASSUME NEW n \in Nat \ {0}, NEW a \in Int, NEW b \in 0 .. n - 1,
           NEW d \in Int, NEW e \in 0 .. n - 1, n * a + b = n * d + e
    PROVE  b = e
<1> DEFINE x == a - d
<1>1. x \in Int /\ n * x = e - b
    BY SMT
<1> HIDE DEF x
<1>2. CASE x >= 1
    <2>1. n * x >= n
        BY <1>1, <1>2, SMT
    <2>2. QED
        BY <1>1, <2>1, SMT
<1>3. CASE x <= -1
    <2>1. n * x <= -n
        BY <1>1, <1>3, SMT
    <2>2. QED
        BY <1>1, <2>1, SMT
<1>4. CASE x = 0
    BY <1>1, <1>4, SMT
<1>5. QED
    BY <1>1, <1>2, <1>3, <1>4, SMT

LEMMA Remainder ==
    ASSUME NEW c \in Nat, NEW n \in Nat \ {0}
    PROVE  /\ c % n \in 0 .. n - 1
           /\ c \div n \in Int
           /\ c = n * (c \div n) + (c % n)
BY SMT

(* so a cursor goes through a pool position by position.                     *)
LEMMA NextPosition ==
    ASSUME NEW c \in Nat, NEW n \in Nat \ {0}
    PROVE  (c + 1) % n = IF c % n = n - 1 THEN 0 ELSE (c % n) + 1
<1> DEFINE q == c \div n
           k == c % n
           p == (c + 1) \div n
           l == (c + 1) % n
<1>1. k \in 0 .. n - 1 /\ q \in Int /\ c = n * q + k
    BY Remainder
<1>2. l \in 0 .. n - 1 /\ p \in Int /\ c + 1 = n * p + l
    BY Remainder
<1> HIDE DEF q, k, p, l
<1>3. CASE k = n - 1
    <2>1. n * (q + 1) + 0 = n * p + l
        BY <1>1, <1>2, <1>3, SMT
    <2>2. l = 0
        BY <1>1, <1>2, <2>1, RemainderUnique
    <2>3. QED
        BY <1>3, <2>2 DEF k, l
<1>4. CASE k # n - 1
    <2>1. n * q + (k + 1) = n * p + l
        BY <1>1, <1>2, SMT
    <2>2. l = k + 1
        BY <1>1, <1>2, <1>4, <2>1, RemainderUnique
    <2>3. QED
        BY <1>4, <2>2 DEF k, l
<1>5. QED
    BY <1>3, <1>4

(* A set of subsets of a finite set has a smallest member.  What holds of    *)
(* every finite set is proved from it: of the sets for which it fails, take  *)
(* a smallest one.                                                           *)
LEMMA SmallestSubset ==
    ASSUME NEW S, IsFiniteSet(S), NEW B \in SUBSET SUBSET S, B # {}
    PROVE  \E T \in B : \A U \in B : U \subseteq T => U = T
<1>1. IsWellFoundedOn(StrictSubsetOrdering(S), SUBSET S)
    BY FS_StrictSubsetOrderingWellFounded, FS_FiniteSubsetsOfFinite
<1>2. PICK T \in B : \A U \in B : <<U, T>> \notin StrictSubsetOrdering(S)
    BY <1>1, WFMin
<1>3. QED
    BY <1>2 DEF StrictSubsetOrdering

(* The first of the rules that match is one of them.                         *)
LEMMA FirstHit ==
    ASSUME NEW n \in Nat, NEW H \in SUBSET (1 .. n), H # {}
    PROVE  \E i \in H : \A j \in H : i <= j
<1> DEFINE S == 1 .. n
           B == {1 .. i : i \in H}
<1>1. PICK T \in B : \A U \in B : U \subseteq T => U = T
    <2>1. IsFiniteSet(S)
        BY FS_Interval
    <2>2. \A i \in H : 1 .. i \in SUBSET S
        OBVIOUS
    <2>3. B \in SUBSET SUBSET S /\ B # {}
        BY <2>2
    <2> HIDE DEF B, S
    <2>4. QED
        BY <2>1, <2>3, SmallestSubset
<1>2. PICK i \in H : T = 1 .. i
    OBVIOUS
<1>3. ASSUME NEW j \in H, j < i PROVE FALSE
    <2>1. 1 .. j \subseteq 1 .. i /\ i \notin 1 .. j /\ i \in 1 .. i
        BY <1>3
    <2>2. 1 .. j \in B
        OBVIOUS
    <2>3. QED
        BY <1>1, <1>2, <2>1, <2>2
<1>4. QED
    BY <1>3

(* Whatever is asked, the answer is a target of the rule set.                *)
LEMMA DispatchIsTarget ==
    ASSUME NEW ruleSet, IsRuleSet(ruleSet), NEW input
    PROVE  /\ Dispatch(ruleSet, input) \in Targets(ruleSet)
           /\ IsTarget(Dispatch(ruleSet, input))
<1> DEFINE H == {i \in DOMAIN ruleSet.rules :
                    ruleSet.rules[i].active /\ input \in ruleSet.rules[i].matches}
           first == CHOOSE i \in H : \A j \in H : i <= j
<1>1. Dispatch(ruleSet, input) = IF H = {} THEN ruleSet.default ELSE ruleSet.rules[first].target
    BY DEF Dispatch
<1>2. Len(ruleSet.rules) \in Nat /\ H \in SUBSET (1 .. Len(ruleSet.rules))
    BY DEF IsRuleSet
<1>3. H \subseteq DOMAIN ruleSet.rules
    OBVIOUS
<1> HIDE DEF H
<1>4. H # {} => first \in H
    BY <1>2, FirstHit
<1>5. QED
    BY <1>1, <1>3, <1>4 DEF Targets, IsRuleSet

(* A turn goes to a seller of the pool, at the cursor's position.            *)
LEMMA PickIsSeller ==
    ASSUME NEW t, IsTarget(t), NEW c \in Nat
    PROVE  /\ Pick(t, c) \in Sellers \cup {Unassigned, NoSeller}
           /\ TakesTurn(t) => /\ t.pool \in Seq(Sellers) /\ Len(t.pool) \in Nat \ {0}
                              /\ Pick(t, c) = t.pool[(c % Len(t.pool)) + 1]
                              /\ Pick(t, c) \in Sellers
<1>1. CASE t = Drop
    BY <1>1 DEF Drop, Pick, TakesTurn
<1>2. ASSUME NEW s \in Sellers, t = ToSeller(s) PROVE Pick(t, c) = s /\ ~ TakesTurn(t)
    BY <1>2 DEF ToSeller, Pick, TakesTurn
<1>3. CASE t.pool \in Seq(Sellers) /\ t = ToPool(t.pool)
    <2>1. t.kind = "round_robin"
        BY <1>3 DEF ToPool
    <2>2. CASE t.pool = << >>
        BY <2>1, <2>2 DEF Pick, TakesTurn
    <2>3. CASE t.pool # << >>
        <3>1. Len(t.pool) \in Nat \ {0}
            BY <1>3, <2>3
        <3>2. c % Len(t.pool) \in 0 .. Len(t.pool) - 1
            BY <3>1, Remainder
        <3>3. t.pool[(c % Len(t.pool)) + 1] \in Sellers
            <4> DEFINE k == c % Len(t.pool)
            <4> HIDE DEF k
            <4>1. k \in 0 .. Len(t.pool) - 1
                BY <3>2 DEF k
            <4>2. t.pool[k + 1] \in Sellers
                BY <1>3, <3>1, <4>1
            <4>3. QED
                BY <4>2 DEF k
        <3>4. QED
            BY <1>3, <2>1, <2>3, <3>1, <3>3 DEF Pick, TakesTurn
    <2>4. QED
        BY <2>2, <2>3
<1>4. QED
    BY <1>1, <1>2, <1>3 DEF IsTarget

------------------------------------------------------------------------------
(* Of the only pool a router has, the sellers up to the cursor have had one  *)
(* turn more than the others.                                                *)
OnlyPool(ruleSet, t) ==
    /\ TakesTurn(t)
    /\ \A i, j \in DOMAIN t.pool : t.pool[i] = t.pool[j] => i = j
    /\ \A other \in Targets(ruleSet) : TakesTurn(other) => other = t

HadTurns(x, t, q) ==
    \A i \in DOMAIN t.pool :
        x.turns[t.pool[i]] = q + IF i <= x.cursor % Len(t.pool) THEN 1 ELSE 0

InRotation(x) ==
    \A t \in Targets(x.ruleSet) : OnlyPool(x.ruleSet, t) => \E q \in Nat : HadTurns(x, t, q)

RoutersInv ==
    /\ routers \in Seq(Routers) /\ Len(routers) \in 1 .. MaxRouters
    /\ router \in [Handlers -> 1 .. Len(routers)]
    /\ \A r \in DOMAIN routers : InRotation(routers[r])

(* What a turn makes of a router.                                            *)
AfterTurn(x, target) ==
    [ruleSet |-> x.ruleSet, cursor |-> x.cursor + 1,
     turns |-> [x.turns EXCEPT ![Pick(target, x.cursor)] = @ + 1]]

LEMMA RuleSetsParsed ==
    ASSUME NEW x \in Routers
    PROVE  IsRuleSet(x.ruleSet)
<1>1. IsRuleSet(EmptyRuleSet)
    BY DEF IsRuleSet, EmptyRuleSet, IsTarget
<1>2. QED
    BY <1>1, RuleSetsAssumption DEF Routers

LEMMA TargetsParsed ==
    ASSUME NEW ruleSet, IsRuleSet(ruleSet), NEW t \in Targets(ruleSet)
    PROVE  IsTarget(t)
BY DEF Targets, IsRuleSet

LEMMA NewRouterInRotation ==
    ASSUME NEW ruleSet \in RuleSets \cup {EmptyRuleSet}
    PROVE  NewRouter(ruleSet) \in Routers /\ InRotation(NewRouter(ruleSet))
<1> DEFINE x == NewRouter(ruleSet)
<1>1. /\ x \in Routers
      /\ x.ruleSet = ruleSet /\ x.cursor = 0 /\ \A s \in Sellers : x.turns[s] = 0
    BY DEF NewRouter, Routers
<1> HIDE DEF x
<1>2. ASSUME NEW t \in Targets(ruleSet), TakesTurn(t)
      PROVE  HadTurns(x, t, 0)
    <2>1. IsTarget(t)
        BY <1>1, RuleSetsParsed, TargetsParsed
    <2>2. t.pool \in Seq(Sellers) /\ Len(t.pool) \in Nat \ {0}
        BY <1>2, <2>1, PickIsSeller
    <2>3. ASSUME NEW n \in Nat \ {0} PROVE 0 % n = 0
        BY SMT
    <2>4. x.cursor % Len(t.pool) = 0
        BY <1>1, <2>2, <2>3
    <2>5. \A i \in DOMAIN t.pool : x.turns[t.pool[i]] = 0 /\ i \in Nat /\ ~ i <= 0
        BY <1>1, <2>2
    <2>6. QED
        BY <2>4, <2>5 DEF HadTurns
<1>3. InRotation(x)
    BY <1>1, <1>2 DEF InRotation, OnlyPool
<1>4. QED
    BY <1>1, <1>3 DEF x

(* A turn raises the count at the cursor's position, and moves the cursor to *)
(* the next: past the last one all have had one more.                        *)
LEMMA TurnKeepsRotation ==
    ASSUME NEW x \in Routers, InRotation(x),
           NEW target \in Targets(x.ruleSet), TakesTurn(target)
    PROVE  AfterTurn(x, target) \in Routers /\ InRotation(AfterTurn(x, target))
<1> DEFINE y == AfterTurn(x, target)
           n == Len(target.pool)
           k == x.cursor % n
           pick == target.pool[k + 1]
<1>1. x.cursor \in Nat /\ x.turns \in [Sellers -> Nat]
      /\ x.ruleSet \in RuleSets \cup {EmptyRuleSet}
    BY DEF Routers
<1>2. IsTarget(target)
    BY RuleSetsParsed, TargetsParsed
<1>3. /\ target.pool \in Seq(Sellers) /\ n \in Nat \ {0}
      /\ Pick(target, x.cursor) = pick /\ pick \in Sellers
    BY <1>1, <1>2, PickIsSeller
<1>4. k \in 0 .. n - 1
    BY <1>1, <1>3, Remainder
<1>5. y.ruleSet = x.ruleSet /\ y.cursor = x.cursor + 1
      /\ y.turns = [x.turns EXCEPT ![pick] = @ + 1]
    BY <1>3 DEF AfterTurn
<1>6. y \in Routers
    BY <1>1, <1>3, <1>5 DEF AfterTurn, Routers
<1>7. y.cursor % n = IF k = n - 1 THEN 0 ELSE k + 1
    BY <1>1, <1>3, <1>5, NextPosition
<1> HIDE DEF y, k
<1>8. ASSUME OnlyPool(x.ruleSet, target) PROVE \E q \in Nat : HadTurns(y, target, q)
    <2>1. PICK q \in Nat : HadTurns(x, target, q)
        BY <1>8 DEF InRotation
    <2>2. \A i \in 1 .. n : x.turns[target.pool[i]] = q + IF i <= k THEN 1 ELSE 0
        BY <1>3, <2>1 DEF HadTurns, k
    <2>3. \A i \in 1 .. n : target.pool[i] = pick <=> i = k + 1
        BY <1>3, <1>4, <1>8 DEF OnlyPool
    <2>4. \A i \in 1 .. n : target.pool[i] \in Sellers
        BY <1>3
    <2>5. \A i \in 1 .. n : y.turns[target.pool[i]] = q + IF i <= k + 1 THEN 1 ELSE 0
        <3> TAKE i \in 1 .. n
        <3>1. CASE i = k + 1
            BY <1>1, <1>4, <1>5, <2>2, <2>3, <2>4, <3>1
        <3>2. CASE i # k + 1
            BY <1>1, <1>4, <1>5, <2>2, <2>3, <2>4, <3>2
        <3>3. QED
            BY <3>1, <3>2
    <2>6. CASE k = n - 1
        <3>1. \A i \in 1 .. n : y.turns[target.pool[i]] = (q + 1) + IF i <= 0 THEN 1 ELSE 0
            BY <1>3, <2>5, <2>6
        <3>2. HadTurns(y, target, q + 1)
            BY <1>3, <1>7, <2>6, <3>1 DEF HadTurns
        <3>3. QED
            BY <3>2
    <2>7. CASE k # n - 1
        <3>1. HadTurns(y, target, q)
            BY <1>3, <1>7, <2>5, <2>7 DEF HadTurns
        <3>2. QED
            BY <3>1
    <2>8. QED
        BY <2>6, <2>7
<1>9. \A t \in Targets(x.ruleSet) : OnlyPool(x.ruleSet, t) => t = target
    BY DEF OnlyPool
<1>10. InRotation(y)
    BY <1>5, <1>8, <1>9 DEF InRotation
<1>11. QED
    BY <1>6, <1>10 DEF y

LEMMA RecordTurned ==
    ASSUME NEW x \in Routers, NEW target, Pick(target, x.cursor) \in Sellers
    PROVE  [x EXCEPT !.cursor = @ + 1, !.turns[Pick(target, x.cursor)] = @ + 1]
               = AfterTurn(x, target)
<1> DEFINE p == Pick(target, x.cursor)
           y == [x EXCEPT !.cursor = @ + 1, !.turns[p] = @ + 1]
           turned == [x.turns EXCEPT ![p] = @ + 1]
<1>1. DOMAIN x = {"ruleSet", "cursor", "turns"} /\ x.cursor \in Nat
      /\ x.turns \in [Sellers -> Nat] /\ x.ruleSet \in RuleSets \cup {EmptyRuleSet}
    BY DEF Routers
<1>a. p \in Sellers
    OBVIOUS
<1> HIDE DEF p
<1>2. y.ruleSet = x.ruleSet /\ y.cursor = x.cursor + 1 /\ y.turns = turned
    BY <1>1
<1>3. y \in Routers
    <2> DEFINE z == [x EXCEPT !.cursor = x.cursor + 1]
    <2>1. z \in Routers
        BY <1>1 DEF Routers
    <2>2. turned \in [Sellers -> Nat]
        BY <1>1, <1>a
    <2>3. y = [z EXCEPT !.turns = turned]
        OBVIOUS
    <2> HIDE DEF y, z, turned
    <2>4. QED
        BY <2>1, <2>2, <2>3 DEF Routers
<1> HIDE DEF y
<1>4. y = [ruleSet |-> y.ruleSet, cursor |-> y.cursor, turns |-> y.turns]
    BY <1>3 DEF Routers
<1>5. y = [ruleSet |-> x.ruleSet, cursor |-> x.cursor + 1, turns |-> turned]
    BY <1>2, <1>4
<1>6. QED
    BY <1>5 DEF AfterTurn, p, y

LEMMA TakeTurnKeeps ==
    ASSUME RoutersInv, NEW r \in DOMAIN routers, NEW input,
           TakeTurn(r, Dispatch(routers[r].ruleSet, input))
    PROVE  /\ routers' \in Seq(Routers) /\ Len(routers') = Len(routers)
           /\ \A k \in DOMAIN routers' : InRotation(routers'[k])
<1> DEFINE target == Dispatch(routers[r].ruleSet, input)
           x == routers[r]
<1>1. routers \in Seq(Routers) /\ x \in Routers /\ InRotation(x)
    BY DEF RoutersInv
<1>2. target \in Targets(x.ruleSet)
    BY <1>1, RuleSetsParsed, DispatchIsTarget
<1>3. CASE ~ TakesTurn(target)
    BY <1>3 DEF TakeTurn, RoutersInv
<1>4. CASE TakesTurn(target)
    <2>1. routers' = [routers EXCEPT ![r] = AfterTurn(x, target)]
        <3>1. routers' = [routers EXCEPT ![r].cursor = @ + 1,
                                         ![r].turns[Pick(target, x.cursor)] = @ + 1]
            BY <1>4 DEF TakeTurn, Advanced
        <3> DEFINE p == Pick(target, x.cursor)
                   y == [x EXCEPT !.cursor = @ + 1, !.turns[p] = @ + 1]
        <3>2. y = AfterTurn(x, target)
            <4>1. IsTarget(target) /\ x.cursor \in Nat
                BY <1>1, <1>2, RuleSetsParsed, TargetsParsed DEF Routers
            <4>2. p \in Sellers
                BY <1>4, <4>1, PickIsSeller
            <4>3. QED
                BY <1>1, <4>2, RecordTurned
        <3> HIDE DEF target, p
        <3>3. routers' = [routers EXCEPT ![r] = y]
            BY <3>1 DEF p
        <3>4. QED
            BY <3>2, <3>3
    <2>2. AfterTurn(x, target) \in Routers /\ InRotation(AfterTurn(x, target))
        BY <1>1, <1>2, <1>4, TurnKeepsRotation
    <2> DEFINE y == AfterTurn(x, target)
    <2> HIDE DEF y
    <2>3. routers' = [routers EXCEPT ![r] = y] /\ y \in Routers /\ InRotation(y)
        BY <2>1, <2>2 DEF y
    <2>4. /\ routers' \in Seq(Routers) /\ Len(routers') = Len(routers)
          /\ \A k \in DOMAIN routers : routers'[k] = IF k = r THEN y ELSE routers[k]
        BY <1>1, <2>3
    <2>5. QED
        BY <1>1, <2>3, <2>4 DEF RoutersInv
<1>5. QED
    BY <1>3, <1>4

LEMMA RoutersInit == Init => RoutersInv
<1> SUFFICES ASSUME Init PROVE RoutersInv
    OBVIOUS
<1> DEFINE x == NewRouter(EmptyRuleSet)
<1>1. x \in Routers /\ InRotation(x)
    BY NewRouterInRotation
<1> HIDE DEF x
<1>2. routers = <<x>> /\ router = [h \in Handlers |-> 1]
    BY DEF Init, x
<1>3. QED
    BY <1>1, <1>2, BoundsAssumption DEF RoutersInv

(* A handler takes the last router there is, and gives it back.              *)
LEMMA RouterOfHandler ==
    ASSUME RoutersInv, NEW h \in Handlers, HandlerStep(h)
    PROVE  router' \in [Handlers -> 1 .. Len(routers)]
<1>1. UNCHANGED router \/ router' = [router EXCEPT ![h] = 1]
          \/ router' = [router EXCEPT ![h] = Len(routers)]
    BY DEF HandlerStep, Deliver, DryRun, UseCached, ReadConfig, ReadRules, Insert, LoadFails,
        BlockSender, BlockFails, ForgetCopy, FindThread, Route, CreateLead, CreateFails,
        Decide, Proceed, Finish, GoTo
<1>2. QED
    BY <1>1 DEF RoutersInv

LEMMA RoutersStep == RoutersInv /\ [Next]_vars => RoutersInv'
<1> SUFFICES ASSUME RoutersInv, [Next]_vars PROVE RoutersInv'
    OBVIOUS
<1>1. ASSUME NEW h \in Handlers, HandlerStep(h) PROVE RoutersInv'
    <2>1. CASE Route(h)
        <3>1. router[h] \in DOMAIN routers
            BY DEF RoutersInv
        <3>2. TakeTurn(router[h], Dispatch(routers[router[h]].ruleSet, mail[h]))
            BY <2>1 DEF Route
        <3>3. /\ routers' \in Seq(Routers) /\ Len(routers') = Len(routers)
              /\ \A k \in DOMAIN routers' : InRotation(routers'[k])
            BY <3>1, <3>2, TakeTurnKeeps
        <3>4. QED
            BY <1>1, <3>3, RouterOfHandler DEF RoutersInv
    <2>2. CASE ~ Route(h)
        <3>1. UNCHANGED routers
            BY <1>1, <2>2 DEF HandlerStep, Deliver, DryRun, UseCached, ReadConfig, ReadRules,
                Insert, LoadFails, BlockSender, BlockFails, ForgetCopy, FindThread, CreateLead,
                CreateFails
        <3>2. QED
            BY <1>1, <3>1, RouterOfHandler DEF RoutersInv
    <2>3. QED
        BY <2>1, <2>2
<1>2. ASSUME NEW ruleSet \in RuleSets, SwapRouter(ruleSet) PROVE RoutersInv'
    <2> DEFINE x == NewRouter(ruleSet)
    <2>1. x \in Routers /\ InRotation(x)
        BY NewRouterInRotation
    <2> HIDE DEF x
    <2>2. /\ Len(routers) < MaxRouters /\ routers' = Append(routers, x)
          /\ UNCHANGED router
        BY <1>2 DEF SwapRouter, handlerVars, x
    <2>3. /\ routers' \in Seq(Routers) /\ Len(routers') = Len(routers) + 1
          /\ \A k \in 1 .. Len(routers) : routers'[k] = routers[k]
          /\ routers'[Len(routers) + 1] = x
        BY <2>1, <2>2 DEF RoutersInv
    <2>4. QED
        BY <2>1, <2>2, <2>3, BoundsAssumption DEF RoutersInv
<1>3. CASE ToolRoutes
    <2>1. /\ Len(routers) \in DOMAIN routers /\ UNCHANGED router
          /\ TakeTurn(Len(routers), Dispatch(routers[Len(routers)].ruleSet, NoMail))
        BY <1>3 DEF RoutersInv, ToolRoutes, handlerVars
    <2>2. /\ routers' \in Seq(Routers) /\ Len(routers') = Len(routers)
          /\ \A k \in DOMAIN routers' : InRotation(routers'[k])
        BY <2>1, TakeTurnKeeps
    <2>3. QED
        BY <2>1, <2>2 DEF RoutersInv
<1>4. CASE Restart
    <2> DEFINE ruleSet == routers[Len(routers)].ruleSet
               x == NewRouter(ruleSet)
    <2>1. ruleSet \in RuleSets \cup {EmptyRuleSet}
        <3>1. routers[Len(routers)] \in Routers
            BY DEF RoutersInv
        <3>2. QED
            BY <3>1 DEF Routers
    <2>2. x \in Routers /\ InRotation(x)
        BY <2>1, NewRouterInRotation
    <2>3. routers' = <<x>> /\ router' = [h \in Handlers |-> 1]
        BY <1>4 DEF Restart
    <2> HIDE DEF x
    <2>4. QED
        BY <2>2, <2>3, BoundsAssumption DEF RoutersInv
<1>5. ASSUME UNCHANGED <<routers, router>> PROVE RoutersInv'
    BY <1>5 DEF RoutersInv
<1>6. ASSUME NEW o \in Operators, OperatorStep(o) PROVE RoutersInv'
    BY <1>5, <1>6 DEF OperatorStep, ReadRow, SaveRow, AddRule, DeleteRule, Invalidate,
        CutShort, handlerVars
<1>7. CASE UNCHANGED vars
    BY <1>5, <1>7 DEF vars, handlerVars
<1>8. QED
    BY <1>1, <1>2, <1>3, <1>4, <1>6, <1>7 DEF Next

LEMMA RoutersInvHolds == Spec => []RoutersInv
BY RoutersInit, RoutersStep, PTL DEF Spec

(* The sellers of a pool that has the cursor to itself never differ by more  *)
(* than one turn, through concurrent mails, replaced routers, the agent's    *)
(* questions and restarts, for any pool and any number of mails.             *)
THEOREM RotationIsEven == Spec => []RotationEven
<1>1. RoutersInv => RotationEven
    <2> SUFFICES ASSUME RoutersInv, NEW r \in DOMAIN routers,
                        NEW t \in Targets(routers[r].ruleSet),
                        t.kind = "round_robin",
                        \A i, j \in DOMAIN t.pool : t.pool[i] = t.pool[j] => i = j,
                        \A other \in Targets(routers[r].ruleSet) : TakesTurn(other) => other = t,
                        NEW i \in DOMAIN t.pool, NEW j \in DOMAIN t.pool
                 PROVE  routers[r].turns[t.pool[i]] - routers[r].turns[t.pool[j]] \in {-1, 0, 1}
        BY DEF RotationEven
    <2>1. TakesTurn(t)
        BY DEF TakesTurn
    <2>2. PICK q \in Nat : HadTurns(routers[r], t, q)
        BY <2>1 DEF RoutersInv, InRotation, OnlyPool
    <2>3. QED
        BY <2>2 DEF HadTurns
<1>2. QED
    BY <1>1, RoutersInvHolds, PTL

------------------------------------------------------------------------------
(* Sums over a finite set.  SumFunctionOnSet adds the chosen element to the  *)
(* sum of the others.                                                        *)
Chosen(s) == CHOOSE x \in s : TRUE
SumStep(f, g, s) == IF s = {} THEN 0 ELSE f[Chosen(s)] + g[s \ {Chosen(s)}]
IsSum(f, S, g) == g = [s \in SUBSET S |-> SumStep(f, g, s)]
SumOf(f, S) == CHOOSE g : IsSum(f, S, g)

LEMMA SumIsChosen ==
    ASSUME NEW f, NEW S
    PROVE  SumFunctionOnSet(f, S) = SumOf(f, S)[S]
BY DEF SumFunctionOnSet, FoldFunctionOnSet, MapThenFoldSet, SumOf, IsSum, SumStep, Chosen

LEMMA ChosenIsIn ==
    ASSUME NEW s, s # {}
    PROVE  Chosen(s) \in s
BY DEF Chosen

(* Two functions that meet the equation agree.                               *)
LEMMA SumsAgree ==
    ASSUME NEW f, NEW S, NEW T, IsFiniteSet(S), T \subseteq S,
           NEW g, NEW h, IsSum(f, S, g), IsSum(f, T, h)
    PROVE  \A s \in SUBSET T : g[s] = h[s]
<1> DEFINE B == {s \in SUBSET T : g[s] # h[s]}
<1> SUFFICES ASSUME B # {} PROVE FALSE
    OBVIOUS
<1>1. IsFiniteSet(T)
    BY FS_Subset
<1>2. PICK s \in B : \A u \in B : u \subseteq s => u = s
    <2>1. B \in SUBSET SUBSET T
        OBVIOUS
    <2> HIDE DEF B
    <2>2. QED
        BY <1>1, <2>1, SmallestSubset
<1>3. g[s] = SumStep(f, g, s) /\ h[s] = SumStep(f, h, s)
    BY DEF IsSum
<1>4. CASE s = {}
    BY <1>3, <1>4 DEF SumStep
<1>5. CASE s # {}
    <2>1. Chosen(s) \in s
        BY <1>5, ChosenIsIn
    <2>2. g[s \ {Chosen(s)}] = h[s \ {Chosen(s)}]
        BY <1>2, <2>1
    <2>3. QED
        BY <1>3, <1>5, <2>2 DEF SumStep
<1>6. QED
    BY <1>4, <1>5

(* There is such a function.                                                 *)
LEMMA SumExists ==
    ASSUME NEW f, NEW S, IsFiniteSet(S)
    PROVE  \E g : IsSum(f, S, g)
<1> DEFINE B == {T \in SUBSET S : ~ \E g : IsSum(f, T, g)}
<1> SUFFICES ASSUME B # {} PROVE FALSE
    BY DEF B
<1>1. PICK T \in B : \A U \in B : U \subseteq T => U = T
    <2>1. B \in SUBSET SUBSET S
        OBVIOUS
    <2> HIDE DEF B
    <2>2. QED
        BY <2>1, SmallestSubset
<1>2. \A U \in SUBSET T : U # T => IsSum(f, U, SumOf(f, U))
    BY <1>1 DEF SumOf
<1> DEFINE Less(s) == s \ {Chosen(s)}
           g == [s \in SUBSET T |-> IF s = {} THEN 0 ELSE f[Chosen(s)] + SumOf(f, Less(s))[Less(s)]]
<1>3. \A s \in SUBSET T : s # {} => Less(s) \subseteq T /\ Less(s) # T /\ Chosen(s) \in s
    BY ChosenIsIn
<1>4. ASSUME NEW u \in SUBSET T, u # T
      PROVE  g[u] = SumOf(f, u)[u]
    <2>1. SumOf(f, u)[u] = SumStep(f, SumOf(f, u), u)
        BY <1>2, <1>4 DEF IsSum
    <2>2. CASE u = {}
        BY <2>1, <2>2 DEF SumStep
    <2>3. CASE u # {}
        <3>1. Less(u) \subseteq u /\ Less(u) \subseteq T /\ Less(u) # T
            BY <1>3, <2>3
        <3>2. IsSum(f, Less(u), SumOf(f, Less(u))) /\ IsSum(f, u, SumOf(f, u))
            BY <1>2, <1>4, <3>1
        <3>3. IsFiniteSet(u)
            BY FS_Subset
        <3>4. SumOf(f, u)[Less(u)] = SumOf(f, Less(u))[Less(u)]
            BY <3>1, <3>2, <3>3, SumsAgree
        <3>5. QED
            BY <2>1, <2>3, <3>4 DEF SumStep
    <2>4. QED
        BY <2>2, <2>3
<1>5. IsSum(f, T, g)
    <2>1. \A s \in SUBSET T : g[s] = SumStep(f, g, s)
        BY <1>3, <1>4 DEF SumStep
    <2>2. QED
        BY <2>1 DEF IsSum
<1>6. QED
    BY <1>1, <1>5

(* A sum of integers is one.                                                 *)
LEMMA SumIsInt ==
    ASSUME NEW f, NEW S, IsFiniteSet(S), \A x \in S : f[x] \in Int
    PROVE  SumFunctionOnSet(f, S) \in Int
<1> DEFINE g == SumOf(f, S)
           B == {s \in SUBSET S : g[s] \notin Int}
<1>1. IsSum(f, S, g)
    BY SumExists DEF SumOf
<1> HIDE DEF g
<1>2. B = {}
    <2> SUFFICES ASSUME B # {} PROVE FALSE
        OBVIOUS
    <2>1. PICK s \in B : \A u \in B : u \subseteq s => u = s
        <3>1. B \in SUBSET SUBSET S
            OBVIOUS
        <3> HIDE DEF B
        <3>2. QED
            BY <3>1, SmallestSubset
    <2>2. g[s] = SumStep(f, g, s)
        BY <1>1 DEF IsSum
    <2>3. s # {}
        BY <2>1, <2>2 DEF SumStep
    <2>4. Chosen(s) \in s
        BY <2>3, ChosenIsIn
    <2>5. g[s \ {Chosen(s)}] \in Int
        BY <2>1, <2>4
    <2>6. QED
        BY <2>1, <2>2, <2>3, <2>4, <2>5 DEF SumStep
<1>3. QED
    BY <1>2, SumIsChosen DEF g

------------------------------------------------------------------------------
(* The clamp bounds a sum of integers.                                       *)
LEMMA ScoreIsPercentage ==
    ASSUME NEW m, NEW cfg, IsScoringConfig(cfg)
    PROVE  Score(m, cfg) \in 0 .. 100
<1> DEFINE found == m.intent \cap cfg.keywords
           weighted == found \cap DOMAIN cfg.weights
<1>1. /\ cfg.corporate \in Int /\ cfg.personal \in Int /\ cfg.substantive \in Int
      /\ cfg.brief \in Int /\ cfg.boost \in Int /\ cfg.seniority \in Int
    BY DEF IsScoringConfig
<1>2. SumFunctionOnSet(cfg.weights, weighted) \in Int
    <2>1. IsFiniteSet(weighted)
        BY FS_Subset DEF IsScoringConfig
    <2>2. \A k \in weighted : cfg.weights[k] \in Int
        BY DEF IsScoringConfig
    <2>3. QED
        BY <2>1, <2>2, SumIsInt
<1>3. PurchaseIntent(m, cfg) \in Int
    <2>1. PurchaseIntent(m, cfg)
            = Given(found # weighted, cfg.boost) + SumFunctionOnSet(cfg.weights, weighted)
        BY DEF PurchaseIntent
    <2>2. Given(found # weighted, cfg.boost) \in Int
        BY <1>1 DEF Given
    <2> HIDE DEF weighted, found
    <2>3. QED
        BY <1>2, <2>1, <2>2
<1>4. RawScore(m, cfg) \in Int
    BY <1>1, <1>3 DEF RawScore, Given
<1>5. QED
    BY <1>4 DEF Score, Clamp

(* Whichever element is taken out first, the sum is the same.                *)
LEMMA SumWithout ==
    ASSUME NEW f, NEW S, IsFiniteSet(S), \A x \in S : f[x] \in Int, NEW x \in S
    PROVE  SumFunctionOnSet(f, S) = f[x] + SumFunctionOnSet(f, S \ {x})
<1> DEFINE g == SumOf(f, S)
           Bad(s) == \E y \in s : g[s] # f[y] + g[s \ {y}]
           B == {s \in SUBSET S : Bad(s)}
<1>1. IsSum(f, S, g)
    BY SumExists DEF SumOf
<1>2. \A s \in SUBSET S : SumFunctionOnSet(f, s) = g[s]
    <2> TAKE s \in SUBSET S
    <2>1. IsFiniteSet(s)
        BY FS_Subset
    <2>2. IsSum(f, s, SumOf(f, s))
        BY <2>1, SumExists DEF SumOf
    <2> HIDE DEF g
    <2>3. g[s] = SumOf(f, s)[s]
        BY <1>1, <2>2, SumsAgree
    <2>4. QED
        BY <2>3, SumIsChosen
<1>3. \A s \in SUBSET S : g[s] \in Int
    <2> TAKE s \in SUBSET S
    <2>1. IsFiniteSet(s)
        BY FS_Subset
    <2> HIDE DEF g
    <2>2. QED
        BY <1>2, <2>1, SumIsInt
<1>4. \A s \in SUBSET S : s # {} => Chosen(s) \in s /\ g[s] = f[Chosen(s)] + g[s \ {Chosen(s)}]
    <2> HIDE DEF g
    <2>1. QED
        BY <1>1, ChosenIsIn DEF IsSum, SumStep
<1> HIDE DEF g
<1>5. B = {}
    <2> SUFFICES ASSUME B # {} PROVE FALSE
        OBVIOUS
    <2>1. PICK s \in B : \A u \in B : u \subseteq s => u = s
        <3>1. B \in SUBSET SUBSET S
            OBVIOUS
        <3> HIDE DEF B
        <3>2. QED
            BY <3>1, SmallestSubset
    <2>2. PICK y \in s : g[s] # f[y] + g[s \ {y}]
        OBVIOUS
    <2> DEFINE c == Chosen(s)
               rest == (s \ {c}) \ {y}
    <2>3. c \in s /\ g[s] = f[c] + g[s \ {c}]
        BY <1>4, <2>2
    <2> HIDE DEF c
    <2>4. y # c
        BY <2>2, <2>3
    <2>5. ~Bad(s \ {c}) /\ ~Bad(s \ {y})
        <3> HIDE DEF Bad
        <3>1. \A u \in SUBSET s : u # s => ~Bad(u)
            BY <2>1
        <3>2. s \ {c} # s /\ s \ {y} # s
            BY <2>2, <2>3
        <3>3. QED
            BY <3>1, <3>2
    <2>6. g[s \ {c}] = f[y] + g[rest]
        BY <2>2, <2>4, <2>5
    <2>7. g[s \ {y}] = f[c] + g[rest]
        <3>1. (s \ {y}) \ {c} = rest
            OBVIOUS
        <3> HIDE DEF rest
        <3>2. QED
            BY <2>3, <2>4, <2>5, <3>1
    <2>8. f[c] \in Int /\ f[y] \in Int /\ g[rest] \in Int
        BY <1>3, <2>3
    <2> HIDE DEF rest
    <2>9. QED
        BY <2>2, <2>3, <2>6, <2>7, <2>8
<1>6. ~Bad(S)
    BY <1>5
<1>7. SumFunctionOnSet(f, S) = g[S] /\ SumFunctionOnSet(f, S \ {x}) = g[S \ {x}]
    BY <1>2
<1>8. QED
    BY <1>6, <1>7

(* Elements that are not negative only add.                                  *)
LEMMA SumGrows ==
    ASSUME NEW f, NEW S, IsFiniteSet(S), \A x \in S : f[x] \in Nat, NEW A \in SUBSET S
    PROVE  SumFunctionOnSet(f, A) <= SumFunctionOnSet(f, S)
<1> DEFINE sum(s) == SumFunctionOnSet(f, s)
           B == {s \in SUBSET S : A \subseteq s /\ ~(sum(A) <= sum(s))}
<1>1. \A s \in SUBSET S : IsFiniteSet(s) /\ sum(s) \in Int
    <2> TAKE s \in SUBSET S
    <2>1. IsFiniteSet(s)
        BY FS_Subset
    <2>2. QED
        BY <2>1, SumIsInt
<1>2. \A s \in SUBSET S, x \in S : x \in s => sum(s) = f[x] + sum(s \ {x})
    BY <1>1, SumWithout
<1> HIDE DEF sum
<1>3. B = {}
    <2> SUFFICES ASSUME B # {} PROVE FALSE
        OBVIOUS
    <2>1. PICK s \in B : \A u \in B : u \subseteq s => u = s
        <3>1. B \in SUBSET SUBSET S
            OBVIOUS
        <3> HIDE DEF B
        <3>2. QED
            BY <3>1, SmallestSubset
    <2>2. s # A
        BY <1>1, <2>1
    <2>3. PICK x \in s : x \notin A
        BY <2>1, <2>2
    <2>4. sum(A) <= sum(s \ {x})
        BY <2>1, <2>3
    <2>5. sum(s) = f[x] + sum(s \ {x})
        BY <1>2, <2>1
    <2>6. f[x] \in Nat /\ sum(A) \in Int /\ sum(s \ {x}) \in Int
        BY <1>1, <2>1
    <2>7. QED
        BY <2>1, <2>4, <2>5, <2>6
<1>4. QED
    BY <1>3 DEF sum

(* Purchase intent counts for a lead: under weights that are not negative, a *)
(* mail in which more of the keywords occur never starts with a lower score, *)
(* however they are split between the shared boost and weights of their own  *)
(* (scoring.rs).                                                             *)
THEOREM InterestNeverLowers ==
    ASSUME NEW cfg, IsScoringConfig(cfg), cfg.boost >= 0,
           \A k \in DOMAIN cfg.weights : cfg.weights[k] >= 0,
           NEW m, NEW n, m.intent \subseteq n.intent,
           m.domainKind = n.domainKind, m.length = n.length, m.senior = n.senior
    PROVE  Score(m, cfg) <= Score(n, cfg)
<1> DEFINE found(any) == any.intent \cap cfg.keywords
           weighted(any) == found(any) \cap DOMAIN cfg.weights
           flat(any) == Given(found(any) # weighted(any), cfg.boost)
           own(any) == SumFunctionOnSet(cfg.weights, weighted(any))
<1>1. IsFiniteSet(weighted(m)) /\ IsFiniteSet(weighted(n)) /\ weighted(m) \subseteq weighted(n)
    BY FS_Subset DEF IsScoringConfig
<1>2. \A k \in weighted(n) : cfg.weights[k] \in Nat
    BY DEF IsScoringConfig
<1>3. own(m) \in Int /\ own(n) \in Int /\ own(m) <= own(n)
    <2> HIDE DEF weighted
    <2>1. \A k \in weighted(m) : cfg.weights[k] \in Int
        BY <1>1, <1>2
    <2>2. QED
        BY <1>1, <1>2, <2>1, SumIsInt, SumGrows
<1>4. flat(m) \in Int /\ flat(n) \in Int /\ flat(m) <= flat(n)
    <2>1. found(m) # weighted(m) => found(n) # weighted(n)
        OBVIOUS
    <2> HIDE DEF found, weighted
    <2>2. QED
        BY <2>1 DEF Given, IsScoringConfig
<1>5. PurchaseIntent(m, cfg) = flat(m) + own(m) /\ PurchaseIntent(n, cfg) = flat(n) + own(n)
    BY DEF PurchaseIntent
<1> HIDE DEF found, weighted, flat, own
<1>6. /\ RawScore(m, cfg) \in Int /\ RawScore(n, cfg) \in Int
      /\ RawScore(m, cfg) <= RawScore(n, cfg)
    <2> DEFINE rest == Given(m.domainKind = "corporate", cfg.corporate)
                     + Given(m.domainKind = "personal", cfg.personal)
                     + Given(m.length >= cfg.substantiveMin, cfg.substantive)
                     + Given(m.length < cfg.briefMax, cfg.brief)
               role == Given(m.senior, cfg.seniority)
    <2>1. rest \in Int /\ role \in Int
        BY DEF Given, IsScoringConfig
    <2>2. /\ RawScore(m, cfg) = rest + PurchaseIntent(m, cfg) + role
          /\ RawScore(n, cfg) = rest + PurchaseIntent(n, cfg) + role
        BY DEF RawScore
    <2> HIDE DEF rest, role
    <2>3. QED
        BY <1>3, <1>4, <1>5, <2>1, <2>2
<1>7. QED
    BY <1>6 DEF Score, Clamp

------------------------------------------------------------------------------
(* A handler that has a mail in hand knows it, and a lead that is about to   *)
(* be created has an owner.                                                  *)
MailSteps == HandlerSteps \ {"idle", "test"}

SettingsTyped ==
    /\ config \in ConfigRows
    /\ rules \subseteq RuleRows
    /\ cached = NoCopy \/ cached \in Settings
    /\ view \in [Handlers -> Settings]

Requests ==
    [Operators -> [step : {"idle", "save", "forget"}, row : ConfigRows,
                   thresholds : Thresholds \cup {Keep}]]

RequestsTyped ==
    /\ request \in Requests
    /\ tuned \in Thresholds
    /\ overlap \in BOOLEAN

StepsTyped ==
    /\ step \in [Handlers -> HandlerSteps]
    /\ mail \in [Handlers -> Mails \cup {NoMail}]
    /\ owner \in [Handlers -> Sellers \cup {Unassigned, NoSeller}]
    /\ fate \in [Handlers -> Fates]
    /\ \A h \in Handlers : /\ step[h] \in MailSteps => mail[h] \in Mails
                           /\ step[h] = "create" => owner[h] # NoSeller

LeadsTyped ==
    leads \subseteq [mail : Mails, seller : Sellers \cup {Unassigned}, score : 0 .. 100]

CountsTyped ==
    /\ load \in [Handlers -> {"no", "rules", "put"}]
    /\ delivered \in 0 .. MaxDeliveries /\ writes \in 0 .. MaxWrites

HistoryTyped ==
    /\ gone \subseteq Senders /\ vetted \subseteq Senders
    /\ muted \in [Handlers -> BOOLEAN] /\ welcome \in [Handlers -> BOOLEAN]

TypeInv ==
    /\ RoutersInv /\ SettingsTyped /\ RequestsTyped /\ StepsTyped /\ LeadsTyped
    /\ CountsTyped /\ HistoryTyped

LEMMA BuiltInsTyped ==
    /\ Balanced \in Thresholds
    /\ DefaultConfig \in ConfigRows
    /\ Unloaded \in Settings
    /\ DefaultsOnly \in Settings
<1>1. Balanced \in Thresholds
    BY DEF Balanced, Thresholds
<1>2. DefaultConfig \in ConfigRows
    BY <1>1 DEF DefaultConfig, ConfigRows, Strictness
<1>3. QED
    BY <1>1, <1>2 DEF Unloaded, DefaultsOnly, Settings

LEMMA TypeInit == Init => TypeInv
<1> SUFFICES ASSUME Init PROVE TypeInv
    OBVIOUS
<1>1. RoutersInv
    BY RoutersInit
<1>2. SettingsTyped
    BY BuiltInsTyped DEF Init, SettingsTyped
<1>3. RequestsTyped
    BY BuiltInsTyped DEF Init, RequestsTyped, Requests, Idle
<1>4. StepsTyped
    BY DEF Init, StepsTyped, HandlerSteps, MailSteps, Fates
<1>5. LeadsTyped /\ CountsTyped /\ HistoryTyped
    BY BoundsAssumption DEF Init, LeadsTyped, CountsTyped, HistoryTyped
<1>6. QED
    BY <1>1, <1>2, <1>3, <1>4, <1>5 DEF TypeInv

(* The rows, the copy and the loads.                                         *)
LEMMA SettingsStep ==
    ASSUME TypeInv, [Next]_vars
    PROVE  SettingsTyped'
<1>0. SettingsTyped /\ RequestsTyped /\ StepsTyped
    BY DEF TypeInv
<1> USE <1>0, BuiltInsTyped DEF SettingsTyped, settingVars
<1>1. ASSUME UNCHANGED <<config, rules, cached, view>> PROVE SettingsTyped'
    BY <1>1
<1>2. ASSUME NEW h \in Handlers, HandlerStep(h) PROVE SettingsTyped'
    <2>1. CASE ReadConfig(h)
        BY <2>1 DEF ReadConfig, Settings
    <2>2. CASE ReadRules(h)
        BY <2>2 DEF ReadRules, Settings
    <2>3. CASE Insert(h)
        BY <2>3 DEF Insert, EndLoad
    <2>4. CASE LoadFails(h)
        BY <2>4 DEF LoadFails, EndLoad
    <2>5. CASE BlockSender(h)
        <3> DEFINE row == [kind |-> "sender_block", value |-> Mail[mail[h]].from]
        <3>1. mail[h] \in Mails
            BY <2>5 DEF BlockSender, StepsTyped, MailSteps, HandlerSteps
        <3>2. row \in RuleRows
            BY <3>1 DEF RuleRows, RuleKinds, Senders
        <3>3. rules' = rules \cup {row} /\ UNCHANGED <<config, cached, view>>
            BY <2>5 DEF BlockSender, RulesBecome
        <3>4. QED
            BY <3>2, <3>3
    <2>6. CASE ForgetCopy(h)
        BY <2>6 DEF ForgetCopy, Forget
    <2>7. CASE \/ \E m \in Mails : Deliver(h, m)
               \/ DryRun(h) \/ UseCached(h) \/ BlockFails(h) \/ FindThread(h) \/ Route(h)
               \/ CreateLead(h) \/ CreateFails(h)
        BY <1>1, <2>7 DEF Deliver, DryRun, UseCached, BlockFails, FindThread, Route,
            CreateLead, CreateFails
    <2>8. QED
        BY <1>2, <2>1, <2>2, <2>3, <2>4, <2>5, <2>6, <2>7 DEF HandlerStep
<1>3. ASSUME NEW o \in Operators, OperatorStep(o) PROVE SettingsTyped'
    <2>1. CASE SaveRow(o)
        <3>1. config' \in ConfigRows
            BY <2>1 DEF SaveRow, RequestsTyped, Requests
        <3>2. QED
            BY <2>1, <3>1 DEF SaveRow, handlerVars
    <2>2. ASSUME NEW r \in RuleChoices, AddRule(o, r) PROVE SettingsTyped'
        BY <2>2, RequestsAssumption DEF AddRule, RulesBecome, handlerVars
    <2>3. ASSUME NEW r, DeleteRule(o, r) PROVE SettingsTyped'
        BY <2>3 DEF DeleteRule, RulesBecome, handlerVars
    <2>4. CASE Invalidate(o)
        BY <2>4 DEF Invalidate, Forget, handlerVars
    <2>5. CASE (\E body \in Bodies : ReadRow(o, body)) \/ CutShort(o)
        BY <1>1, <2>5 DEF ReadRow, CutShort, handlerVars
    <2>6. QED
        BY <1>3, <2>1, <2>2, <2>3, <2>4, <2>5 DEF OperatorStep
<1>4. CASE (\E ruleSet \in RuleSets : SwapRouter(ruleSet)) \/ ToolRoutes \/ UNCHANGED vars
    BY <1>1, <1>4 DEF SwapRouter, ToolRoutes, vars, handlerVars
<1>5. CASE Restart
    BY <1>5 DEF Restart
<1>6. QED
    BY <1>2, <1>3, <1>4, <1>5 DEF Next

(* The admin requests.                                                       *)
LEMMA AskTyped ==
    ASSUME RequestsTyped, NEW o \in Operators, NEW s \in {"idle", "save", "forget"},
           NEW row \in ConfigRows, NEW thresholds \in Thresholds \cup {Keep},
           Ask(o, s, row, thresholds)
    PROVE  request' \in Requests
BY DEF Ask, RequestsTyped, Requests

LEMMA RequestsStep ==
    ASSUME TypeInv, [Next]_vars
    PROVE  RequestsTyped'
<1>0. SettingsTyped /\ RequestsTyped
    BY DEF TypeInv
<1>1. ASSUME UNCHANGED <<request, tuned, overlap>> PROVE RequestsTyped'
    BY <1>0, <1>1 DEF RequestsTyped
<1>2. ASSUME NEW h \in Handlers, HandlerStep(h) PROVE RequestsTyped'
    BY <1>1, <1>2 DEF HandlerStep, Deliver, DryRun, UseCached, ReadConfig, ReadRules, Insert,
        LoadFails, BlockSender, BlockFails, ForgetCopy, FindThread, Route, CreateLead,
        CreateFails, tuningVars
<1>3. ASSUME NEW o \in Operators, OperatorStep(o) PROVE RequestsTyped'
    <2>1. ASSUME NEW body \in Bodies, ReadRow(o, body) PROVE RequestsTyped'
        <3> DEFINE row == [strictness |-> body.strictness,
                           custom |-> IF body.thresholds = Keep THEN config.custom
                                      ELSE body.thresholds]
        <3>1. body.strictness \in Strictness /\ body.thresholds \in Thresholds \cup {Keep}
            BY RequestsAssumption
        <3>2. config.custom \in Thresholds
            BY <1>0 DEF SettingsTyped, ConfigRows
        <3>3. row \in ConfigRows
            BY <3>1, <3>2 DEF ConfigRows
        <3>4. Ask(o, "save", row, body.thresholds)
            BY <2>1 DEF ReadRow
        <3> HIDE DEF row
        <3>5. request' \in Requests
            BY <1>0, <3>1, <3>3, <3>4, AskTyped
        <3>6. tuned' = tuned /\ overlap' \in BOOLEAN
            BY <1>0, <2>1 DEF ReadRow, RequestsTyped
        <3>7. QED
            BY <1>0, <3>5, <3>6 DEF RequestsTyped
    <2>2. ASSUME NEW s \in {"idle", "forget"}, Ask(o, s, DefaultConfig, Keep),
                 tuned' \in Thresholds, UNCHANGED overlap
          PROVE  RequestsTyped'
        <3>1. request' \in Requests
            BY <1>0, <2>2, BuiltInsTyped, AskTyped
        <3>2. QED
            BY <1>0, <2>2, <3>1 DEF RequestsTyped
    <2>3. CASE SaveRow(o)
        <3>1. tuned' \in Thresholds
            BY <1>0, <2>3 DEF SaveRow, RequestsTyped, Requests
        <3>2. QED
            BY <2>2, <2>3, <3>1 DEF SaveRow
    <2>4. tuned \in Thresholds
        BY <1>0 DEF RequestsTyped
    <2>5. ASSUME NEW r, AddRule(o, r) \/ DeleteRule(o, r) PROVE RequestsTyped'
        BY <1>1, <2>2, <2>4, <2>5 DEF AddRule, DeleteRule, tuningVars
    <2>6. CASE Invalidate(o) \/ CutShort(o)
        BY <2>2, <2>4, <2>6 DEF Invalidate, CutShort, tuningVars
    <2>7. QED
        BY <1>3, <2>1, <2>3, <2>5, <2>6 DEF OperatorStep
<1>4. CASE (\E ruleSet \in RuleSets : SwapRouter(ruleSet)) \/ ToolRoutes \/ UNCHANGED vars
    BY <1>1, <1>4 DEF SwapRouter, ToolRoutes, vars, tuningVars
<1>5. CASE Restart
    BY <1>0, <1>5, BuiltInsTyped DEF Restart, RequestsTyped, Requests, Idle,
        tuningVars
<1>6. QED
    BY <1>2, <1>3, <1>4, <1>5 DEF Next

(* Where a decision or a failure takes a handler.                            *)
LEMMA MoveTyped ==
    ASSUME StepsTyped, NEW h \in Handlers, UNCHANGED mail,
           \/ \E s \in MailSteps \ {"create"} : Proceed(h, s) /\ step[h] \in MailSteps
           \/ \E how \in Fates : Finish(h, how)
    PROVE  StepsTyped'
<1> USE DEF StepsTyped
<1>1. ASSUME NEW s \in MailSteps \ {"create"}, Proceed(h, s), step[h] \in MailSteps
      PROVE  StepsTyped'
    <2>1. step' = [step EXCEPT ![h] = s] /\ UNCHANGED <<mail, owner, fate>>
        BY <1>1 DEF Proceed, GoTo
    <2>2. s \in HandlerSteps /\ s # "create"
        BY DEF MailSteps
    <2>3. QED
        BY <1>1, <2>1, <2>2
<1>2. ASSUME NEW how \in Fates, Finish(h, how) PROVE StepsTyped'
    <2>1. /\ step' = [step EXCEPT ![h] = "idle"] /\ owner' = [owner EXCEPT ![h] = NoSeller]
          /\ fate' = [fate EXCEPT ![h] = how] /\ UNCHANGED mail
        BY <1>2 DEF Finish, GoTo
    <2>2. "idle" \in HandlerSteps /\ "idle" \notin MailSteps
        BY DEF HandlerSteps, MailSteps
    <2>3. QED
        BY <2>1, <2>2
<1>3. QED
    BY <1>1, <1>2

LEMMA DecideTyped ==
    ASSUME StepsTyped, NEW h \in Handlers, UNCHANGED mail, NEW settings, Decide(h, settings)
    PROVE  StepsTyped'
<1> USE DEF MailSteps, HandlerSteps, Fates
<1>1. CASE step[h] = "gate" /\ Rescued(Mail[mail[h]], settings.rules)
    BY <1>1, MoveTyped DEF Decide
<1>2. CASE step[h] = "gate" /\ ~Rescued(Mail[mail[h]], settings.rules)
    BY <1>2, MoveTyped DEF Decide
<1>3. CASE step[h] = "filter" /\ IsHuman(Mail[mail[h]], settings.config, settings.rules)
    BY <1>3, MoveTyped DEF Decide
<1>4. CASE step[h] = "filter" /\ ~IsHuman(Mail[mail[h]], settings.config, settings.rules)
    BY <1>4, MoveTyped DEF Decide
<1>5. CASE step[h] = "test"
    BY <1>5, MoveTyped DEF Decide
<1>6. QED
    BY <1>1, <1>2, <1>3, <1>4, <1>5 DEF Decide

LEMMA RouteTyped ==
    ASSUME RoutersInv, StepsTyped, NEW h \in Handlers, Route(h)
    PROVE  StepsTyped'
<1> DEFINE x == routers[router[h]]
           target == Dispatch(x.ruleSet, mail[h])
           pick == Pick(target, x.cursor)
<1>1. x \in Routers
    BY DEF RoutersInv
<1>2. x.cursor \in Nat
    BY <1>1 DEF Routers
<1>3. pick \in Sellers \cup {Unassigned, NoSeller}
    BY <1>1, <1>2, RuleSetsParsed, DispatchIsTarget, PickIsSeller
<1>4. UNCHANGED mail /\ step[h] = "route"
    BY DEF Route
<1>5. CASE pick = NoSeller
    <2>1. Finish(h, "dropped by a rule")
        BY <1>5 DEF Route
    <2>2. QED
        BY <1>4, <2>1, MoveTyped DEF Fates
<1>6. CASE pick # NoSeller
    <2>1. PICK now \in Instants :
              owner' = [owner EXCEPT ![h] = Owner(pick, SellerRecords, now)]
        BY <1>6 DEF Route
    <2>2. step' = [step EXCEPT ![h] = "create"] /\ UNCHANGED fate
        BY <1>6 DEF Route, GoTo
    <2> DEFINE who == Owner(pick, SellerRecords, now)
    <2>3. who \in Sellers \cup {Unassigned} /\ who # NoSeller
        BY <1>3, <1>6, SellersAssumption DEF Owner
    <2>4. mail[h] \in Mails /\ "create" \in HandlerSteps
        BY <1>4 DEF StepsTyped, MailSteps, HandlerSteps
    <2> HIDE DEF who, pick
    <2>5. owner' = [owner EXCEPT ![h] = who]
        BY <2>1 DEF who
    <2>6. QED
        BY <1>4, <2>2, <2>3, <2>4, <2>5 DEF StepsTyped
<1>7. QED
    BY <1>5, <1>6

LEMMA HandlerTyped ==
    ASSUME TypeInv, NEW h \in Handlers, HandlerStep(h)
    PROVE  StepsTyped'
<1>0. RoutersInv /\ StepsTyped
    BY DEF TypeInv
<1> USE <1>0 DEF MailSteps, HandlerSteps, Fates
<1>1. ASSUME NEW m \in Mails, Deliver(h, m) PROVE StepsTyped'
    <2>1. PICK s \in {"gate", "block", "thread"} : step' = [step EXCEPT ![h] = s]
        BY <1>1 DEF Deliver, GoTo
    <2>2. /\ mail' = [mail EXCEPT ![h] = m] /\ fate' = [fate EXCEPT ![h] = "none"]
          /\ UNCHANGED owner
        BY <1>1 DEF Deliver
    <2>3. QED
        BY <2>1, <2>2 DEF StepsTyped
<1>2. CASE DryRun(h)
    BY <1>2 DEF DryRun, GoTo, StepsTyped
<1>3. CASE UseCached(h)
    BY <1>3, DecideTyped DEF UseCached
<1>4. CASE Insert(h)
    BY <1>4, DecideTyped DEF Insert
<1>5. CASE LoadFails(h)
    BY <1>5, DecideTyped DEF LoadFails
<1>6. CASE ReadConfig(h) \/ ReadRules(h)
    BY <1>6 DEF ReadConfig, ReadRules, StepsTyped
<1>7. CASE BlockSender(h)
    BY <1>7, MoveTyped DEF BlockSender
<1>8. CASE BlockFails(h)
    BY <1>8, MoveTyped DEF BlockFails
<1>9. CASE ForgetCopy(h)
    BY <1>9, MoveTyped DEF ForgetCopy
<1>10. CASE FindThread(h)
    BY <1>10, MoveTyped DEF FindThread
<1>11. CASE Route(h)
    BY <1>11, RouteTyped
<1>12. CASE CreateLead(h)
    BY <1>12, MoveTyped DEF CreateLead
<1>13. CASE CreateFails(h)
    BY <1>13, MoveTyped DEF CreateFails
<1>14. QED
    BY <1>1, <1>2, <1>3, <1>4, <1>5, <1>6, <1>7, <1>8, <1>9, <1>10, <1>11, <1>12, <1>13
    DEF HandlerStep

LEMMA StepsStep ==
    ASSUME TypeInv, [Next]_vars
    PROVE  StepsTyped'
<1>0. StepsTyped
    BY DEF TypeInv
<1>1. ASSUME UNCHANGED <<step, mail, owner, fate>> PROVE StepsTyped'
    BY <1>0, <1>1 DEF StepsTyped
<1>2. ASSUME NEW o \in Operators, OperatorStep(o) PROVE StepsTyped'
    BY <1>1, <1>2 DEF OperatorStep, ReadRow, SaveRow, AddRule, DeleteRule, Invalidate,
        CutShort, handlerVars
<1>3. CASE (\E ruleSet \in RuleSets : SwapRouter(ruleSet)) \/ ToolRoutes \/ UNCHANGED vars
    BY <1>1, <1>3 DEF SwapRouter, ToolRoutes, vars, handlerVars
<1>4. CASE Restart
    BY <1>0, <1>4 DEF Restart, StepsTyped, MailSteps, HandlerSteps
<1>5. QED
    BY <1>2, <1>3, <1>4, HandlerTyped DEF Next

(* The leads.                                                                *)
LEMMA LeadsStep ==
    ASSUME TypeInv, [Next]_vars
    PROVE  LeadsTyped'
<1>0. StepsTyped /\ LeadsTyped
    BY DEF TypeInv
<1>1. ASSUME UNCHANGED leads PROVE LeadsTyped'
    BY <1>0, <1>1 DEF LeadsTyped
<1>2. ASSUME NEW h \in Handlers, CreateLead(h) PROVE LeadsTyped'
    <2> DEFINE score == Score(Mail[mail[h]], Scoring)
    <2>1. score \in 0 .. 100
        BY ScoringAssumption, ScoreIsPercentage
    <2>2. mail[h] \in Mails /\ owner[h] \in Sellers \cup {Unassigned}
        BY <1>0, <1>2 DEF CreateLead, StepsTyped, MailSteps, HandlerSteps
    <2>3. leads' = leads \cup {[mail |-> mail[h], seller |-> owner[h], score |-> score]}
        BY <1>2 DEF CreateLead
    <2> HIDE DEF score
    <2>4. QED
        BY <1>0, <2>1, <2>2, <2>3 DEF LeadsTyped
<1>3. ASSUME NEW h \in Handlers, HandlerStep(h), ~ CreateLead(h) PROVE LeadsTyped'
    BY <1>1, <1>3 DEF HandlerStep, Deliver, DryRun, UseCached, ReadConfig, ReadRules, Insert,
        LoadFails, BlockSender, BlockFails, ForgetCopy, FindThread, Route, CreateFails
<1>4. ASSUME NEW o \in Operators, OperatorStep(o) PROVE LeadsTyped'
    BY <1>1, <1>4 DEF OperatorStep, ReadRow, SaveRow, AddRule, DeleteRule, Invalidate, CutShort
<1>5. CASE \/ \E ruleSet \in RuleSets : SwapRouter(ruleSet)
           \/ ToolRoutes \/ Restart \/ UNCHANGED vars
    BY <1>1, <1>5 DEF SwapRouter, ToolRoutes, Restart, vars
<1>6. QED
    BY <1>2, <1>3, <1>4, <1>5 DEF Next

(* Loads and counters.                                                       *)
LEMMA CountsStep ==
    ASSUME TypeInv, [Next]_vars
    PROVE  CountsTyped'
<1>0. CountsTyped
    BY DEF TypeInv
<1> USE <1>0, BoundsAssumption DEF CountsTyped
<1>1. ASSUME UNCHANGED <<load, delivered, writes>> PROVE CountsTyped'
    BY <1>1
<1>2. ASSUME NEW h \in Handlers, HandlerStep(h) PROVE CountsTyped'
    <2>1. ASSUME NEW m \in Mails, Deliver(h, m) PROVE CountsTyped'
        BY <2>1 DEF Deliver
    <2>2. CASE DryRun(h)
        BY <2>2 DEF DryRun
    <2>3. CASE ReadConfig(h) \/ ReadRules(h)
        BY <2>3 DEF ReadConfig, ReadRules
    <2>4. CASE Insert(h) \/ LoadFails(h)
        BY <2>4 DEF Insert, LoadFails, EndLoad
    <2>5. CASE UseCached(h) \/ BlockSender(h) \/ BlockFails(h) \/ ForgetCopy(h) \/ FindThread(h)
               \/ Route(h) \/ CreateLead(h) \/ CreateFails(h)
        BY <1>1, <2>5 DEF UseCached, BlockSender, BlockFails, ForgetCopy, FindThread, Route,
            CreateLead, CreateFails
    <2>6. QED
        BY <1>2, <2>1, <2>2, <2>3, <2>4, <2>5 DEF HandlerStep
<1>3. ASSUME NEW o \in Operators, OperatorStep(o) PROVE CountsTyped'
    <2>1. load' = load /\ delivered' = delivered
        BY <1>3 DEF OperatorStep, ReadRow, SaveRow, AddRule, DeleteRule, Invalidate, CutShort,
            handlerVars
    <2>2. writes' = writes \/ (writes < MaxWrites /\ writes' = writes + 1)
        BY <1>3 DEF OperatorStep, ReadRow, SaveRow, AddRule, DeleteRule, Invalidate, CutShort
    <2>3. QED
        BY <2>1, <2>2
<1>4. CASE (\E ruleSet \in RuleSets : SwapRouter(ruleSet)) \/ UNCHANGED vars
    BY <1>1, <1>4 DEF SwapRouter, vars, handlerVars
<1>5. CASE ToolRoutes
    BY <1>5 DEF ToolRoutes, handlerVars
<1>6. CASE Restart
    BY <1>6 DEF Restart
<1>7. QED
    BY <1>2, <1>3, <1>4, <1>5, <1>6 DEF Next

(* The histories of the filter.                                              *)
LEMMA HistoryStep ==
    ASSUME TypeInv, [Next]_vars
    PROVE  HistoryTyped'
<1>0. HistoryTyped
    BY DEF TypeInv
<1> USE <1>0 DEF HistoryTyped
<1>1. ASSUME UNCHANGED historyVars PROVE HistoryTyped'
    BY <1>1 DEF historyVars
<1>2. ASSUME NEW rs, RulesBecome(rs) PROVE HistoryTyped'
    <2>1. \A s : Blocks(rs, s) \in BOOLEAN /\ Allows(rs, s) \in BOOLEAN
        BY DEF Blocks, Allows
    <2>2. QED
        BY <1>2, <2>1 DEF RulesBecome
<1>3. ASSUME Forget PROVE HistoryTyped'
    BY <1>3 DEF Forget
<1>4. ASSUME NEW h \in Handlers, HandlerStep(h) PROVE HistoryTyped'
    <2>1. ASSUME NEW m \in Mails, Deliver(h, m) PROVE HistoryTyped'
        BY <2>1 DEF Deliver
    <2>2. CASE DryRun(h)
        BY <2>2 DEF DryRun
    <2>3. CASE LoadFails(h)
        BY <2>3 DEF LoadFails
    <2>4. CASE BlockSender(h)
        BY <1>2, <2>4 DEF BlockSender
    <2>5. CASE ForgetCopy(h)
        BY <1>3, <2>5 DEF ForgetCopy
    <2>6. CASE \/ UseCached(h) \/ ReadConfig(h) \/ ReadRules(h) \/ Insert(h) \/ BlockFails(h)
               \/ FindThread(h) \/ Route(h) \/ CreateLead(h) \/ CreateFails(h)
        BY <1>1, <2>6 DEF UseCached, ReadConfig, ReadRules, Insert, BlockFails, FindThread,
            Route, CreateLead, CreateFails
    <2>7. QED
        BY <1>4, <2>1, <2>2, <2>3, <2>4, <2>5, <2>6 DEF HandlerStep
<1>5. ASSUME NEW o \in Operators, OperatorStep(o) PROVE HistoryTyped'
    <2>1. ASSUME NEW r, AddRule(o, r) \/ DeleteRule(o, r) PROVE HistoryTyped'
        BY <1>2, <2>1 DEF AddRule, DeleteRule
    <2>2. CASE Invalidate(o)
        BY <1>3, <2>2 DEF Invalidate
    <2>3. CASE (\E body \in Bodies : ReadRow(o, body)) \/ SaveRow(o) \/ CutShort(o)
        BY <1>1, <2>3 DEF ReadRow, SaveRow, CutShort
    <2>4. QED
        BY <1>5, <2>1, <2>2, <2>3 DEF OperatorStep
<1>6. CASE (\E ruleSet \in RuleSets : SwapRouter(ruleSet)) \/ ToolRoutes \/ UNCHANGED vars
    BY <1>1, <1>6 DEF SwapRouter, ToolRoutes, vars
<1>7. CASE Restart
    BY <1>7 DEF Restart
<1>8. QED
    BY <1>4, <1>5, <1>6, <1>7 DEF Next

LEMMA TypeInvHolds == Spec => []TypeInv
<1>1. TypeInv /\ [Next]_vars => TypeInv'
    <2> SUFFICES ASSUME TypeInv, [Next]_vars PROVE TypeInv'
        OBVIOUS
    <2>1. RoutersInv'
        BY RoutersStep DEF TypeInv
    <2>2. QED
        BY <2>1, SettingsStep, RequestsStep, StepsStep, LeadsStep, CountsStep, HistoryStep
        DEF TypeInv
<1>2. QED
    BY <1>1, TypeInit, PTL DEF Spec

(* Rows, copies, handlers, requests and routers keep their types; a lead has *)
(* an owner, and a score between 0 and 100 whatever the weights.             *)
THEOREM ColdMailTypeCorrect == Spec => []TypeOK
<1>1. TypeInv => TypeOK
    BY DEF TypeInv, TypeOK, RoutersInv, SettingsTyped, RequestsTyped, StepsTyped, LeadsTyped,
        CountsTyped, HistoryTyped, Requests
<1>2. QED
    BY <1>1, TypeInvHolds, PTL

==============================================================================
