------------------------------- MODULE Outreach -------------------------------
(* How a mail leaves the process, below the reservation that DraftApproval   *)
(* models: approve_draft_handler and send_handler rewrite its links for      *)
(* tracking (tracking.rs), ask the compliance gate                           *)
(* (compliance/outbound_gate.rs) and publish; the recipient's mail client    *)
(* then fetches the pixel and the links (admin/tracking.rs).                 *)
(*                                                                           *)
(* The gate's two counters are in memory, each behind a lock of its own; the *)
(* links and events are rows.  Every attempt has a fresh message id, and the *)
(* body the gate compares is the rewritten one: with tracking, no two bodies *)
(* are the same.  The gate also blots personal data out of that body, URLs   *)
(* included.  The redactor is a library's: which URLs its patterns for       *)
(* telephone and card numbers hit is left open.                              *)
EXTENDS Naturals, FiniteSets

CONSTANTS
    Slots,         \* requests in flight
    Drafts,
    Recipient, Text, Links,   \* of each draft
    AutoReplies, OptOuts, Personal,   \* texts the gate's matchers know
    RedactPii,     \* whether personal data is blotted out or blocked
    Pixel,         \* the URL that is fetched when a mail is opened
    NoDraft,
    LoopMax, LoopWindow,   \* this many equal bodies in the window are a loop
    RateMax, RateWindow,   \* this many mails to one recipient in the window
    MaxAttempts, MaxTime, MaxRuns   \* bounds

ASSUME DraftAssumption == /\ NoDraft \notin Drafts /\ RedactPii \in BOOLEAN
                          /\ \A d \in Drafts : Pixel \notin Links[d]
ASSUME GateAssumption ==
    /\ LoopMax \in Nat \ {0} /\ RateMax \in Nat
    /\ LoopWindow \in Nat /\ RateWindow \in Nat
ASSUME BoundsAssumption ==
    MaxAttempts \in Nat /\ MaxTime \in Nat /\ MaxRuns \in Nat \ {0}

Attempts == 1 .. MaxAttempts

VARIABLES
    clock,
    run,        \* the runs of the process
    tries,      \* attempts so far: the message id of the next is one more
    draft,      \* the draft of each message id
    links,      \* rows of the link map: <<message id, link>>
    opened,     \* message ids with an open event
    clicked,    \* <<message id, link>> with a click event
    bodies,     \* anti_loop: the bodies checked in this run, with their time
    permits,    \* rate_limit: the permits given in this run, with their time
    step,       \* the next step of each request
    msg,        \* the message id of its attempt, 0 before one is minted
    tracked,    \* whether its body is the rewritten one
    checked,    \* when the body passed anti_loop
    blotted,    \* the URLs the gate's redactor hit in it
    sent        \* the mails that have left, with the URLs that are whole in each

gateVars == <<bodies, permits>>
eventVars == <<opened, clicked>>
requestVars == <<step, msg, tracked, checked, blotted>>
vars == <<clock, run, tries, draft, links, eventVars, gateVars, requestVars, sent>>

Init ==
    /\ clock = 0 /\ run = 1 /\ tries = 0
    /\ draft = [n \in Attempts |-> NoDraft]
    /\ links = {}
    /\ opened = {} /\ clicked = {}
    /\ bodies = {} /\ permits = {}
    /\ step = [s \in Slots |-> "idle"]
    /\ msg = [s \in Slots |-> 0]
    /\ tracked = [s \in Slots |-> FALSE]
    /\ checked = [s \in Slots |-> 0]
    /\ blotted = [s \in Slots |-> {}]
    /\ sent = {}

GoTo(s, where) == step' = [step EXCEPT ![s] = where]

Done(s) ==
    /\ GoTo(s, "idle")
    /\ msg' = [msg EXCEPT ![s] = 0]
    /\ tracked' = [tracked EXCEPT ![s] = FALSE]
    /\ checked' = [checked EXCEPT ![s] = 0]
    /\ blotted' = [blotted EXCEPT ![s] = {}]

Of(s) == draft[msg[s]]

(* The body as the gate sees it, and the URLs a rewritten one has in it.     *)
Body(s) == <<Text[Of(s)], IF tracked[s] THEN msg[s] ELSE 0>>
Urls(s) == IF tracked[s] THEN Links[Of(s)] \cup {Pixel} ELSE {}

------------------------------------------------------------------------------
(* prepare_outbound_email mints the message id and writes a row per link.    *)
Begin(s, d) ==
    /\ step[s] = "idle"
    /\ tries < MaxAttempts
    /\ tries' = tries + 1
    /\ draft' = [draft EXCEPT ![tries + 1] = d]
    /\ msg' = [msg EXCEPT ![s] = tries + 1]
    /\ \/ GoTo(s, "register")
       \/ GoTo(s, "check")     \* tracking is not wired, or not asked for
    /\ UNCHANGED <<clock, run, links, eventVars, gateVars, tracked, checked, blotted,
                   sent>>

Missing(s) == {l \in Links[Of(s)] : <<msg[s], l>> \notin links}

RegisterLink(s) ==
    /\ step[s] = "register"
    /\ \E l \in Missing(s) : links' = links \cup {<<msg[s], l>>}
    /\ UNCHANGED <<clock, run, tries, draft, eventVars, gateVars, requestVars, sent>>

(* A row that cannot be written leaves the body as it was: "outbound will    *)
(* lack tracking signals (non-fatal)".                                       *)
RegisterFails(s) ==
    /\ step[s] = "register"
    /\ GoTo(s, "check")
    /\ UNCHANGED <<clock, run, tries, draft, links, eventVars, gateVars, msg, tracked, checked,
                   blotted, sent>>

\* Mutant: the body is replaced before the rows are written.
BugRewrite(s) ==
    /\ step[s] = "register"
    /\ tracked' = [tracked EXCEPT ![s] = TRUE]
    /\ GoTo(s, IF Missing(s) = {} THEN "check" ELSE "register")
    /\ UNCHANGED <<clock, run, tries, draft, links, eventVars, gateVars, msg, checked, blotted,
                   sent>>

(* The body is replaced last, in one assignment.                             *)
Rewrite(s) ==
    /\ step[s] = "register"
    /\ Missing(s) = {}
    /\ tracked' = [tracked EXCEPT ![s] = TRUE]
    /\ GoTo(s, "check")
    /\ UNCHANGED <<clock, run, tries, draft, links, eventVars, gateVars, msg, checked, blotted,
                   sent>>

------------------------------------------------------------------------------
(* OutboundGate::check.  Every body is recorded, also one that is then       *)
(* refused for another reason.                                               *)
Recent(log, window) == {e \in log : clock < e.at + window}

Repeats(s) == Cardinality({e \in Recent(bodies, LoopWindow) : e.body = Body(s)}) + 1

(* The redactor changes a body with personal data in its text, or with a URL *)
(* that looks like some.                                                     *)
Changed(text, hit) == text \in Personal \/ hit # {}

Clean(text, hit) == /\ text \notin AutoReplies \cup OptOuts
                    /\ Changed(text, hit) => RedactPii

Pass(s, hit) ==
    /\ GoTo(s, "limit")
    /\ checked' = [checked EXCEPT ![s] = clock]
    /\ blotted' = [blotted EXCEPT ![s] = hit]
    /\ UNCHANGED <<msg, tracked>>

\* Mutant: only a body that is refused is recorded.
BugCheckBody(s) ==
    /\ step[s] = "check"
    /\ \E hit \in SUBSET Urls(s) :
          IF Clean(Text[Of(s)], hit) /\ Repeats(s) < LoopMax
          THEN Pass(s, hit) /\ bodies' = bodies
          ELSE Done(s) /\ bodies' = bodies \cup {[body |-> Body(s), at |-> clock, msg |-> msg[s]]}
    /\ UNCHANGED <<clock, run, tries, draft, links, eventVars, permits, sent>>

(* Anti-loop, opt-out words and personal data: a refused mail is answered    *)
(* 412 and its lead left alone.  What is counted is the body as it came; the *)
(* redacted one is what goes on (ModifyAndSend).                             *)
CheckBody(s) ==
    /\ step[s] = "check"
    /\ bodies' = bodies \cup {[body |-> Body(s), at |-> clock, msg |-> msg[s]]}
    /\ \E hit \in SUBSET Urls(s) :
          IF Clean(Text[Of(s)], hit) /\ Repeats(s) < LoopMax THEN Pass(s, hit) ELSE Done(s)
    /\ UNCHANGED <<clock, run, tries, draft, links, eventVars, permits, sent>>

Used(to) == Cardinality({p \in Recent(permits, RateWindow) : p.to = to})

TakePermit(s) ==
    /\ step[s] = "limit"
    /\ Used(Recipient[Of(s)]) < RateMax
    /\ permits' = permits \cup {[to |-> Recipient[Of(s)], at |-> clock, msg |-> msg[s]]}
    /\ GoTo(s, "publish")
    /\ UNCHANGED <<clock, run, tries, draft, links, eventVars, bodies, msg, tracked, checked,
                   blotted, sent>>

Throttled(s) ==
    /\ step[s] = "limit"
    /\ Used(Recipient[Of(s)]) >= RateMax
    /\ Done(s)
    /\ UNCHANGED <<clock, run, tries, draft, links, eventVars, gateVars, sent>>

(* The body is the one the gate handed back.                                 *)
Publish(s) ==
    /\ step[s] = "publish"
    /\ sent' = sent \cup {[msg |-> msg[s], tracked |-> tracked[s],
                           urls |-> Urls(s) \ blotted[s], checked |-> checked[s],
                           permitted |-> (CHOOSE p \in permits : p.msg = msg[s]).at,
                           run |-> run]}
    /\ Done(s)
    /\ UNCHANGED <<clock, run, tries, draft, links, eventVars, gateVars>>

(* The broker refuses it, or the client of the request is gone by then; one  *)
(* that goes earlier leaves its request where it is.                         *)
PublishFails(s) ==
    /\ step[s] = "publish"
    /\ Done(s)
    /\ UNCHANGED <<clock, run, tries, draft, links, eventVars, gateVars, sent>>

------------------------------------------------------------------------------
(* The pixel of a mail that left: an event, unless it cannot be stored.  A   *)
(* URL that was blotted is refused for its signature, and nothing happens.   *)
Open(m) ==
    /\ Pixel \in m.urls
    /\ opened' = opened \cup {m.msg}
    /\ UNCHANGED <<clock, run, tries, draft, links, clicked, gateVars, requestVars, sent>>

(* A link of it: looked up, then the click recorded, then followed.          *)
Click(m, l) ==
    /\ l \in m.urls
    /\ <<m.msg, l>> \in links     \* NOT_FOUND otherwise, and nothing is recorded
    /\ clicked' = clicked \cup {<<m.msg, l>>}
    /\ UNCHANGED <<clock, run, tries, draft, links, opened, gateVars, requestVars, sent>>

Tick ==
    /\ clock < MaxTime
    /\ clock' = clock + 1
    /\ UNCHANGED <<run, tries, draft, links, eventVars, gateVars, requestVars, sent>>

\* Mutant: message ids are numbered afresh by each run of the process.
BugRestart ==
    /\ run < MaxRuns
    /\ run' = run + 1 /\ tries' = 0
    /\ bodies' = {} /\ permits' = {}
    /\ step' = [s \in Slots |-> "idle"]
    /\ msg' = [s \in Slots |-> 0]
    /\ tracked' = [s \in Slots |-> FALSE]
    /\ checked' = [s \in Slots |-> 0]
    /\ blotted' = [s \in Slots |-> {}]
    /\ UNCHANGED <<clock, draft, links, eventVars, sent>>

(* Counters and requests are gone, rows stay.                                *)
Restart ==
    /\ run < MaxRuns
    /\ run' = run + 1
    /\ bodies' = {} /\ permits' = {}
    /\ step' = [s \in Slots |-> "idle"]
    /\ msg' = [s \in Slots |-> 0]
    /\ tracked' = [s \in Slots |-> FALSE]
    /\ checked' = [s \in Slots |-> 0]
    /\ blotted' = [s \in Slots |-> {}]
    /\ UNCHANGED <<clock, tries, draft, links, eventVars, sent>>

RequestStep(s) ==
    \/ \E d \in Drafts : Begin(s, d)
    \/ RegisterLink(s) \/ RegisterFails(s) \/ Rewrite(s)
    \/ CheckBody(s)
    \/ TakePermit(s) \/ Throttled(s)
    \/ Publish(s) \/ PublishFails(s)

Next ==
    \/ \E s \in Slots : RequestStep(s)
    \/ \E m \in sent : Open(m) \/ \E l \in Links[draft[m.msg]] : Click(m, l)
    \/ Tick
    \/ Restart

Spec == Init /\ [][Next]_vars

------------------------------------------------------------------------------
AllLinks == UNION {Links[d] : d \in Drafts}

(* Type invariant; only links a client was sent are clicked, and of the      *)
(* mails that left each message id is one.                                   *)
TypeOK ==
    /\ clock \in 0 .. MaxTime /\ run \in 1 .. MaxRuns /\ tries \in 0 .. MaxAttempts
    /\ draft \in [Attempts -> Drafts \cup {NoDraft}]
    /\ links \subseteq Attempts \X AllLinks
    /\ opened \subseteq Attempts
    /\ clicked \subseteq links
    /\ \A e \in bodies : e.at <= clock /\ e.msg \in 1 .. tries
    /\ \A p \in permits : p.at <= clock /\ p.msg \in 1 .. tries
    /\ step \in [Slots -> {"idle", "register", "check", "limit", "publish"}]
    /\ msg \in [Slots -> 0 .. tries]
    /\ \A s \in Slots : step[s] # "idle" => msg[s] # 0 /\ draft[msg[s]] \in Drafts
    /\ tracked \in [Slots -> BOOLEAN]
    /\ checked \in [Slots -> 0 .. MaxTime]
    /\ blotted \in [Slots -> SUBSET (AllLinks \cup {Pixel})]
    /\ \A m, n \in sent : m.msg = n.msg => m = n

(* Whatever row fails to be written, whichever request is cut short, however *)
(* many mails are prepared and never sent and whatever the gate blots out, a *)
(* rewritten link that reached somebody whole can be followed, for ever      *)
(* after (tracking.rs, admin/tracking.rs).  One that was blotted leads       *)
(* nowhere, and the mail is as good as sent without it.                      *)
Tracking ==
    INSTANCE TrackedMail
    WITH Marks <- Attempts \X AllLinks,
         prepared <- links,
         out <- {mark \in Attempts \X AllLinks :
                    \E m \in sent : m.msg = mark[1] /\ mark[2] \in m.urls}
ImplementsTracking == Tracking!TrackedSpec

Windows(width) == {t .. t + width - 1 : t \in 0 .. MaxTime}

(* "anti-loop: same body 3+ times within 60 s = loop" and "30 outbounds per  *)
(* recipient per hour" (outbound_gate.rs): of the mails that left in one run *)
(* of the process, no window has LoopMax with the same untracked text or     *)
(* more than RateMax to a recipient, however the checks of concurrent        *)
(* requests interleave.  (With tracking the bodies differ, so the first half *)
(* is not true of tracked mails.)                                            *)
GateHolds ==
    \A r \in 1 .. MaxRuns :
        LET ofRun == {m \in sent : m.run = r}
        IN  /\ \A w \in Windows(LoopWindow), d \in Drafts :
                  Cardinality({m \in ofRun : /\ ~m.tracked /\ m.checked \in w
                                             /\ Text[draft[m.msg]] = Text[d]}) < LoopMax
            /\ \A w \in Windows(RateWindow), d \in Drafts :
                  Cardinality({m \in ofRun : /\ m.permitted \in w
                                             /\ Recipient[draft[m.msg]] = Recipient[d]})
                      <= RateMax

==============================================================================
