---------------------------- MODULE OutreachProofs ----------------------------
(* Theorems about Outreach for any number of requests, drafts, links,        *)
(* attempts and restarts, and for any limits and windows of the gate.        *)
EXTENDS Outreach, FiniteSetTheorems, TLAPS

Passed == {"limit", "publish"}

(* What is known of a mail that left.                                        *)
Mails == [msg : 1 .. tries, tracked : BOOLEAN, urls : SUBSET (AllLinks \cup {Pixel}),
          checked : 0 .. MaxTime, permitted : 0 .. MaxTime, run : 1 .. run]

(* Sorts of the variables.                                                   *)
Shape ==
    /\ clock \in 0 .. MaxTime /\ run \in 1 .. MaxRuns /\ tries \in 0 .. MaxAttempts
    /\ draft \in [Attempts -> Drafts \cup {NoDraft}]
    /\ links \subseteq Attempts \X AllLinks
    /\ opened \subseteq Attempts
    /\ clicked \subseteq links
    /\ step \in [Slots -> {"idle", "register", "check", "limit", "publish"}]
    /\ msg \in [Slots -> 0 .. tries]
    /\ tracked \in [Slots -> BOOLEAN]
    /\ checked \in [Slots -> 0 .. MaxTime]
    /\ blotted \in [Slots -> SUBSET (AllLinks \cup {Pixel})]
    /\ \A e \in bodies : e.at \in 0 .. clock /\ e.msg \in 1 .. tries
    /\ \A p \in permits : p.at \in 0 .. clock /\ p.msg \in 1 .. tries
    /\ sent \subseteq Mails
    /\ IsFiniteSet(bodies) /\ IsFiniteSet(permits)

(* A message id belongs to the request that minted it until it leaves, and   *)
(* to nobody afterwards.                                                     *)
IdsAreFresh ==
    /\ \A n \in 1 .. tries : draft[n] \in Drafts
    /\ \A n \in Attempts : n > tries => draft[n] = NoDraft
    /\ \A s \in Slots : step[s] # "idle" => msg[s] # 0
    /\ \A s, t \in Slots : step[s] # "idle" /\ step[t] # "idle" /\ msg[s] = msg[t] => s = t
    /\ \A s \in Slots : step[s] # "idle" => \A m \in sent : m.msg # msg[s]
    /\ \A m, n \in sent : m.msg = n.msg => m = n

(* Every link of a body that was rewritten has its row.                      *)
LinksResolve ==
    /\ \A s \in Slots :
          tracked[s] => step[s] \notin {"idle", "register"} /\ Missing(s) = {}
    /\ \A m \in sent : m.urls \subseteq Links[draft[m.msg]] \cup {Pixel}
    /\ \A m \in sent, l \in AllLinks : l \in m.urls => <<m.msg, l>> \in links

(* Whoever is about to publish has a permit, one per message.                *)
PermitsHeld ==
    /\ \A s \in Slots : step[s] = "publish" =>
          [to |-> Recipient[Of(s)],
           at |-> (CHOOSE p \in permits : p.msg = msg[s]).at, msg |-> msg[s]] \in permits
    /\ \A s \in Slots : step[s] \notin {"idle", "publish"} =>
          \A p \in permits : p.msg # msg[s]
    /\ \A p, q \in permits : p.msg = q.msg => p = q

OutreachInv == Shape /\ IdsAreFresh /\ LinksResolve /\ PermitsHeld

LEMMA OutreachInit == Init => OutreachInv
<1> SUFFICES ASSUME Init PROVE OutreachInv
    OBVIOUS
<1>1. Shape
    BY BoundsAssumption, FS_EmptySet DEF Init, Shape
<1>2. IdsAreFresh /\ LinksResolve /\ PermitsHeld
    BY BoundsAssumption DEF Init, IdsAreFresh, LinksResolve, PermitsHeld, Attempts
<1>3. QED
    BY <1>1, <1>2 DEF OutreachInv

LEMMA PixelIsNoLink == Pixel \notin AllLinks
BY DraftAssumption DEF AllLinks

(* A request that ends, or stays where its own variables are untouched.      *)
LEMMA DoneShape ==
    ASSUME OutreachInv, NEW s \in Slots, Done(s)
    PROVE  /\ step' \in [Slots -> {"idle", "register", "check", "limit", "publish"}]
           /\ msg' \in [Slots -> 0 .. tries]
           /\ tracked' \in [Slots -> BOOLEAN]
           /\ checked' \in [Slots -> 0 .. MaxTime]
           /\ blotted' \in [Slots -> SUBSET (AllLinks \cup {Pixel})]
           /\ step'[s] = "idle" /\ ~tracked'[s]
           /\ \A t \in Slots \ {s} : /\ step'[t] = step[t] /\ msg'[t] = msg[t]
                                     /\ tracked'[t] = tracked[t] /\ checked'[t] = checked[t]
BY BoundsAssumption DEF OutreachInv, Shape, Done, GoTo

LEMMA BeginKeeps ==
    ASSUME OutreachInv, NEW s \in Slots, NEW d \in Drafts, Begin(s, d)
    PROVE  OutreachInv'
<1> USE DEF OutreachInv
<1> DEFINE n == tries + 1
<1>1. n \in Attempts /\ tries \in Nat /\ MaxAttempts \in Nat
    BY BoundsAssumption DEF Begin, Shape, Attempts
<1>2. Shape'
    <2>1. draft' \in [Attempts -> Drafts \cup {NoDraft}]
        BY <1>1 DEF Begin, Shape
    <2>2. step' \in [Slots -> {"idle", "register", "check", "limit", "publish"}]
        BY DEF Begin, Shape, GoTo
    <2>3. msg' \in [Slots -> 0 .. tries']
        BY <1>1 DEF Begin, Shape
    <2>4. sent' \subseteq Mails'
        <3>1. Mails \subseteq Mails'
            BY <1>1 DEF Begin, Mails, Shape
        <3>2. QED
            BY <3>1 DEF Begin, Shape
    <2>5. tries' \in 0 .. MaxAttempts
        BY <1>1 DEF Begin, Attempts
    <2>6. /\ \A e \in bodies' : e.at \in 0 .. clock' /\ e.msg \in 1 .. tries'
          /\ \A p \in permits' : p.at \in 0 .. clock' /\ p.msg \in 1 .. tries'
        BY <1>1 DEF Begin, Shape, gateVars
    <2>7. QED
        BY <2>1, <2>2, <2>3, <2>4, <2>5, <2>6 DEF Begin, Shape, gateVars, eventVars
<1>3. /\ step'[s] \in {"register", "check"} /\ msg'[s] = n /\ draft'[n] = d /\ step[s] = "idle"
      /\ \A t \in Slots \ {s} : step'[t] = step[t] /\ msg'[t] = msg[t]
      /\ \A m \in Attempts \ {n} : draft'[m] = draft[m]
    BY <1>1 DEF Begin, Shape, GoTo
<1>4. /\ \A t \in Slots : step[t] # "idle" => msg[t] \in 1 .. tries
      /\ \A m \in sent : m.msg \in 1 .. tries
      /\ \A p \in permits : p.msg \in 1 .. tries
    BY <1>1 DEF Shape, Mails, IdsAreFresh
<1>5. IdsAreFresh'
    <2>1. /\ \A m \in 1 .. tries' : draft'[m] \in Drafts
          /\ \A m \in Attempts : m > tries' => draft'[m] = NoDraft
        BY <1>1, <1>3 DEF IdsAreFresh, Begin, Attempts, Shape
    <2>2. \A t \in Slots : step'[t] # "idle" => msg'[t] # 0
        BY <1>1, <1>3, <1>4 DEF IdsAreFresh
    <2>3. \A t, u \in Slots : step'[t] # "idle" /\ step'[u] # "idle" /\ msg'[t] = msg'[u] => t = u
        BY <1>1, <1>3, <1>4 DEF IdsAreFresh
    <2>4. \A t \in Slots : step'[t] # "idle" => \A m \in sent' : m.msg # msg'[t]
        BY <1>1, <1>3, <1>4 DEF IdsAreFresh, Begin
    <2>5. QED
        BY <2>1, <2>2, <2>3, <2>4 DEF IdsAreFresh, Begin
<1>6. LinksResolve'
    <2>1. ~tracked[s]
        BY <1>3 DEF LinksResolve
    <2>2. \A t \in Slots : tracked[t] => Missing(t)' = Missing(t)
        BY <1>1, <1>3, <1>4, <2>1 DEF Missing, Of, LinksResolve, Begin, Attempts
    <2>3. \A m \in sent : draft'[m.msg] = draft[m.msg]
        BY <1>1, <1>3, <1>4 DEF Attempts
    <2>4. QED
        BY <1>3, <2>1, <2>2, <2>3 DEF LinksResolve, Begin
<1>7. PermitsHeld'
    <2>1. \A t \in Slots : step'[t] = "publish" => /\ t # s /\ Of(t)' = Of(t)
        BY <1>1, <1>3, <1>4 DEF Of, Attempts
    <2>2. permits' = permits
        BY DEF Begin, gateVars
    <2>3. \A p \in permits : p.msg # n
        BY <1>1, <1>4
    <2>4. QED
        BY <1>3, <2>1, <2>2, <2>3 DEF PermitsHeld
<1>8. QED
    BY <1>2, <1>5, <1>6, <1>7

(* The steps that leave message ids, drafts and log alone.                   *)
LEMMA TrackingKeeps ==
    ASSUME OutreachInv, NEW s \in Slots, RegisterLink(s) \/ RegisterFails(s) \/ Rewrite(s)
    PROVE  OutreachInv'
<1> USE DEF OutreachInv
<1>1. /\ UNCHANGED <<clock, run, tries, draft, eventVars, gateVars, msg, checked, blotted, sent>>
      /\ step[s] = "register"
      /\ step' \in [Slots -> {"idle", "register", "check", "limit", "publish"}]
      /\ step'[s] \in {"register", "check"}
      /\ \A t \in Slots \ {s} : step'[t] = step[t] /\ tracked'[t] = tracked[t]
      /\ links \subseteq links'
    BY DEF RegisterLink, RegisterFails, Rewrite, GoTo, Shape, requestVars
<1>2. links' \subseteq Attempts \X AllLinks
    <2>1. CASE RegisterLink(s)
        <3>1. Of(s) \in Drafts /\ msg[s] \in Attempts
            BY <1>1, BoundsAssumption DEF IdsAreFresh, Shape, Of, Attempts
        <3>2. QED
            BY <2>1, <3>1 DEF RegisterLink, Missing, AllLinks, Shape
    <2>2. CASE RegisterFails(s) \/ Rewrite(s)
        BY <2>2 DEF RegisterFails, Rewrite, Shape
    <2>3. QED
        BY <2>1, <2>2
<1>3. tracked' \in [Slots -> BOOLEAN]
    BY DEF RegisterLink, RegisterFails, Rewrite, Shape, requestVars
<1>4. Shape'
    BY <1>1, <1>2, <1>3 DEF Shape, Mails, eventVars, gateVars
<1>5. IdsAreFresh'
    BY <1>1 DEF IdsAreFresh
<1>6. LinksResolve'
    <2>1. tracked'[s] => step'[s] = "check" /\ Missing(s)' = {}
        BY <1>1 DEF RegisterLink, RegisterFails, Rewrite, LinksResolve, Missing, Of, Shape,
                    GoTo, requestVars
    <2>2. \A t \in Slots : Missing(t)' \subseteq Missing(t)
        BY <1>1 DEF Missing, Of
    <2>3. QED
        BY <1>1, <2>1, <2>2 DEF LinksResolve
<1>7. PermitsHeld'
    BY <1>1 DEF PermitsHeld, Of, gateVars
<1>8. QED
    BY <1>4, <1>5, <1>6, <1>7

LEMMA CheckKeeps ==
    ASSUME OutreachInv, NEW s \in Slots, CheckBody(s)
    PROVE  OutreachInv'
<1> USE DEF OutreachInv
<1> DEFINE entry == [body |-> Body(s), at |-> clock, msg |-> msg[s]]
<1>1. /\ UNCHANGED <<clock, run, tries, draft, links, eventVars, permits, sent>>
      /\ step[s] = "check" /\ bodies' = bodies \cup {entry}
    BY DEF CheckBody
<1>2. /\ step' \in [Slots -> {"idle", "register", "check", "limit", "publish"}]
      /\ msg' \in [Slots -> 0 .. tries]
      /\ tracked' \in [Slots -> BOOLEAN]
      /\ checked' \in [Slots -> 0 .. MaxTime]
      /\ blotted' \in [Slots -> SUBSET (AllLinks \cup {Pixel})]
      /\ step'[s] \in {"idle", "limit"} /\ (step'[s] = "idle" => ~tracked'[s])
      /\ step'[s] = "limit" => msg'[s] = msg[s] /\ tracked'[s] = tracked[s]
      /\ \A t \in Slots \ {s} : step'[t] = step[t] /\ msg'[t] = msg[t] /\ tracked'[t] = tracked[t]
    <2>1. CASE Done(s)
        BY <2>1, DoneShape
    <2>2. ASSUME NEW hit \in SUBSET Urls(s), Pass(s, hit)
          PROVE  /\ step' = [step EXCEPT ![s] = "limit"] /\ msg' = msg /\ tracked' = tracked
                 /\ checked' \in [Slots -> 0 .. MaxTime]
                 /\ blotted' \in [Slots -> SUBSET (AllLinks \cup {Pixel})]
        <3>1. hit \subseteq AllLinks \cup {Pixel}
            <4>1. Of(s) \in Drafts
                BY <1>1, BoundsAssumption DEF Shape, IdsAreFresh, Of
            <4>2. QED
                BY <4>1 DEF Urls, AllLinks
        <3>2. QED
            BY <2>2, <3>1 DEF Pass, GoTo, Shape
    <2>3. QED
        BY <2>1, <2>2 DEF CheckBody, Shape
<1>3. Shape'
    <2>1. entry.at \in 0 .. clock /\ entry.msg \in 1 .. tries
        BY <1>1, BoundsAssumption DEF Shape, IdsAreFresh
    <2>2. IsFiniteSet(bodies')
        BY <1>1, FS_AddElement DEF Shape
    <2>3. QED
        BY <1>1, <1>2, <2>1, <2>2 DEF Shape, Mails, eventVars
<1>4. IdsAreFresh'
    BY <1>1, <1>2 DEF IdsAreFresh
<1>5. LinksResolve'
    <2>1. \A t \in Slots : tracked'[t] => tracked[t] /\ Missing(t)' = Missing(t)
        BY <1>1, <1>2 DEF Missing, Of
    <2>2. QED
        BY <1>1, <1>2, <2>1 DEF LinksResolve
<1>6. PermitsHeld'
    BY <1>1, <1>2 DEF PermitsHeld, Of
<1>7. QED
    BY <1>3, <1>4, <1>5, <1>6

LEMMA PermitKeeps ==
    ASSUME OutreachInv, NEW s \in Slots, TakePermit(s)
    PROVE  OutreachInv'
<1> USE DEF OutreachInv
<1> DEFINE permit == [to |-> Recipient[Of(s)], at |-> clock, msg |-> msg[s]]
<1>1. /\ UNCHANGED <<clock, run, tries, draft, links, eventVars, bodies, msg, tracked, checked,
                     blotted, sent>>
      /\ step[s] = "limit" /\ permits' = permits \cup {permit}
      /\ step' \in [Slots -> {"idle", "register", "check", "limit", "publish"}]
      /\ step'[s] = "publish" /\ \A t \in Slots \ {s} : step'[t] = step[t]
    BY DEF TakePermit, GoTo, Shape
<1>2. Shape'
    <2>1. permit.at \in 0 .. clock /\ permit.msg \in 1 .. tries
        BY <1>1, BoundsAssumption DEF Shape, IdsAreFresh
    <2>2. IsFiniteSet(permits')
        BY <1>1, FS_AddElement DEF Shape
    <2>3. QED
        BY <1>1, <2>1, <2>2 DEF Shape, Mails, eventVars
<1>3. IdsAreFresh'
    BY <1>1 DEF IdsAreFresh
<1>4. LinksResolve'
    BY <1>1 DEF LinksResolve, Missing, Of
<1>5. PermitsHeld'
    <2>1. \A p \in permits : p.msg # msg[s]
        BY <1>1 DEF PermitsHeld
    <2>2. \A p, q \in permits' : p.msg = q.msg => p = q
        BY <1>1, <2>1 DEF PermitsHeld
    <2>3. \A t \in Slots : step'[t] \notin {"idle", "publish"} =>
              \A p \in permits' : p.msg # msg'[t]
        BY <1>1 DEF PermitsHeld, IdsAreFresh
    <2>4. ASSUME NEW t \in Slots, step'[t] = "publish"
          PROVE  [to |-> Recipient[Of(t)'], at |-> (CHOOSE p \in permits' : p.msg = msg'[t]).at,
                  msg |-> msg'[t]] \in permits'
        <3> DEFINE chosen == CHOOSE p \in permits' : p.msg = msg[t]
        <3>1. Of(t)' = Of(t) /\ msg' = msg
            BY <1>1 DEF Of
        <3> SUFFICES [to |-> Recipient[Of(t)], at |-> chosen.at, msg |-> msg[t]] \in permits'
            BY <3>1
        <3> HIDE DEF chosen
        <3>2. CASE t = s
            <4>1. chosen = permit
                BY <1>1, <2>2, <3>2 DEF chosen
            <4>2. QED
                BY <1>1, <3>2, <4>1
        <3>3. CASE t # s
            <4> DEFINE held == [to |-> Recipient[Of(t)],
                                at |-> (CHOOSE p \in permits : p.msg = msg[t]).at,
                                msg |-> msg[t]]
            <4>1. held \in permits
                BY <1>1, <2>4, <3>3 DEF PermitsHeld
            <4>2. /\ (CHOOSE p \in permits : p.msg = msg[t]) = held
                  /\ chosen = held
                <5>1. held.msg = msg[t] /\ held \in permits'
                    BY <4>1, <1>1
                <5> HIDE DEF held
                <5>2. QED
                    BY <4>1, <5>1, <2>2, <1>1 DEF PermitsHeld, chosen
            <4>3. QED
                BY <1>1, <4>1, <4>2
        <3>4. QED
            BY <3>2, <3>3
    <2>5. QED
        BY <2>2, <2>3, <2>4 DEF PermitsHeld
<1>6. QED
    BY <1>2, <1>3, <1>4, <1>5

LEMMA EndKeeps ==
    ASSUME OutreachInv, NEW s \in Slots, Throttled(s) \/ Publish(s) \/ PublishFails(s)
    PROVE  OutreachInv'
<1> USE DEF OutreachInv
<1>1. /\ UNCHANGED <<clock, run, tries, draft, links, eventVars, gateVars>>
      /\ step[s] # "idle" /\ Done(s)
    BY DEF Throttled, Publish, PublishFails
<1> DEFINE mail == [msg |-> msg[s], tracked |-> tracked[s], urls |-> Urls(s) \ blotted[s],
                    checked |-> checked[s],
                    permitted |-> (CHOOSE p \in permits : p.msg = msg[s]).at, run |-> run]
<1>2. sent' = sent \/ (step[s] = "publish" /\ sent' = sent \cup {mail})
    BY DEF Throttled, Publish, PublishFails
<1>3. step[s] = "publish" => mail \in Mails
    <2> SUFFICES ASSUME step[s] = "publish" PROVE mail \in Mails
        OBVIOUS
    <2>1. mail.permitted \in 0 .. clock
        <3>1. [to |-> Recipient[Of(s)], at |-> mail.permitted, msg |-> msg[s]] \in permits
            BY DEF PermitsHeld
        <3>2. QED
            BY <3>1 DEF Shape
    <2>2. Urls(s) \subseteq AllLinks \cup {Pixel}
        BY BoundsAssumption DEF Shape, IdsAreFresh, Of, Urls, AllLinks
    <2>3. QED
        BY <2>1, <2>2, BoundsAssumption DEF Shape, IdsAreFresh, Mails
<1> HIDE DEF mail
<1>4. Shape'
    BY <1>1, <1>2, <1>3, DoneShape DEF Shape, Mails, eventVars, gateVars
<1>5. mail.msg = msg[s] /\ mail.urls = Urls(s) \ blotted[s]
    BY DEF mail
<1>6. IdsAreFresh'
    BY <1>1, <1>2, <1>5, DoneShape DEF IdsAreFresh
<1>7. LinksResolve'
    <2>1. \A t \in Slots : tracked'[t] => tracked[t] /\ step'[t] = step[t] /\ Missing(t)' = Missing(t)
        BY <1>1, DoneShape DEF Missing, Of
    <2>2. /\ mail.urls \subseteq Links[draft[mail.msg]] \cup {Pixel}
          /\ \A l \in AllLinks : l \in mail.urls => <<mail.msg, l>> \in links
        <3>1. \A l \in AllLinks : l \in Urls(s) => l \in Links[Of(s)] /\ tracked[s]
            BY <1>1, PixelIsNoLink DEF Urls
        <3>2. QED
            BY <1>5, <3>1 DEF LinksResolve, Missing, Of, Urls
    <2>3. QED
        BY <1>1, <1>2, <2>1, <2>2 DEF LinksResolve
<1>8. PermitsHeld'
    BY <1>1, DoneShape DEF PermitsHeld, Of, gateVars
<1>9. QED
    BY <1>4, <1>6, <1>7, <1>8

LEMMA EnvironmentKeeps ==
    ASSUME OutreachInv,
           \/ \E m \in sent : Open(m) \/ \E l \in Links[draft[m.msg]] : Click(m, l)
           \/ Tick \/ Restart \/ UNCHANGED vars
    PROVE  OutreachInv'
<1> USE DEF OutreachInv
<1>1. ASSUME NEW m \in sent, Open(m) \/ \E l \in Links[draft[m.msg]] : Click(m, l)
      PROVE  OutreachInv'
    <2>1. m.msg \in Attempts
        BY BoundsAssumption DEF Shape, Mails, Attempts
    <2>2. Shape'
        BY <1>1, <2>1 DEF Open, Click, Shape, Mails, gateVars, requestVars
    <2>3. UNCHANGED <<clock, run, tries, draft, links, gateVars, requestVars, sent>>
        BY <1>1 DEF Open, Click
    <2>4. IdsAreFresh' /\ LinksResolve' /\ PermitsHeld'
        BY <2>3 DEF IdsAreFresh, LinksResolve, PermitsHeld, Missing, Of, gateVars, requestVars
    <2>5. QED
        BY <2>2, <2>4
<1>2. CASE Tick
    <2>1. Shape'
        BY <1>2, BoundsAssumption DEF Tick, Shape, Mails, gateVars, requestVars, eventVars
    <2>2. IdsAreFresh' /\ LinksResolve' /\ PermitsHeld'
        BY <1>2 DEF Tick, IdsAreFresh, LinksResolve, PermitsHeld, Missing, Of,
                    gateVars, requestVars
    <2>3. QED
        BY <2>1, <2>2
<1>3. CASE Restart
    <2>1. Shape'
        BY <1>3, BoundsAssumption, FS_EmptySet DEF Restart, Shape, Mails, eventVars
    <2>2. IdsAreFresh' /\ LinksResolve' /\ PermitsHeld'
        BY <1>3 DEF Restart, IdsAreFresh, LinksResolve, PermitsHeld
    <2>3. QED
        BY <2>1, <2>2
<1>4. CASE UNCHANGED vars
    BY <1>4 DEF vars, Shape, Mails, IdsAreFresh, LinksResolve, PermitsHeld, Missing, Of,
                gateVars, requestVars, eventVars
<1>5. QED
    BY <1>1, <1>2, <1>3, <1>4

LEMMA OutreachStep == OutreachInv /\ [Next]_vars => OutreachInv'
BY BeginKeeps, TrackingKeeps, CheckKeeps, PermitKeeps, EndKeeps, EnvironmentKeeps
   DEF Next, RequestStep

LEMMA OutreachInvHolds == Spec => []OutreachInv
BY OutreachInit, OutreachStep, PTL DEF Spec

(* Every variable keeps its type; a message id is one mail.                  *)
THEOREM OutreachTypeCorrect == Spec => []TypeOK
<1>1. OutreachInv => TypeOK
    BY BoundsAssumption DEF OutreachInv, Shape, IdsAreFresh, TypeOK
<1>2. QED
    BY <1>1, OutreachInvHolds, PTL

------------------------------------------------------------------------------
(* The refinement mapping, as TrackedMail sees it.                           *)
Away == {mark \in Attempts \X AllLinks : \E m \in sent : m.msg = mark[1] /\ mark[2] \in m.urls}

LEMMA MarksGrow ==
    ASSUME OutreachInv, NEW s \in Slots, RegisterLink(s)
    PROVE  Away' = Away /\ \E mark \in Attempts \X AllLinks : links' = links \cup {mark}
<1> USE DEF OutreachInv
<1>1. msg[s] \in Attempts /\ Of(s) \in Drafts
    BY BoundsAssumption DEF RegisterLink, Shape, IdsAreFresh, Of, Attempts
<1>2. PICK l \in Missing(s) : links' = links \cup {<<msg[s], l>>}
    BY DEF RegisterLink
<1>3. l \in AllLinks
    BY <1>1 DEF Missing, AllLinks
<1>4. QED
    BY <1>1, <1>2, <1>3 DEF RegisterLink, Away

LEMMA AwayGrows ==
    ASSUME OutreachInv, NEW s \in Slots, Publish(s)
    PROVE  links' = links /\ \E mail \in SUBSET links : Away' = Away \cup mail
<1> USE DEF OutreachInv
<1> DEFINE marks == {<<msg[s], l>> : l \in (Urls(s) \ blotted[s]) \cap AllLinks}
<1> DEFINE mail == [msg |-> msg[s], tracked |-> tracked[s], urls |-> Urls(s) \ blotted[s],
                    checked |-> checked[s],
                    permitted |-> (CHOOSE p \in permits : p.msg = msg[s]).at, run |-> run]
<1>1. links' = links /\ sent' = sent \cup {mail}
    BY DEF Publish
<1>2. mail.msg = msg[s] /\ mail.urls = Urls(s) \ blotted[s]
    OBVIOUS
<1> HIDE DEF mail
<1>3. msg[s] \in Attempts
    BY BoundsAssumption DEF Publish, Shape, IdsAreFresh, Attempts
<1>4. marks \subseteq links
    <2>1. \A l \in AllLinks : l \in Urls(s) => l \in Links[Of(s)] /\ tracked[s]
        BY PixelIsNoLink DEF Urls
    <2>2. QED
        BY <2>1 DEF LinksResolve, Missing
<1>5. Away' = Away \cup marks
    BY <1>1, <1>2, <1>3 DEF Away
<1>6. QED
    BY <1>1, <1>4, <1>5

LEMMA MappingStays ==
    ASSUME [Next]_vars, ~\E s \in Slots : RegisterLink(s) \/ Publish(s)
    PROVE  links' = links /\ Away' = Away
<1>1. UNCHANGED <<links, sent>>
    BY DEF Next, RequestStep, Begin, RegisterFails, Rewrite, CheckBody, TakePermit, Throttled,
           PublishFails, Open, Click, Tick, Restart, vars
<1>2. QED
    BY <1>1 DEF Away

(* Rows that cannot be written, requests cut short, refusals, redactions and *)
(* restarts change nothing to it: a rewritten link leaves whole only when it *)
(* can be followed, for ever after.                                          *)
THEOREM TrackingImplemented == Spec => ImplementsTracking
<1>1. Init => Tracking!TrackedInit
    BY DEF Init, Tracking!TrackedInit
<1>2. OutreachInv /\ [Next]_vars => [Tracking!TrackedNext]_(Tracking!trackedVars)
    <2> SUFFICES ASSUME OutreachInv, [Next]_vars
                 PROVE  \/ /\ links' = links
                           /\ \E mail \in SUBSET links : Away' = Away \cup mail
                        \/ /\ Away' = Away
                           /\ \E mark \in Attempts \X AllLinks : links' = links \cup {mark}
                        \/ links' = links /\ Away' = Away
        BY DEF Tracking!TrackedNext, Tracking!Prepare, Tracking!Leave, Tracking!trackedVars, Away
    <2>1. CASE \E s \in Slots : RegisterLink(s)
        BY <2>1, MarksGrow
    <2>2. CASE \E s \in Slots : Publish(s)
        BY <2>2, AwayGrows
    <2>3. QED
        BY <2>1, <2>2, MappingStays
<1>3. QED
    BY <1>1, <1>2, OutreachInvHolds, PTL DEF Spec, ImplementsTracking, Tracking!TrackedSpec

------------------------------------------------------------------------------
(* The log of bodies also holds the mails that were refused, so what bounds  *)
(* the mails that left is the part of it that belongs to those that passed.  *)
Passing(n) == \/ \E m \in sent : m.msg = n /\ m.run = run
              \/ \E s \in Slots : step[s] \in Passed /\ msg[s] = n

PassedBodies(w, d) ==
    {e \in bodies : Passing(e.msg) /\ e.body = <<Text[d], 0>> /\ e.at \in w}
PermitsTo(w, d) == {p \in permits : p.to = Recipient[d] /\ p.at \in w}

(* Every mail that passed a counter in this run is in its log.               *)
Logged ==
    /\ \A s \in Slots :
          /\ step[s] \in {"register", "check"} => \A e \in bodies : e.msg # msg[s]
          /\ step[s] \in Passed =>
                [body |-> Body(s), at |-> checked[s], msg |-> msg[s]] \in bodies
    /\ \A m \in sent : m.run = run =>
          /\ ~m.tracked =>
                [body |-> <<Text[draft[m.msg]], 0>>, at |-> m.checked, msg |-> m.msg] \in bodies
          /\ [to |-> Recipient[draft[m.msg]], at |-> m.permitted, msg |-> m.msg] \in permits

LogsBounded ==
    /\ \A w \in Windows(LoopWindow), d \in Drafts : Cardinality(PassedBodies(w, d)) < LoopMax
    /\ \A w \in Windows(RateWindow), d \in Drafts : Cardinality(PermitsTo(w, d)) <= RateMax

(* The mails GateHolds counts.                                               *)
LeftSame(r, w, d) ==
    {m \in {n \in sent : n.run = r} : /\ ~m.tracked /\ m.checked \in w
                                      /\ Text[draft[m.msg]] = Text[d]}
LeftTo(r, w, d) ==
    {m \in {n \in sent : n.run = r} : /\ m.permitted \in w
                                      /\ Recipient[draft[m.msg]] = Recipient[d]}

RunHolds(r) ==
    /\ \A w \in Windows(LoopWindow), d \in Drafts : Cardinality(LeftSame(r, w, d)) < LoopMax
    /\ \A w \in Windows(RateWindow), d \in Drafts : Cardinality(LeftTo(r, w, d)) <= RateMax

(* The runs that are over had their bounds when they ended.                  *)
GateInv == Logged /\ LogsBounded /\ \A r \in 1 .. MaxRuns : r < run => RunHolds(r)

(* A log that bounds the mails logged bounds the mails that left.            *)
LEMMA ThisRunHolds ==
    ASSUME OutreachInv, Logged, LogsBounded
    PROVE  RunHolds(run)
<1> USE DEF OutreachInv
<1>1. ASSUME NEW w \in Windows(LoopWindow), NEW d \in Drafts
      PROVE  Cardinality(LeftSame(run, w, d)) < LoopMax
    <2> DEFINE f == [m \in LeftSame(run, w, d) |->
                        [body |-> <<Text[d], 0>>, at |-> m.checked, msg |-> m.msg]]
    <2>1. IsFiniteSet(PassedBodies(w, d))
        BY FS_Subset DEF PassedBodies, Shape
    <2>2. \A m \in LeftSame(run, w, d) : f[m] \in PassedBodies(w, d)
        BY DEF LeftSame, PassedBodies, Passing, Logged
    <2>3. \A m, n \in LeftSame(run, w, d) : f[m] = f[n] => m = n
        <3> SUFFICES ASSUME NEW m \in LeftSame(run, w, d), NEW n \in LeftSame(run, w, d),
                            f[m] = f[n]
                     PROVE  m = n
            OBVIOUS
        <3>1. f[m].msg = m.msg /\ f[n].msg = n.msg
            OBVIOUS
        <3>2. QED
            BY <3>1 DEF LeftSame, IdsAreFresh
    <2>4. f \in Injection(LeftSame(run, w, d), PassedBodies(w, d))
        <3> HIDE DEF f
        <3>1. f \in [LeftSame(run, w, d) -> PassedBodies(w, d)]
            BY <2>2 DEF f
        <3>2. QED
            BY <2>3, <3>1 DEF Injection, IsInjective
    <2>5. /\ Cardinality(LeftSame(run, w, d)) <= Cardinality(PassedBodies(w, d))
          /\ IsFiniteSet(LeftSame(run, w, d))
        <3> HIDE DEF f
        <3>1. QED
            BY <2>1, <2>4, FS_Injection
    <2>6. QED
        BY <2>1, <2>5, FS_CardinalityType, GateAssumption DEF LogsBounded
<1>2. ASSUME NEW w \in Windows(RateWindow), NEW d \in Drafts
      PROVE  Cardinality(LeftTo(run, w, d)) <= RateMax
    <2> DEFINE f == [m \in LeftTo(run, w, d) |->
                        [to |-> Recipient[d], at |-> m.permitted, msg |-> m.msg]]
    <2>1. IsFiniteSet(PermitsTo(w, d))
        BY FS_Subset DEF PermitsTo, Shape
    <2>2. \A m \in LeftTo(run, w, d) : f[m] \in PermitsTo(w, d)
        BY DEF LeftTo, PermitsTo, Logged
    <2>3. \A m, n \in LeftTo(run, w, d) : f[m] = f[n] => m = n
        <3> SUFFICES ASSUME NEW m \in LeftTo(run, w, d), NEW n \in LeftTo(run, w, d),
                            f[m] = f[n]
                     PROVE  m = n
            OBVIOUS
        <3>1. f[m].msg = m.msg /\ f[n].msg = n.msg
            OBVIOUS
        <3>2. QED
            BY <3>1 DEF LeftTo, IdsAreFresh
    <2>4. f \in Injection(LeftTo(run, w, d), PermitsTo(w, d))
        <3> HIDE DEF f
        <3>1. f \in [LeftTo(run, w, d) -> PermitsTo(w, d)]
            BY <2>2 DEF f
        <3>2. QED
            BY <2>3, <3>1 DEF Injection, IsInjective
    <2>5. /\ Cardinality(LeftTo(run, w, d)) <= Cardinality(PermitsTo(w, d))
          /\ IsFiniteSet(LeftTo(run, w, d))
        <3> HIDE DEF f
        <3>1. QED
            BY <2>1, <2>4, FS_Injection
    <2>6. QED
        BY <2>1, <2>5, FS_CardinalityType, GateAssumption DEF LogsBounded
<1>3. QED
    BY <1>1, <1>2 DEF RunHolds

LEMMA GateHoldsNow == OutreachInv /\ GateInv => GateHolds
<1> SUFFICES ASSUME OutreachInv, GateInv PROVE GateHolds
    OBVIOUS
<1>1. ASSUME NEW r \in 1 .. MaxRuns PROVE RunHolds(r)
    <2>1. CASE r < run
        BY <2>1 DEF GateInv
    <2>2. CASE r = run
        BY <2>2, ThisRunHolds DEF GateInv
    <2>3. CASE r > run
        <3>1. {n \in sent : n.run = r} = {}
            BY <2>3, BoundsAssumption DEF OutreachInv, Shape, Mails
        <3>2. \A w, d : LeftSame(r, w, d) = {} /\ LeftTo(r, w, d) = {}
            BY <3>1 DEF LeftSame, LeftTo
        <3>3. QED
            BY <3>2, FS_EmptySet, GateAssumption DEF RunHolds
    <2>4. QED
        BY <2>1, <2>2, <2>3, BoundsAssumption DEF OutreachInv, Shape
<1>2. QED
    BY <1>1 DEF GateHolds, RunHolds, LeftSame, LeftTo

(* What is counted of a run that is over is settled.                         *)
LEMMA PastHolds ==
    ASSUME OutreachInv, GateInv, [Next]_vars
    PROVE  \A r \in 1 .. MaxRuns : r < run' => RunHolds(r)'
<1> USE DEF OutreachInv
<1>1. ASSUME NEW r \in 1 .. MaxRuns, {n \in sent' : n.run = r} = {n \in sent : n.run = r}, RunHolds(r)
      PROVE  RunHolds(r)'
    <2>1. \A m \in sent : draft'[m.msg] = draft[m.msg]
        <3>1. CASE \E s \in Slots, d \in Drafts : Begin(s, d)
            BY <3>1, BoundsAssumption DEF Begin, Shape, Mails, Attempts
        <3>2. CASE ~\E s \in Slots, d \in Drafts : Begin(s, d)
            BY <3>2 DEF Next, RequestStep, RegisterLink, RegisterFails, Rewrite, CheckBody,
                        TakePermit, Throttled, Publish, PublishFails, Open, Click, Tick,
                        Restart, vars
        <3>3. QED
            BY <3>1, <3>2
    <2>2. \A w, d : LeftSame(r, w, d)' = LeftSame(r, w, d) /\ LeftTo(r, w, d)' = LeftTo(r, w, d)
        BY <1>1, <2>1 DEF LeftSame, LeftTo
    <2>3. QED
        BY <1>1, <2>2 DEF RunHolds, Windows
<1>2. ASSUME NEW s \in Slots, Publish(s)
      PROVE  run' = run /\ \A r \in 1 .. MaxRuns : r < run =>
                {n \in sent' : n.run = r} = {n \in sent : n.run = r}
    BY <1>2, BoundsAssumption DEF Publish, Shape
<1>3. CASE Restart
    BY <1>1, <1>3, ThisRunHolds, BoundsAssumption DEF Restart, GateInv, Shape
<1>4. CASE ~Restart /\ ~\E s \in Slots : Publish(s)
    <2>1. run' = run /\ sent' = sent
        BY <1>4 DEF Next, RequestStep, Begin, RegisterLink, RegisterFails, Rewrite, CheckBody,
                    TakePermit, Throttled, PublishFails, Open, Click, Tick, vars
    <2>2. QED
        BY <1>1, <2>1 DEF GateInv
<1>5. QED
    BY <1>1, <1>2, <1>3, <1>4 DEF GateInv

(* A part of a bounded log is bounded.                                       *)
LEMMA PartsBounded ==
    ASSUME OutreachInv, LogsBounded,
           \A w \in Windows(LoopWindow), d \in Drafts :
              PassedBodies(w, d)' \subseteq PassedBodies(w, d),
           \A w \in Windows(RateWindow), d \in Drafts :
              PermitsTo(w, d)' \subseteq PermitsTo(w, d)
    PROVE  LogsBounded'
<1>1. \A w, d : IsFiniteSet(PassedBodies(w, d)) /\ IsFiniteSet(PermitsTo(w, d))
    BY FS_Subset DEF PassedBodies, PermitsTo, OutreachInv, Shape
<1>2. ASSUME NEW w \in Windows(LoopWindow), NEW d \in Drafts
      PROVE  Cardinality(PassedBodies(w, d)') < LoopMax
    <2>1. /\ Cardinality(PassedBodies(w, d)') <= Cardinality(PassedBodies(w, d))
          /\ IsFiniteSet(PassedBodies(w, d)')
        BY <1>1, FS_Subset
    <2>2. QED
        BY <1>1, <2>1, FS_CardinalityType, GateAssumption DEF LogsBounded
<1>3. ASSUME NEW w \in Windows(RateWindow), NEW d \in Drafts
      PROVE  Cardinality(PermitsTo(w, d)') <= RateMax
    <2>1. /\ Cardinality(PermitsTo(w, d)') <= Cardinality(PermitsTo(w, d))
          /\ IsFiniteSet(PermitsTo(w, d)')
        BY <1>1, FS_Subset
    <2>2. QED
        BY <1>1, <2>1, FS_CardinalityType, GateAssumption DEF LogsBounded
<1>4. QED
    BY <1>2, <1>3 DEF LogsBounded, Windows

(* Anti-loop: whoever is in a window with a body that passes now was still   *)
(* counted when it was.                                                      *)
LEMMA CheckBounds ==
    ASSUME OutreachInv, Logged, LogsBounded, NEW s \in Slots, CheckBody(s)
    PROVE  Logged' /\ LogsBounded'
<1> USE DEF OutreachInv
<1> DEFINE entry == [body |-> Body(s), at |-> clock, msg |-> msg[s]]
<1>1. /\ UNCHANGED <<clock, run, draft, permits, sent>>
      /\ step[s] = "check" /\ bodies' = bodies \cup {entry}
      /\ step'[s] \in {"idle", "limit"}
      /\ \A t \in Slots \ {s} : /\ step'[t] = step[t] /\ msg'[t] = msg[t]
                                /\ tracked'[t] = tracked[t] /\ checked'[t] = checked[t]
      /\ step'[s] = "limit" => /\ msg' = msg /\ tracked' = tracked /\ checked'[s] = clock
                               /\ Repeats(s) < LoopMax
    <2>1. CASE Done(s)
        BY <2>1, DoneShape DEF CheckBody
    <2>2. CASE ~Done(s)
        BY <2>2 DEF CheckBody, Pass, GoTo, Shape
    <2>3. QED
        BY <2>1, <2>2
<1>2. Logged'
    <2>1. \A t \in Slots : step'[t] \in {"register", "check"} => \A e \in bodies' : e.msg # msg'[t]
        <3> SUFFICES ASSUME NEW t \in Slots, step'[t] \in {"register", "check"},
                            NEW e \in bodies'
                     PROVE  e.msg # msg'[t]
            OBVIOUS
        <3>1. t # s /\ step[t] = step'[t] /\ msg'[t] = msg[t] /\ msg[t] # msg[s]
            BY <1>1 DEF IdsAreFresh
        <3>2. e \in bodies \/ e.msg = msg[s]
            BY <1>1
        <3>3. QED
            BY <3>1, <3>2 DEF Logged
    <2>2. ASSUME NEW t \in Slots, step'[t] \in Passed
          PROVE  [body |-> Body(t)', at |-> checked'[t], msg |-> msg'[t]] \in bodies'
        <3>1. Body(t)' = Body(t) /\ msg'[t] = msg[t]
            BY <1>1, <2>2 DEF Body, Of, Passed
        <3>2. CASE t = s
            BY <1>1, <2>2, <3>1, <3>2 DEF Passed
        <3>3. CASE t # s
            BY <1>1, <2>2, <3>1, <3>3 DEF Logged
        <3>4. QED
            BY <3>2, <3>3
    <2>3. QED
        BY <1>1, <2>1, <2>2 DEF Logged
<1>3. \A n : n # msg[s] /\ Passing(n)' => Passing(n)
    BY <1>1 DEF Passing, Passed
<1>4. \A e \in bodies : e.msg # msg[s]
    BY <1>1 DEF Logged
<1>5. \A w, d : IsFiniteSet(PassedBodies(w, d))
    BY FS_Subset DEF PassedBodies, Shape
<1>6. \A w, d : PermitsTo(w, d)' = PermitsTo(w, d)
    BY <1>1 DEF PermitsTo
<1>7. CASE step'[s] = "idle"
    <2>1. \A n : n = msg[s] => ~Passing(n)'
        <3>1. \A m \in sent' : m.msg # msg[s]
            BY <1>1 DEF IdsAreFresh
        <3>2. \A t \in Slots : step'[t] \in Passed => msg'[t] # msg[s]
            BY <1>1, <1>7 DEF IdsAreFresh, Passed
        <3>3. QED
            BY <3>1, <3>2 DEF Passing
    <2>2. \A w, d : PassedBodies(w, d)' \subseteq PassedBodies(w, d)
        <3>1. \A e \in bodies' : Passing(e.msg)' => e \in bodies /\ Passing(e.msg)
            BY <1>1, <1>3, <1>4, <2>1
        <3>2. QED
            BY <3>1 DEF PassedBodies
    <2>3. QED
        BY <1>2, <1>6, <2>2, PartsBounded
<1>8. CASE step'[s] = "limit"
    <2>1. ASSUME NEW w \in Windows(LoopWindow), NEW d \in Drafts
          PROVE  Cardinality(PassedBodies(w, d)') < LoopMax
        <3>1. PassedBodies(w, d)' \subseteq PassedBodies(w, d) \cup {entry}
            BY <1>1, <1>3, <1>4 DEF PassedBodies
        <3>2. CASE entry \notin PassedBodies(w, d)'
            <4>1. PassedBodies(w, d)' \subseteq PassedBodies(w, d)
                BY <3>1, <3>2
            <4>2. /\ Cardinality(PassedBodies(w, d)') <= Cardinality(PassedBodies(w, d))
                  /\ IsFiniteSet(PassedBodies(w, d)')
                BY <4>1, <1>5, FS_Subset
            <4>3. QED
                BY <4>2, <1>5, FS_CardinalityType, GateAssumption DEF LogsBounded
        <3>3. CASE entry \in PassedBodies(w, d)'
            <4> DEFINE counted == {e \in Recent(bodies, LoopWindow) : e.body = Body(s)}
            <4>1. Body(s) = <<Text[d], 0>> /\ clock \in w
                BY <3>3 DEF PassedBodies
            <4>2. PassedBodies(w, d) \subseteq counted
                <5>1. PICK t \in 0 .. MaxTime : w = t .. t + LoopWindow - 1
                    BY DEF Windows
                <5>2. \A e \in bodies : e.at \in w => clock < e.at + LoopWindow
                    BY <4>1, <5>1, GateAssumption, BoundsAssumption DEF Shape
                <5>3. QED
                    BY <4>1, <5>2 DEF PassedBodies, Recent
            <4>3. IsFiniteSet(counted) /\ Cardinality(counted) + 1 < LoopMax
                <5>1. IsFiniteSet(counted)
                    BY FS_Subset DEF Shape, Recent
                <5>2. QED
                    BY <1>1, <1>8, <5>1 DEF Repeats
            <4> HIDE DEF counted, entry
            <4>4. PassedBodies(w, d)' \subseteq counted \cup {entry}
                BY <3>1, <4>2
            <4>5. /\ IsFiniteSet(counted \cup {entry})
                  /\ Cardinality(counted \cup {entry}) <= Cardinality(counted) + 1
                <5>1. Cardinality(counted) \in Nat
                    BY <4>3, FS_CardinalityType
                <5>2. IsFiniteSet(counted)
                    BY <4>3
                <5>3. QED
                    BY <5>1, <5>2, FS_AddElement
            <4>6. /\ IsFiniteSet(PassedBodies(w, d)')
                  /\ Cardinality(PassedBodies(w, d)') <= Cardinality(counted \cup {entry})
                BY <4>4, <4>5, FS_Subset
            <4>7. QED
                BY <4>3, <4>5, <4>6, FS_CardinalityType, GateAssumption
        <3>4. QED
            BY <3>2, <3>3
    <2>2. QED
        BY <1>2, <1>6, <2>1 DEF LogsBounded, Windows
<1>9. QED
    BY <1>1, <1>7, <1>8

(* Rate limit: likewise, of permits.                                         *)
LEMMA PermitBounds ==
    ASSUME OutreachInv, Logged, LogsBounded, NEW s \in Slots, TakePermit(s)
    PROVE  Logged' /\ LogsBounded'
<1> USE DEF OutreachInv
<1> DEFINE permit == [to |-> Recipient[Of(s)], at |-> clock, msg |-> msg[s]]
<1>1. /\ UNCHANGED <<clock, run, draft, bodies, msg, tracked, checked, sent>>
      /\ step[s] = "limit" /\ permits' = permits \cup {permit}
      /\ step'[s] = "publish" /\ \A t \in Slots \ {s} : step'[t] = step[t]
      /\ Used(Recipient[Of(s)]) < RateMax
    BY DEF TakePermit, GoTo, Shape
<1>2. Logged'
    BY <1>1 DEF Logged, Body, Of, Passed
<1>3. \A n : Passing(n)' <=> Passing(n)
    BY <1>1 DEF Passing, Passed
<1>4. \A w, d : PassedBodies(w, d)' = PassedBodies(w, d)
    BY <1>1, <1>3 DEF PassedBodies
<1>5. ASSUME NEW w \in Windows(RateWindow), NEW d \in Drafts
      PROVE  Cardinality(PermitsTo(w, d)') <= RateMax
    <2>1. IsFiniteSet(PermitsTo(w, d))
        BY FS_Subset DEF PermitsTo, Shape
    <2>2. CASE ~(permit.to = Recipient[d] /\ clock \in w)
        <3>1. PermitsTo(w, d)' = PermitsTo(w, d)
            BY <1>1, <2>2 DEF PermitsTo
        <3>2. QED
            BY <3>1 DEF LogsBounded
    <2>3. CASE permit.to = Recipient[d] /\ clock \in w
        <3> DEFINE counted == {p \in Recent(permits, RateWindow) : p.to = Recipient[d]}
        <3>1. PermitsTo(w, d) \subseteq counted
            <4>1. PICK t \in 0 .. MaxTime : w = t .. t + RateWindow - 1
                BY DEF Windows
            <4>2. \A p \in permits : p.at \in w => clock < p.at + RateWindow
                BY <2>3, <4>1, GateAssumption, BoundsAssumption DEF Shape
            <4>3. QED
                BY <4>2 DEF PermitsTo, Recent
        <3>2. IsFiniteSet(counted)
            BY FS_Subset DEF Shape, Recent
        <3>3. Cardinality(counted) < RateMax
            BY <1>1, <2>3 DEF Used
        <3>4. PermitsTo(w, d)' \subseteq counted \cup {permit}
            BY <1>1, <3>1 DEF PermitsTo
        <3> HIDE DEF counted, permit
        <3>5. /\ IsFiniteSet(counted \cup {permit})
              /\ Cardinality(counted \cup {permit}) <= Cardinality(counted) + 1
            <4>1. Cardinality(counted) \in Nat
                BY <3>2, FS_CardinalityType
            <4>2. QED
                BY <3>2, <4>1, FS_AddElement
        <3>6. /\ IsFiniteSet(PermitsTo(w, d)')
              /\ Cardinality(PermitsTo(w, d)') <= Cardinality(counted \cup {permit})
            BY <3>4, <3>5, FS_Subset
        <3>7. QED
            BY <3>2, <3>3, <3>5, <3>6, FS_CardinalityType, GateAssumption
    <2>4. QED
        BY <2>2, <2>3
<1>6. QED
    BY <1>2, <1>4, <1>5 DEF LogsBounded, Windows

(* The other steps of a request pass no counter.                             *)
LEMMA OtherBounds ==
    ASSUME OutreachInv, Logged, LogsBounded, NEW s \in Slots,
           \/ \E d \in Drafts : Begin(s, d)
           \/ RegisterLink(s) \/ RegisterFails(s) \/ Rewrite(s)
           \/ Throttled(s) \/ Publish(s) \/ PublishFails(s)
    PROVE  Logged' /\ LogsBounded'
<1> USE DEF OutreachInv
<1>1. /\ UNCHANGED <<run, bodies, permits>>
      /\ \A t \in Slots \ {s} : /\ step'[t] = step[t] /\ msg'[t] = msg[t]
                                /\ tracked'[t] = tracked[t] /\ checked'[t] = checked[t]
      /\ step'[s] \notin Passed
    <2>1. CASE \E d \in Drafts : Begin(s, d)
        BY <2>1 DEF Begin, GoTo, gateVars, Passed, Shape
    <2>2. CASE RegisterLink(s) \/ RegisterFails(s) \/ Rewrite(s)
        BY <2>2 DEF RegisterLink, RegisterFails, Rewrite, GoTo, gateVars, requestVars, Passed, Shape
    <2>3. CASE Throttled(s) \/ Publish(s) \/ PublishFails(s)
        BY <2>3, DoneShape DEF Throttled, Publish, PublishFails, gateVars, Passed
    <2>4. QED
        BY <2>1, <2>2, <2>3
<1>2. /\ \A n \in 1 .. tries : draft'[n] = draft[n]
      /\ \A t \in Slots : step[t] # "idle" => msg[t] \in 1 .. tries
      /\ \A m \in sent : m.msg \in 1 .. tries
    <2>1. \A n \in 1 .. tries : draft'[n] = draft[n]
        <3>1. CASE \E d \in Drafts : Begin(s, d)
            BY <3>1, BoundsAssumption DEF Begin, Shape, Attempts
        <3>2. CASE ~\E d \in Drafts : Begin(s, d)
            BY <3>2 DEF RegisterLink, RegisterFails, Rewrite, Throttled, Publish, PublishFails
        <3>3. QED
            BY <3>1, <3>2
    <2>2. QED
        BY <2>1, BoundsAssumption DEF Shape, Mails, IdsAreFresh
<1> DEFINE mail == [msg |-> msg[s], tracked |-> tracked[s], urls |-> Urls(s) \ blotted[s],
                    checked |-> checked[s],
                    permitted |-> (CHOOSE p \in permits : p.msg = msg[s]).at, run |-> run]
<1>3. sent' = sent \/ (step[s] = "publish" /\ draft' = draft /\ sent' = sent \cup {mail})
    BY DEF Begin, RegisterLink, RegisterFails, Rewrite, Throttled, Publish, PublishFails
<1>4. /\ mail.msg = msg[s] /\ mail.tracked = tracked[s] /\ mail.checked = checked[s]
      /\ mail.permitted = (CHOOSE p \in permits : p.msg = msg[s]).at
    OBVIOUS
<1> HIDE DEF mail
<1>5. ASSUME NEW n, Passing(n)' PROVE Passing(n)
    <2>1. CASE \E m \in sent : m.msg = n /\ m.run = run
        BY <2>1 DEF Passing
    <2>2. CASE step[s] = "publish" /\ msg[s] = n
        BY <2>2 DEF Passing, Passed
    <2>3. CASE \E t \in Slots \ {s} : step[t] \in Passed /\ msg[t] = n
        BY <2>3 DEF Passing
    <2>4. QED
        BY <1>1, <1>3, <1>4, <1>5, <2>1, <2>2, <2>3 DEF Passing
<1>6. LogsBounded'
    <2>1. \A w, d : PassedBodies(w, d)' \subseteq PassedBodies(w, d)
        BY <1>1, <1>5 DEF PassedBodies
    <2>2. \A w, d : PermitsTo(w, d)' = PermitsTo(w, d)
        BY <1>1 DEF PermitsTo
    <2>3. QED
        BY <2>1, <2>2, PartsBounded
<1>7. ASSUME NEW t \in Slots, step'[t] \in Passed
      PROVE  [body |-> Body(t)', at |-> checked'[t], msg |-> msg'[t]] \in bodies'
    <2>1. t # s
        BY <1>1, <1>7
    <2>2. Body(t)' = Body(t)
        BY <1>1, <1>2, <1>7, <2>1 DEF Body, Of, Passed
    <2>3. QED
        BY <1>1, <1>7, <2>1, <2>2 DEF Logged
<1>8. \A t \in Slots : step'[t] \in {"register", "check"} => \A e \in bodies' : e.msg # msg'[t]
    <2>1. step'[s] \in {"register", "check"} => \A e \in bodies : e.msg # msg'[s]
        <3>1. CASE \E d \in Drafts : Begin(s, d)
            <4>1. msg'[s] = tries + 1 /\ tries \in Nat
                BY <3>1, BoundsAssumption DEF Begin, Shape
            <4>2. QED
                BY <4>1 DEF Shape
        <3>2. CASE RegisterLink(s) \/ RegisterFails(s) \/ Rewrite(s)
            BY <3>2 DEF RegisterLink, RegisterFails, Rewrite, requestVars, Logged
        <3>3. CASE Throttled(s) \/ Publish(s) \/ PublishFails(s)
            BY <3>3, DoneShape DEF Throttled, Publish, PublishFails
        <3>4. QED
            BY <3>1, <3>2, <3>3
    <2>2. QED
        BY <1>1, <2>1 DEF Logged
<1>9. ASSUME NEW m \in sent', m.run = run
      PROVE  /\ ~m.tracked => [body |-> <<Text[draft'[m.msg]], 0>>, at |-> m.checked,
                               msg |-> m.msg] \in bodies
             /\ [to |-> Recipient[draft'[m.msg]], at |-> m.permitted, msg |-> m.msg] \in permits
    <2>1. CASE m \in sent
        BY <1>2, <1>9, <2>1 DEF Logged
    <2>2. CASE m \notin sent
        <3>1. m = mail /\ step[s] = "publish" /\ draft' = draft
            BY <1>3, <1>9, <2>2
        <3>2. [to |-> Recipient[draft[msg[s]]], at |-> mail.permitted, msg |-> msg[s]] \in permits
            BY <1>4, <3>1 DEF PermitsHeld, Of
        <3>3. [body |-> Body(s), at |-> checked[s], msg |-> msg[s]] \in bodies
            BY <3>1 DEF Logged, Passed
        <3>4. ~tracked[s] => Body(s) = <<Text[draft[msg[s]]], 0>>
            BY DEF Body, Of
        <3>5. QED
            BY <1>4, <3>1, <3>2, <3>3, <3>4
    <2>3. QED
        BY <2>1, <2>2
<1>10. QED
    BY <1>1, <1>6, <1>7, <1>8, <1>9 DEF Logged

LEMMA EnvironmentBounds ==
    ASSUME OutreachInv, Logged, LogsBounded,
           \/ \E m \in sent : Open(m) \/ \E l \in Links[draft[m.msg]] : Click(m, l)
           \/ Tick \/ Restart \/ UNCHANGED vars
    PROVE  Logged' /\ LogsBounded'
<1> USE DEF OutreachInv
<1>1. CASE Restart
    <2>1. Logged'
        BY <1>1, BoundsAssumption DEF Restart, Logged, Passed, Shape, Mails
    <2>2. \A w, d : PassedBodies(w, d)' = {} /\ PermitsTo(w, d)' = {}
        BY <1>1 DEF Restart, PassedBodies, PermitsTo
    <2>3. QED
        BY <2>1, <2>2, PartsBounded
<1>2. CASE ~Restart
    <2>1. UNCHANGED <<run, draft, bodies, permits, step, msg, tracked, checked, sent>>
        BY <1>2 DEF Open, Click, Tick, vars, gateVars, requestVars
    <2>2. Logged'
        BY <2>1 DEF Logged, Body, Of
    <2>3. \A n : Passing(n)' <=> Passing(n)
        BY <2>1 DEF Passing
    <2>4. \A w, d : PassedBodies(w, d)' = PassedBodies(w, d) /\ PermitsTo(w, d)' = PermitsTo(w, d)
        BY <2>1, <2>3 DEF PassedBodies, PermitsTo
    <2>5. QED
        BY <2>2, <2>4, PartsBounded
<1>3. QED
    BY <1>1, <1>2

(* However the checks of concurrent requests interleave, no window of a run  *)
(* sees more mails than the gate allows, for any limits and windows.         *)
THEOREM GateIsHeld == Spec => []GateHolds
<1>1. Init => GateInv
    <2> SUFFICES ASSUME Init PROVE GateInv
        OBVIOUS
    <2>1. Logged /\ \A r \in 1 .. MaxRuns : r < run => RunHolds(r)
        BY BoundsAssumption DEF Init, Logged, Passed
    <2>2. \A w, d : PassedBodies(w, d) = {} /\ PermitsTo(w, d) = {}
        BY DEF Init, PassedBodies, PermitsTo
    <2>3. QED
        BY <2>1, <2>2, FS_EmptySet, GateAssumption DEF GateInv, LogsBounded
<1>2. OutreachInv /\ GateInv /\ [Next]_vars => GateInv'
    <2> SUFFICES ASSUME OutreachInv, GateInv, [Next]_vars PROVE GateInv'
        OBVIOUS
    <2>1. Logged' /\ LogsBounded'
        BY CheckBounds, PermitBounds, OtherBounds, EnvironmentBounds DEF Next, RequestStep, GateInv
    <2>2. QED
        BY <2>1, PastHolds DEF GateInv
<1>3. QED
    BY <1>1, <1>2, GateHoldsNow, OutreachInvHolds, PTL DEF Spec

==============================================================================
