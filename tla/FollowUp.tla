------------------------------- MODULE FollowUp -------------------------------
(* When a lead is followed up: the deadline that set_next_check stores, with *)
(* its jitter, and the sweep the agent's cron runs over the deadlines        *)
(* (lead/store.rs, tools/lead_schedule_followup.rs,                          *)
(* tools/lead_followup_sweep.rs).  Pure operators: LeadLifecycle keeps that  *)
(* a deadline is set, this module what it is.  Neither looks at the state of *)
(* the lead, so a deadline set after the lead was closed is swept as well.   *)
EXTENDS Integers, FiniteSets

CONSTANT Latest    \* the end of an i64

ASSUME LatestAssumption == Latest \in Nat

Earliest == -Latest - 1
Times == Earliest .. Latest

(* saturating_add                                                            *)
Saturated(t) == IF t > Latest THEN Latest ELSE IF t < Earliest THEN Earliest ELSE t

(* The deadlines that may be stored for one that was asked for.  A window of *)
(* 0 or 1 leaves it alone.                                                   *)
Jittered(asked, window) ==
    {Saturated(asked + offset) : offset \in -(window \div 2) .. window \div 2}

(* What the tool stores, of None as well.                                    *)
NextChecks(asked, window, none) == IF asked = none THEN {none} ELSE Jittered(asked, window)

(* deadline is a function on the leads that have one.                        *)
DueAt(deadline, now) == {l \in DOMAIN deadline : deadline[l] <= now}

(* One row more than the page is asked for, to see whether there is more.    *)
MoreDue(deadline, now, limit) == Cardinality(DueAt(deadline, now)) > limit

(* The pages a sweep may return: leads of one deadline come in any order.    *)
Pages(deadline, now, limit) ==
    {page \in SUBSET DueAt(deadline, now) :
        /\ IF MoreDue(deadline, now, limit)
           THEN Cardinality(page) = limit
           ELSE page = DueAt(deadline, now)
        /\ \A l \in page, rest \in DueAt(deadline, now) \ page : deadline[l] <= deadline[rest]}

(* How long the agent may wait for the next sweep.                           *)
NextTickHint(deadline, now, limit) ==
    IF MoreDue(deadline, now, limit) THEN 30000 ELSE 300000

==============================================================================
