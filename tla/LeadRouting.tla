----------------------------- MODULE LeadRouting -----------------------------
(* Who gets a new lead: the routing rules of a tenant with the round-robin   *)
(* cursor of the process (lead/router.rs) and the working hours of the       *)
(* seller they name (availability.rs).  Pure operators; the router in use    *)
(* and its cursor are variables of ColdMail.                                 *)
(*                                                                           *)
(* A rule is what it matches: the set of inputs on which all its conditions  *)
(* hold.  Time is in minutes since midnight of a Monday, UTC.                *)
EXTENDS Integers, Sequences

CONSTANTS
    Sellers,
    Unassigned,    \* SellerId("unassigned"), the queue nobody owns
    NoSeller,      \* the mail is dropped by a rule
    NoWindow,      \* no working hours, or a day off
    Forever        \* a vacation without an end

ASSUME SellersAssumption == {Unassigned, NoSeller} \cap Sellers = {} /\ Unassigned # NoSeller

(* AssignTarget: a seller is a pool of one that leaves the cursor alone.     *)
ToSeller(s) == [kind |-> "seller", pool |-> <<s>>]
ToPool(pool) == [kind |-> "round_robin", pool |-> pool]
Drop == [kind |-> "drop", pool |-> << >>]

IsTarget(t) ==
    \/ t = Drop
    \/ \E s \in Sellers : t = ToSeller(s)
    \/ t.pool \in Seq(Sellers) /\ t = ToPool(t.pool)

(* What a rules.yaml is parsed into.                                         *)
IsRuleSet(ruleSet) ==
    /\ IsTarget(ruleSet.default)
    /\ Len(ruleSet.rules) \in Nat /\ DOMAIN ruleSet.rules = 1 .. Len(ruleSet.rules)
    /\ \A i \in DOMAIN ruleSet.rules : IsTarget(ruleSet.rules[i].target)

(* Without a rules.yaml nothing is let in.                                   *)
EmptyRuleSet == [rules |-> << >>, default |-> Drop]

(* The SDK's dispatcher: the first active rule that matches, or the default. *)
Dispatch(ruleSet, input) ==
    LET hits == {i \in DOMAIN ruleSet.rules :
                    ruleSet.rules[i].active /\ input \in ruleSet.rules[i].matches}
    IN  IF hits = {} THEN ruleSet.default
        ELSE ruleSet.rules[CHOOSE i \in hits : \A j \in hits : i <= j].target

(* One cursor serves every pool of the rule set, and only a pool that is not *)
(* empty moves it.                                                           *)
TakesTurn(target) == target.kind = "round_robin" /\ target.pool # << >>

\* Mutant: the cursor is read and stays.
BugAdvanced(target, cursor) == cursor

Advanced(target, cursor) == IF TakesTurn(target) THEN cursor + 1 ELSE cursor

Pick(target, cursor) ==
    CASE target.kind = "drop" -> NoSeller
      [] target.kind = "seller" -> target.pool[1]
      [] target.kind = "round_robin" ->
            IF target.pool = << >> THEN Unassigned
            ELSE target.pool[(cursor % Len(target.pool)) + 1]

------------------------------------------------------------------------------
DayMinutes == 24 * 60

(* The window of the weekday of a local time: Monday is day 0.               *)
DayWindow(hours, local) ==
    LET day == (local \div DayMinutes) % 7
    IN  IF day = 6 THEN hours.sunday ELSE IF day = 5 THEN hours.saturday ELSE hours.monFri

OnVacation(seller, now) ==
    seller.onVacation /\ (seller.until = Forever \/ now <= seller.until)

(* A window that does not start before it ends is a misconfiguration and     *)
(* never open; there is none across midnight.                                *)
InWindow(window, local) ==
    /\ window # NoWindow
    /\ window.start < window.end
    /\ window.start <= local % DayMinutes
    /\ local % DayMinutes < window.end

Available(seller, now) ==
    /\ ~OnVacation(seller, now)
    /\ \/ seller.hours = NoWindow
       \/ InWindow(DayWindow(seller.hours, now + seller.hours.offset), now + seller.hours.offset)

(* A matched seller who is away leaves the lead to nobody; one without a     *)
(* record counts as available.                                               *)
Owner(pick, records, now) ==
    IF pick \in DOMAIN records /\ ~Available(records[pick], now) THEN Unassigned ELSE pick

==============================================================================
