------------------------------ MODULE SendLedger ------------------------------
(***************************************************************************)
(* What approving drafts promises about e-mail that leaves the process.    *)
(* OutboundPublisher remembers in memory what it has dispatched, so that   *)
(* "a double-approve from the operator doesn't double-send"                *)
(* (broker/outbound.rs); the draft row remembers on disk that it was       *)
(* approved.  Together they promise: a draft is sent at most once by one   *)
(* run of the process, is recorded as approved only by the run that sent   *)
(* it, and is never sent again once it has been recorded.                  *)
(***************************************************************************)
EXTENDS Naturals

CONSTANT Drafts

VARIABLES sent,         \* how often each draft was handed to the broker
          sentNow,      \* the drafts handed over by this run of the process
          everApproved  \* the drafts recorded as approved, ever

ledgerVars == <<sent, sentNow, everApproved>>

LedgerInit ==
    /\ sent = [d \in Drafts |-> 0]
    /\ sentNow = {}
    /\ everApproved = {}

Send(d) ==
    /\ d \notin sentNow
    /\ d \notin everApproved
    /\ sent' = [sent EXCEPT ![d] = @ + 1]
    /\ sentNow' = sentNow \cup {d}
    /\ UNCHANGED everApproved

Record(d) ==
    /\ d \in sentNow
    /\ everApproved' = everApproved \cup {d}
    /\ UNCHANGED <<sent, sentNow>>

Forget ==
    /\ sentNow' = {}
    /\ UNCHANGED <<sent, everApproved>>

LedgerNext ==
    \/ \E d \in Drafts : Send(d) \/ Record(d)
    \/ Forget

LedgerSpec == LedgerInit /\ [][LedgerNext]_ledgerVars

===============================================================================
