------------------------------ MODULE Threading ------------------------------
(* How a mail says which conversation it belongs to: the thread id that      *)
(* decode_inbound_email derives from its headers (broker/inbound.rs) and the *)
(* lead it answers (the compose lookup of plugin/broker.rs).  The headers of *)
(* a mail are its ids and, for mailers that strip those, its sender, base    *)
(* subject and the day of its Date, all as opaque values.                    *)
EXTENDS Naturals, Sequences, FiniteSetsExt

CONSTANTS NoHeader,   \* Message-Id or In-Reply-To is missing
          NoDay       \* the Date is missing

(* synth_thread_id, with the day so that a greeting of another day does not  *)
(* join; without a date the bare hash is used.                               *)
Synthesized(headers) ==
    [from |-> headers.from, subject |-> headers.subject, day |-> headers.day]

(* The root of the conversation: the oldest reference, else the mail that is *)
(* answered, else the mail itself.                                           *)
ThreadId(headers) ==
    CASE headers.references # << >> -> headers.references[1]
      [] headers.references = << >> /\ headers.inReplyTo # NoHeader -> headers.inReplyTo
      [] /\ headers.references = << >>
         /\ headers.inReplyTo = NoHeader
         /\ headers.messageId # NoHeader -> headers.messageId
      [] OTHER -> Synthesized(headers)

(* The composed lead a mail replies to, given which lead each composed id    *)
(* was sent for: In-Reply-To counts before the references, oldest first.     *)
AnsweredLead(headers, sentFor, noLead) ==
    LET known == {i \in DOMAIN headers.references : headers.references[i] \in DOMAIN sentFor}
    IN  IF headers.inReplyTo \in DOMAIN sentFor THEN sentFor[headers.inReplyTo]
        ELSE IF known # {} THEN sentFor[headers.references[Min(known)]]
        ELSE noLead

==============================================================================
