-------------------------- MODULE MCInboundPipeline --------------------------
(* One thread that starts cold (first) and one composed lead whose  *)
(* recipient replies and unsubscribes; three leads so that a thread could   *)
(* get one more than there are handlers.                                    *)
EXTENDS InboundPipeline, Threading, TLC

CONSTANTS h1, h2, l1, l2, l3, own, first, reply, leave, cold, sent, other, hello

MCHandlers == {h1, h2}
MCMails == {first, reply, leave}
MCLeads == {l1, l2, l3, own}
MCComposed == {own}
(* What the mails carry: the cold one only its own id, the reply the whole   *)
(* chain, and the unsubscribe what a mailer leaves that writes no references.*)
MCHeaders ==
    LET Mail(id, parent, chain) == [messageId |-> id, inReplyTo |-> parent,
                                    references |-> chain, from |-> hello,
                                    subject |-> hello, day |-> NoDay]
    IN  (first :> Mail(cold, NoHeader, << >>)) @@
        (reply :> Mail(other, sent, <<sent>>)) @@
        (leave :> Mail(NoHeader, sent, << >>))
MCThread == [m \in MCMails |-> ThreadId(MCHeaders[m])]
MCThreads == {MCThread[m] : m \in MCMails}
MCAnswers == [m \in MCMails |-> AnsweredLead(MCHeaders[m], sent :> own, NoLead)]
MCUnsubscribes == {leave}
MCSymmetry == Permutations(MCHandlers) \cup Permutations(MCLeads \ MCComposed)

==============================================================================
