--------------------------- MODULE CampaignMailbox ---------------------------
(***************************************************************************)
(* CampaignSending implements MailboxSend: a worker slot is a sender from  *)
(* the moment its suppression check has passed until its savepoint or its  *)
(* transaction ends, and what it sends is its job's lead and step.  The    *)
(* campaign context owns jobs and leads, messaging owns the mailbox; this  *)
(* is the promise the dispatch port (email_dispatch.py) carries between    *)
(* them.                                                                   *)
(***************************************************************************)
EXTENDS CampaignSending

CONSTANT NoDraft

Sending(w) == send[w].phase \in {"checked", "sending", "accepted"}

\* The senders of MailboxSend, in the campaign's state.
phaseOf == [w \in Workers |-> IF Sending(w) THEN send[w].phase ELSE "idle"]
draftOf == [w \in Workers |-> IF Sending(w)
                              THEN [to |-> JobOf(w).lead, body |-> JobOf(w).position]
                              ELSE NoDraft]
sinceOf == [w \in Workers |-> send[w].since]
msgOf   == [w \in Workers |-> send[w].msg]

Mailbox == INSTANCE MailboxSend WITH
    Senders <- Workers, Addresses <- Leads, Bodies <- 1..Steps,
    phase <- phaseOf, draft <- draftOf, since <- sinceOf, msg <- msgOf

\* Every step of the campaign's transactions is a step of the mailbox's
\* senders or leaves the mailbox alone: processing a job never sends without
\* the check, the lock and the cap, and never records another slot's message.
MailboxPromise == Mailbox!Spec

\* The cap of the mailbox, in the campaign's state.
CampaignRespectsCap == Mailbox!CapRespected

=============================================================================
