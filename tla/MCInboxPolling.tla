--------------------------- MODULE MCInboxPolling ---------------------------
(* Two pollers of one mailbox, and the replies and delivery reports they can *)
(* find in it.                                                               *)
EXTENDS InboxPolling, TLC

Says(form, signals, body, cues, quoted) ==
    [form |-> form, signals |-> signals, body |-> body, cues |-> cues, quoted |-> quoted]

\* An absence notice in HTML only, which quotes our unsubscribe line and names
\* the message in References only; an interested reply that quotes the line
\* too and has lost headers and thread; and a delivery report.
MCAnswers ==
    {Says("chain", {"auto-submitted"}, FALSE, {"ooo"}, {"unsubscribe"}),
     Says("subject", {}, TRUE, {"positive"}, {"unsubscribe"}),
     Says("direct", {"daemon"}, TRUE, {}, {})}

PollerSymmetry == Permutations(Pollers) \cup Permutations(Addresses)
=============================================================================
