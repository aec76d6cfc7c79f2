---------------------------- MODULE MCMailboxSend ----------------------------
(* Three sending transactions, say two workers and a test email, compete for *)
(* one mailbox over several days.                                            *)
EXTENDS MailboxSend, TLC

SenderSymmetry == Permutations(Senders)
=============================================================================
