-------------------------- MODULE MCCampaignMailbox --------------------------
(* CampaignMailbox on a small instance: two leads, so that two slots have   *)
(* something to send at once and compete for the mailbox and its cap.       *)
EXTENDS CampaignMailbox
=============================================================================
