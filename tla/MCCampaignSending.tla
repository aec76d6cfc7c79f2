-------------------------- MODULE MCCampaignSending --------------------------
(* CampaignSending on small instances.  The worker slots of a run are all of *)
(* one kind: requests of the internal route, which lock the job row (the Go  *)
(* sender), or jobs of Python drains, which do not.                          *)
EXTENDS CampaignQueries, TLC

SlotSymmetry == Permutations(Workers)
=============================================================================
