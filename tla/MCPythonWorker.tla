--------------------------- MODULE MCPythonWorker ---------------------------
(* PythonWorker on small instances: the slots are the jobs of one batch. *)
EXTENDS PythonWorker, CampaignQueries
=============================================================================
