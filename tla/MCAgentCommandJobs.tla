------------------------- MODULE MCAgentCommandJobs -------------------------
(***************************************************************************)
(* Instances of AgentCommandJobs for TLC.                                  *)
(***************************************************************************)
EXTENDS AgentCommandJobs, TLC
=============================================================================
