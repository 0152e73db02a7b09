---------------------------- MODULE MCAgentJobs ----------------------------
(* Small instances of AgentJobs. *)
EXTENDS AgentJobs
=============================================================================
