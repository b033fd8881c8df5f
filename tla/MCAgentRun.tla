----------------------------- MODULE MCAgentRun -----------------------------
(* Two jobs of one thread, one workspace besides the default. *)
EXTENDS AgentRun

CONSTANTS j1, j2, app
=============================================================================
