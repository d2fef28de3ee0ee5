--------------------------- MODULE MCAgentSession ---------------------------
(* Two runs of two iterations.  Windows are small enough for pruning and   *)
(* both compactions to cut through what the first run said.                *)
EXTENDS AgentSession

MCStrategy == {"default", "sliding"}
=============================================================================
