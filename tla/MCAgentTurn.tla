---------------------------- MODULE MCAgentTurn ----------------------------
(* Small instances of AgentTurn. *)
EXTENDS AgentTurn, TLC

CONSTANTS s1, s2, c1, c2
=============================================================================
