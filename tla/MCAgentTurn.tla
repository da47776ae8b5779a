------------------------------ MODULE MCAgentTurn ------------------------------
(* AgentTurn with the values of its configurations.                        *)
EXTENDS AgentTurn

(* Fallback off, and a chain of two targets.                               *)
BothChains == {1, 2}
=============================================================================
