-------------------------- MODULE MCAgentThread ---------------------------
(***************************************************************************)
(* Instances of AgentThreadProperties for TLC.                             *)
(***************************************************************************)
EXTENDS AgentThreadProperties, TLC

CONSTANTS t1, t2

TwoTurns == {t1, t2}

============================================================================
