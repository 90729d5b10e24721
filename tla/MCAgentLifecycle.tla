-------------------------- MODULE MCAgentLifecycle --------------------------
(* Model-checking instance of AgentLifecycle. *)
EXTENDS AgentLifecycle
=============================================================================
