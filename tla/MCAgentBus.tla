----------------------------- MODULE MCAgentBus -----------------------------
(***************************************************************************)
(* An instance of AgentBus: two agents, either of which may join late, and *)
(* two messages, enough for a question and its answer to cross a join or   *)
(* a wait.                                                                 *)
(***************************************************************************)
EXTENDS AgentBus
=============================================================================
