----------------------------- MODULE MCAgentLoop -----------------------------
(***************************************************************************)
(* Small instances of AgentLoop: the limits of the code (30 iterations and *)
(* 10 more, 3 misses, 2 fatal writes, compaction from iteration 6 on) are  *)
(* scaled down so that each of them is reached.                            *)
(***************************************************************************)
EXTENDS AgentLoop
=============================================================================
