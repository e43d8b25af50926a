----------------------------- MODULE MCRunQueue -----------------------------
(***************************************************************************)
(* Instances of RunQueue: two users, one with two runs in the best band,   *)
(* one with a run in that band and one below it, and a run without a user. *)
(***************************************************************************)
EXTENDS RunQueue

CONSTANTS a1, a2, b1, b2, n1, ua, ub, none

MCOwner == [r \in Runs |-> CASE r \in {a1, a2} -> ua
                             [] r \in {b1, b2} -> ub
                             [] r = n1 -> none]
MCPriority == [r \in Runs |-> IF r = b2 THEN 2 ELSE 1]
=============================================================================
