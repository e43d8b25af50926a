--------------------------- MODULE MCSyncExecution ---------------------------
(***************************************************************************)
(* Instances of SyncExecution: two executions of a plan over a flow shaped *)
(* like the contract definition's (two audits and two locks, the metadata  *)
(* step in the first, the dataset layer in the second), and one over its   *)
(* second audit.                                                           *)
(***************************************************************************)
EXTENDS SyncExecution, TLC

CONSTANTS e1, e2

ContractFlow == <<"audit", "lock", "metadata", "unknown", "unlock", "audit", "lock",
                  "layer", "dependent", "unlock", "step">>
Symmetry == Permutations(Executions)
SecondAudit == <<"metadata", "step", "audit">>
=============================================================================
