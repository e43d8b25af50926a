--------------------------- MODULE MCRunLifecycle ---------------------------
(***************************************************************************)
(* Instances of RunLifecycle.  One user owns all the runs, so that the     *)
(* per-user limit makes a run wait as soon as two are live.                *)
(***************************************************************************)
EXTENDS RunLifecycle, TLC

CONSTANTS r1, r2, h1, h2, u1

MCOwner == [r \in Runs |-> u1]

\* Every phase of the executor may throw, but the store does not fail in the
\* middle of startRun and resumeRun, nor silently in a checkpoint.
ExecutorFaults == SlotPhases \ {"loop", "parkSave", "done", "thrown"}

NoFaults == {}

MCSymmetry == Permutations(Runs) \cup Permutations(Handlers)
=============================================================================
