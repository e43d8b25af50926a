------------------------------ MODULE MCEffects ------------------------------
(***************************************************************************)
(* Effects with two files, three contents, two calls of write_file, two    *)
(* rollbacks, and one change by somebody else, failure or crash.           *)
(***************************************************************************)
EXTENDS Effects, TLC

CONSTANTS f1, f2, c1, c2, c3, w1, w2, r1, r2

Symmetry == Permutations(Files) \union Permutations(Contents)
            \union Permutations(Calls) \union Permutations(Rollbacks)
=============================================================================
