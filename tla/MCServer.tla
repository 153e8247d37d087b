------------------------------ MODULE MCServer ------------------------------
(* Small instances of Server. *)
EXTENDS Server, TLC

CONSTANTS r1, r2

MCRequests == {r1, r2}

Symmetry == Permutations(MCRequests)
=============================================================================
