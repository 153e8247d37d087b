----------------------------- MODULE MCCeremony -----------------------------
(* Small instances of Ceremony. *)
EXTENDS Ceremony, TLC

CONSTANTS p1, p2, s1, s2, w1, w2, right

MCPairs == {p1, p2}
MCOnePair == {p1}
MCSessions == {s1, s2}
MCOneSession == {s1}
MCWardenRuns == {w1, w2}
MCPasswords == {right, NoPass}

Symmetry ==
    Permutations(MCPairs) \cup Permutations(MCSessions) \cup Permutations(MCWardenRuns)
=============================================================================
