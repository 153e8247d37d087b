--------------------------- MODULE MCSealCommand ---------------------------
(* Small instances of SealCommand. *)
EXTENDS SealCommand, TLC

CONSTANTS r1, r2, r3, linux, windows, x, y

MCRuns == {r1, r2, r3}
MCTargets == {linux, windows}
MCEntries == {x, y}

\* Calls that share files in different ways: the plain pair; the same without a
\* warden; contradictory options; one target given twice, with a plain warden;
\* two vaults and a warden.
MCCalls ==
    {[noWarden |-> FALSE, vaultTargets |-> <<>>, wardenTargets |-> <<>>],
     [noWarden |-> TRUE, vaultTargets |-> <<>>, wardenTargets |-> <<>>],
     [noWarden |-> TRUE, vaultTargets |-> <<>>, wardenTargets |-> <<linux>>],
     [noWarden |-> FALSE, vaultTargets |-> <<windows, windows>>, wardenTargets |-> <<>>],
     [noWarden |-> FALSE, vaultTargets |-> <<linux, windows>>, wardenTargets |-> <<windows>>]}

Symmetry == Permutations(Runs)
=============================================================================
