----------------------------- MODULE MCLocalVault -----------------------------
(***************************************************************************)
(* Instances of LocalVault for TLC.                                        *)
(***************************************************************************)
EXTENDS LocalVaultRefinement, TLC

CONSTANTS desk, cli, ui, cmd, sync, i1, i2, x1, x2

\* The desktop window and its syncs share a handle, the vault command has its own.
DeskAndCommand == sync :> desk @@ ui :> desk @@ cmd :> cli
\* The same without syncs.
TwoHandles == ui :> desk @@ cmd :> cli

\* Nothing tells the entries apart, nor the payloads.
Interchangeable == Permutations({i1, i2}) \cup Permutations({x1, x2})

\* With a handle for each, the window and the command change places as well.
Sides == ui :> cmd @@ cmd :> ui @@ desk :> cli @@ cli :> desk
EntriesAndSides == {e @@ s : e \in Permutations({i1, i2}),
                             s \in {Sides, [v \in DOMAIN Sides |-> v]}}
=============================================================================
