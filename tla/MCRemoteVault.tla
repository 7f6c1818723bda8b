---------------------------- MODULE MCRemoteVault ----------------------------
(***************************************************************************)
(* An instance of RemoteVault for TLC: two clients of one file.            *)
(***************************************************************************)
EXTENDS RemoteVaultRefinement, TLC

CONSTANTS c1, c2, i1

\* Nothing tells the clients apart.
Interchangeable == Permutations({c1, c2})
=============================================================================
