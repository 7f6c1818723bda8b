----------------------------- MODULE MCSyncEngine -----------------------------
(***************************************************************************)
(* Instances of SyncEngine for TLC: bindings b1 and b2, a client c1, files *)
(* x1 and x2.                                                              *)
(***************************************************************************)
EXTENDS SyncEngineRefinement, TLC

CONSTANTS b1, b2, c1, x1, x2

\* b1 and b2 are two keys of one env file; b1 is a Docker input.
OneFile         == (b1 :> x1) @@ (b2 :> x1)
PairStyle       == (b1 :> "pair") @@ (b2 :> "pair")
RecreateDisable == (b1 :> "Recreate") @@ (b2 :> "Disable")

\* b1 is a whole file, b2 a pointer into another file.
TwoFiles     == (b1 :> x1) @@ (b2 :> x2)
WholePointer == (b1 :> "whole") @@ (b2 :> "pointer")
DisableAlert == (b1 :> "Disable") @@ (b2 :> "Alert")

\* b1 alone, a Docker input that is disabled when its file is missing.
Alone        == b1 :> x1
AlonePair    == b1 :> "pair"
AloneDisable == b1 :> "Disable"
=============================================================================
