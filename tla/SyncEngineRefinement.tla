------------------------- MODULE SyncEngineRefinement -------------------------
(***************************************************************************)
(* The engine implements SecretDelivery: what is recorded is what          *)
(* state.json says, what is delivered is what the syncs wrote.             *)
(***************************************************************************)
EXTENDS SyncEngine

Delivery == INSTANCE SecretDelivery WITH
    source    <- srcVersion,
    delivered <- written,
    recorded  <- disk.applied,
    suspended <- disk.disabled

\* Every step of the engine, with all its interleavings, failures and crashes,
\* is a step of the abstract delivery service or none at all.
ImplementsDelivery == Delivery!Spec
=============================================================================
