----------------------------- MODULE MCWorkspace -----------------------------
(***************************************************************************)
(* Instances of Workspace for TLC.                                         *)
(***************************************************************************)
EXTENDS Workspace

Ref(store, connection) == [store |-> store, connection |-> connection]

\* The workspace's vault, an Azure vault "n1", a vault "n2" in a drive.
AzureAndDrive == {Ref("local", "local"), Ref("azure", "n1"), Ref("gdrive", "n2")}

At(store, vault) == [store |-> store, vault |-> vault]

\* A vault at a path, Azure's vault "n1", two vaults in the drive.
Places == {At("local", "v1"), At("azure", "n1"), At("gdrive", "v1"), At("gdrive", "v2")}
=============================================================================
