------------------------ MODULE RemoteVaultRefinement ------------------------
(***************************************************************************)
(* The file in the drive, its clients and their requests implement one     *)
(* shared vault: the history is the sequence of revisions of the file and  *)
(* what a client shows is the manifest it has in memory.                   *)
(***************************************************************************)
EXTENDS RemoteVault

Shared == INSTANCE SharedVault
          WITH history <- [r \in 1..Len(revs) |-> Body(r)], seen <- view

\* Whatever answers are lost and however the requests of several clients
\* interleave, an edit extends the state its client was shown and discards no
\* entry of another client (drive.rs read_remote and write_remote, vault.rs
\* reload_inner).
ImplementsShared == Shared!Spec
=============================================================================
