------------------------- MODULE LocalVaultRefinement -------------------------
(***************************************************************************)
(* The local vault implements VaultStore: the secrets are what the vault   *)
(* file says, and an edit is performed when the file is replaced.          *)
(***************************************************************************)
EXTENDS LocalVault

\* The secrets that a vault file holds.
SecretsOf(e) ==
    [i \in Ids |-> IF e.entries[i] = 0 THEN None ELSE e.sealed[e.entries[i]].value]

Editing(c) == request[c].op \in Edits

Store == INSTANCE VaultStore WITH
    Callers <- Editors,
    state   <- shape["vault"],
    secrets <- SecretsOf(disk["vault"]),
    asked   <- [c \in Editors |-> IF Editing(c) THEN request[c] ELSE NoRequest],
    phase   <- [c \in Editors |-> IF ~Editing(c) THEN "none"
                                  ELSE IF pc[c] = "reply" THEN answer[c]
                                  ELSE "asked"]

\* Edits are atomic, none is lost, an edit that fails changes nothing and one
\* that succeeds was performed once, on the vault as it was at that moment: for
\* threads and processes that share the file, with failures and crashes.
ImplementsStore == Store!Spec
=============================================================================
