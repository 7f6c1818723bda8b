----------------------------- MODULE MCProviders -----------------------------
(***************************************************************************)
(* The sign-in of a drive, the list of an Azure secret's versions and a    *)
(* .env file have no state in common: an instance runs one of them at a    *)
(* time, the others stay as they began.                                    *)
(***************************************************************************)
EXTENDS CredentialStore, AzureVersions, KeyValueFile

vars == <<credentialVars, azureVars, textVars>>

Init == CredentialInit /\ AzureInit /\ TextInit

SignIn ==
    /\ AzureInit /\ TextInit
    /\ CredentialNext
    /\ UNCHANGED <<azureVars, textVars>>

ListVersions ==
    /\ CredentialInit /\ TextInit
    /\ AzureNext
    /\ UNCHANGED <<credentialVars, textVars>>

WriteText ==
    /\ CredentialInit /\ AzureInit
    /\ TextNext
    /\ UNCHANGED <<credentialVars, azureVars>>

Next == SignIn \/ ListVersions \/ WriteText

Spec == Init /\ [][Next]_vars
=============================================================================
