------------------------------ MODULE VaultStore ------------------------------
(***************************************************************************)
(* What the local vault promises, without handles, locks, versions,        *)
(* ciphertext or files: one map of secrets that several callers edit.  An  *)
(* edit is performed on the map as it is, whole, or refused with the map   *)
(* unchanged, and the caller is told which, unless it dies.                *)
(***************************************************************************)
EXTENDS FiniteSets

CONSTANTS Callers, Ids, Values, None

VARIABLES
    state,   \* "absent", "partial" (being created) or "whole"
    secrets, \* the value of each entry, None if it has none
    asked,   \* per caller: the edit it has asked for
    phase    \* per caller: "none", "asked", "done" or "failed"

vars == <<state, secrets, asked, phase>>

NoEdit == [op |-> "none", ids |-> {}, value |-> None]
Edits  == [op : {"put", "remove", "import"}, ids : (SUBSET Ids) \ {{}},
           value : Values \cup {None}]
Empty  == [i \in Ids |-> None]

Init ==
    /\ state = "absent" /\ secrets = Empty
    /\ asked = [c \in Callers |-> NoEdit]
    /\ phase = [c \in Callers |-> "none"]

Possible(r) ==
    /\ state = "whole"
    /\ r.op = "import" => \A i \in r.ids : secrets[i] = None
    /\ r.op = "remove" => \A i \in r.ids : secrets[i] # None

Ask(c) ==
    /\ phase[c] = "none"
    /\ \E r \in Edits : asked' = [asked EXCEPT ![c] = r]
    /\ phase' = [phase EXCEPT ![c] = "asked"]
    /\ UNCHANGED <<state, secrets>>

\* All the entries of an edit change together.
Perform(c) ==
    /\ phase[c] = "asked"
    /\ Possible(asked[c])
    /\ secrets' = [i \in Ids |-> IF i \in asked[c].ids THEN asked[c].value ELSE secrets[i]]
    /\ phase' = [phase EXCEPT ![c] = "done"]
    /\ UNCHANGED <<state, asked>>

Refuse(c) ==
    /\ phase[c] = "asked"
    /\ phase' = [phase EXCEPT ![c] = "failed"]
    /\ UNCHANGED <<state, secrets, asked>>

Answer(c) ==
    /\ phase[c] \in {"done", "failed"}
    /\ asked' = [asked EXCEPT ![c] = NoEdit]
    /\ phase' = [phase EXCEPT ![c] = "none"]
    /\ UNCHANGED <<state, secrets>>

Die(dead) ==
    /\ asked' = [c \in Callers |-> IF c \in dead THEN NoEdit ELSE asked[c]]
    /\ phase' = [c \in Callers |-> IF c \in dead THEN "none" ELSE phase[c]]
    /\ UNCHANGED <<state, secrets>>

\* A vault is created, empty or from a backup, only where there is none.
Establish ==
    /\ \/ state = "absent" /\ state' = "partial" /\ UNCHANGED secrets
       \/ state = "partial" /\ state' = "whole" /\ secrets' \in [Ids -> Values \cup {None}]
    /\ UNCHANGED <<asked, phase>>

Lose ==
    /\ state # "absent" /\ state' = "absent"
    /\ secrets' = Empty
    /\ UNCHANGED <<asked, phase>>

Next ==
    \/ \E c \in Callers : Ask(c) \/ Perform(c) \/ Refuse(c) \/ Answer(c)
    \/ \E dead \in SUBSET Callers : Die(dead)
    \/ Establish
    \/ Lose

Spec == Init /\ [][Next]_vars
=============================================================================
