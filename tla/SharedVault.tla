----------------------------- MODULE SharedVault -----------------------------
(***************************************************************************)
(* What clients that share an encrypted vault may rely on: the vault has   *)
(* one history, a client shows one state of it at a time, and only a       *)
(* client that shows the last state can add the next one.  docs/design.md  *)
(* calls this "conditional writes", docs/roadmap.md "a conflicting edit    *)
(* cannot silently discard data".                                          *)
(***************************************************************************)
EXTENDS Naturals, Sequences

CONSTANTS
    Clients,
    Ids,       \* the entries
    Versions,  \* the versions an entry can have
    None       \* no version: the entry is absent

VARIABLES
    history,  \* every state the vault has had: the version of each entry
    seen      \* the state each client shows, 0 when it shows none

sharedVars == <<history, seen>>

Last  == history[Len(history)]
Drawn == {history[r][i] : r \in 1..Len(history), i \in Ids}

Init ==
    /\ history = <<[i \in Ids |-> None]>>
    /\ seen = [c \in Clients |-> 0]

\* A client that shows the last state adds another: each entry keeps its version,
\* loses it, or gets a version no state has had.
Write(c) ==
    /\ seen[c] = Len(history)
    /\ \E b \in [Ids -> Versions \cup {None}] :
          /\ b # Last
          /\ \A i \in Ids : b[i] \in {Last[i], None} \/ b[i] \notin Drawn
          /\ history' = Append(history, b)
    /\ UNCHANGED seen

\* A client shows a later state than before, and never an earlier one.
Show(c) ==
    /\ \E r \in (seen[c] + 1)..Len(history) : seen' = [seen EXCEPT ![c] = r]
    /\ UNCHANGED history

\* A client locks the vault.
Close(c) ==
    /\ seen' = [seen EXCEPT ![c] = 0]
    /\ UNCHANGED history

Next == \E c \in Clients : Write(c) \/ Show(c) \/ Close(c)

Spec == Init /\ [][Next]_sharedVars
=============================================================================
