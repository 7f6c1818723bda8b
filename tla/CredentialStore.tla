---------------------------- MODULE CredentialStore ----------------------------
(***************************************************************************)
(* The sign-in of one drive connection: cloud_auth.rs, the operating       *)
(* system's credential store under it and the provider's refresh tokens.   *)
(*                                                                         *)
(* A credential is kept in chunks under a generation of its own; a head    *)
(* entry names the generation in force.  A generation is identified with   *)
(* the refresh token it holds, a number; 0 is "none".  Every call on the   *)
(* credential store may fail and the process may die between any two.      *)
(* Calls for one credential do not overlap: access_token holds             *)
(* REFRESH_LOCK, and the vault's mutex or the connection form keeps        *)
(* disconnect apart from it.                                               *)
(***************************************************************************)
EXTENDS Naturals

CONSTANTS
    Chunks,     \* chunks of a saved credential
    MaxTokens,  \* bound: refresh tokens the provider issues
    MaxTrouble  \* bound: failed calls, lost answers, crashes, revocations

ASSUME ChunksAssumption == Chunks \in Nat \ {0}
ASSUME LimitsAssumption == MaxTokens \in Nat \ {0} /\ MaxTrouble \in Nat

VARIABLES
    head,       \* the head entry: the generation in force
    chunks,     \* the chunk entries that exist
    issued,     \* the newest refresh token the provider issued
    valid,      \* the refresh tokens the provider accepts
    step,       \* where the call in progress is, or "rest"
    next,       \* the generation being saved
    previous,   \* the generation the head named when the save began
    index,      \* the chunk the call is at
    answer,     \* what the last step told its caller
    leaving,    \* history: the generation disconnect has begun to remove
    trouble

store    == <<head, chunks>>
provider == <<issued, valid>>
locals   == <<step, next, previous, index>>
credentialVars == <<store, provider, locals, answer, leaving, trouble>>

CredentialInit ==
    /\ head = 0 /\ chunks = {}
    /\ issued = 0 /\ valid = {}
    /\ step = "rest" /\ next = 0 /\ previous = 0 /\ index = 0
    /\ answer = "none"
    /\ leaving = 0
    /\ trouble = 0

-----------------------------------------------------------------------------
(* Plausible bugs: each replaces the definition it names, to show that the *)
(* properties notice.                                                      *)

UndoesPrevious    == <<previous, index>>     \* Undone
IgnoresFailedSave == "token"                 \* SaveFailed

-----------------------------------------------------------------------------
Trouble   == trouble < MaxTrouble /\ trouble' = trouble + 1
NoTrouble == UNCHANGED trouble

Readable(g) == g # 0 /\ \A i \in 1..Chunks : <<g, i>> \in chunks

Goto(s, i) == step' = s /\ index' = i /\ answer' = "none" /\ UNCHANGED <<next, previous>>

Answer(a) ==
    /\ answer' = a
    /\ step' = "rest" /\ next' = 0 /\ previous' = 0 /\ index' = 0

\* What access_token and login answer when save has failed.
SaveFailed == "error"

-----------------------------------------------------------------------------
(* The provider answers.                                                   *)

\* login: the code the browser brings back is exchanged for the first refresh
\* token, kept under a new id; or the sign-in fails and nothing is kept.
Login ==
    /\ step = "rest" /\ issued = 0
    /\ \/ issued' = 1 /\ valid' = {1}
          /\ step' = "save" /\ next' = 1 /\ previous' = 0 /\ index' = 0
          /\ answer' = "none"
       \/ Answer("error") /\ UNCHANGED provider
    /\ UNCHANGED <<store, leaving>> /\ NoTrouble

\* access_token reads the credential, and has nothing to send if it cannot.
Unreadable ==
    /\ step = "rest" /\ issued # 0
    /\ \/ ~Readable(head) /\ NoTrouble
       \/ Readable(head) /\ Trouble
    /\ Answer("error")
    /\ UNCHANGED <<store, provider, leaving>>

\* exchange: the provider accepts the token and may replace it, with or without
\* voiding it; or it refuses it.
Refresh ==
    /\ step = "rest" /\ Readable(head)
    /\ \/ head \in valid
          /\ Answer("token") /\ UNCHANGED provider
       \/ head \in valid /\ issued < MaxTokens
          /\ issued' = issued + 1
          /\ valid' \in {{issued + 1}, valid \cup {issued + 1}}
          /\ step' = "save" /\ next' = issued + 1 /\ previous' = 0 /\ index' = 0
          /\ answer' = "none"
       \/ head \notin valid
          /\ Answer("error") /\ UNCHANGED provider
    /\ UNCHANGED <<store, leaving>> /\ NoTrouble

\* The answer is lost on its way, or is not one access_token can read.
RefreshLost ==
    /\ step = "rest" /\ Readable(head)
    /\ Trouble
    /\ \/ UNCHANGED provider
       \/ head \in valid /\ issued < MaxTokens
          /\ issued' = issued + 1
          /\ valid' \in {{issued + 1}, valid \cup {issued + 1}}
    /\ Answer("error")
    /\ UNCHANGED <<store, leaving>>

\* The user or the provider ends the sign-in.
Revoke ==
    /\ valid # {} /\ Trouble
    /\ valid' = {}
    /\ UNCHANGED <<store, issued, locals, answer, leaving>>

-----------------------------------------------------------------------------
(* save.                                                                   *)

\* The previous head is read before anything is written.
ReadPrevious ==
    /\ step = "save"
    /\ \/ Trouble /\ Answer(SaveFailed)
       \/ NoTrouble /\ step' = "write" /\ index' = 1 /\ previous' = head
          /\ answer' = "none" /\ UNCHANGED next
    /\ UNCHANGED <<store, provider, leaving>>

WriteChunk ==
    /\ step = "write" /\ index <= Chunks
    /\ \/ Trouble /\ Goto("undo", 1) /\ UNCHANGED chunks
       \/ NoTrouble /\ Goto("write", index + 1)
          /\ chunks' = chunks \cup {<<next, index>>}
    /\ UNCHANGED <<head, provider, leaving>>

\* The small head is the commit point.
WriteHead ==
    /\ step = "write" /\ index > Chunks
    /\ \/ Trouble /\ Goto("undo", 1) /\ UNCHANGED head
       \/ NoTrouble /\ head' = next
          /\ IF previous = 0 THEN Answer("token") ELSE Goto("clean", 1)
    /\ UNCHANGED <<chunks, provider, leaving>>

\* A write failed: remove_chunks of the generation that is not in force.
Undone == <<next, index>>
Undo ==
    /\ step = "undo"
    /\ \/ Trouble /\ Answer(SaveFailed) /\ UNCHANGED chunks
       \/ /\ NoTrouble
          /\ chunks' = chunks \ {Undone}
          /\ IF index = Chunks THEN Answer(SaveFailed) ELSE Goto("undo", index + 1)
    /\ UNCHANGED <<head, provider, leaving>>

\* The new generation is in force: remove_chunks of the one before.  Failing here
\* fails the call, although the new token is stored.
Clean ==
    /\ step = "clean"
    /\ \/ Trouble /\ Answer(SaveFailed) /\ UNCHANGED chunks
       \/ /\ NoTrouble
          /\ chunks' = chunks \ {<<previous, index>>}
          /\ IF index = Chunks THEN Answer("token") ELSE Goto("clean", index + 1)
    /\ UNCHANGED <<head, provider, leaving>>

-----------------------------------------------------------------------------
(* disconnect: the chunks of the generation in force, then the head.       *)

Disconnect ==
    /\ step = "rest" /\ issued # 0
    /\ \/ Trouble /\ Answer("error") /\ UNCHANGED leaving
       \/ NoTrouble /\ Goto("remove", IF head = 0 THEN Chunks + 1 ELSE 1)
          /\ leaving' = head
    /\ UNCHANGED <<store, provider>>

RemoveChunk ==
    /\ step = "remove" /\ index <= Chunks
    /\ \/ Trouble /\ Answer("error") /\ UNCHANGED chunks
       \/ NoTrouble /\ Goto("remove", index + 1)
          /\ chunks' = chunks \ {<<head, index>>}
    /\ UNCHANGED <<head, provider, leaving>>

RemoveHead ==
    /\ step = "remove" /\ index > Chunks
    /\ \/ Trouble /\ Answer("error") /\ UNCHANGED <<head, leaving>>
       \/ NoTrouble /\ Answer("gone") /\ head' = 0 /\ leaving' = 0
    /\ UNCHANGED <<chunks, provider>>

\* The process dies; the store and the provider keep what they have.
Die ==
    /\ step # "rest" /\ Trouble
    /\ Answer("none")
    /\ UNCHANGED <<store, provider, leaving>>

-----------------------------------------------------------------------------
CredentialNext ==
    \/ Login \/ Unreadable \/ Refresh \/ RefreshLost \/ Revoke
    \/ ReadPrevious \/ WriteChunk \/ WriteHead \/ Undo \/ Clean
    \/ Disconnect \/ RemoveChunk \/ RemoveHead \/ Die

CredentialSpec == CredentialInit /\ [][CredentialNext]_credentialVars

-----------------------------------------------------------------------------
(* Properties.                                                             *)

\* "The small head is the commit point: a failed chunk write leaves the previous
\* generation readable" (cloud_auth.rs:98): whichever call on the credential store
\* fails and wherever the process dies, a credential that has a head can be read,
\* until the user disconnects it.
CredentialReadable == head # leaving => Readable(head)

\* When access_token or login answers with a token, the next call can be answered
\* too: the credential in force can be read and, unless the sign-in was ended, the
\* provider accepts its refresh token.  A rotation that could not be saved is an
\* error, never a success.  And once a caller hears that the connection is
\* gone, no credential is in force.
AnswersAreKept ==
    /\ answer = "token" => Readable(head) /\ (valid # {} => head \in valid)
    /\ answer = "gone" => head = 0
=============================================================================
