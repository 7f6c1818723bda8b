----------------------------- MODULE RemoteVault -----------------------------
(***************************************************************************)
(* An encrypted vault kept as one file in OneDrive or Google Drive         *)
(* (drive.rs) and opened by several clients (the remote branches of        *)
(* vault.rs).  A client is one VaultSource with its RemoteFile: the mutex   *)
(* of the VaultSource is held during a whole operation, so a client runs   *)
(* one operation at a time, but the requests of different clients          *)
(* interleave.  The service knows nothing of vaults: it gives the file a   *)
(* new tag at every change and refuses a PUT whose If-Match is not the     *)
(* current tag.                                                            *)
(*                                                                         *)
(* A body is what the manifest of a revision says: the version of every    *)
(* entry.  Keys, nonces and ciphertext are left out.                       *)
(***************************************************************************)
EXTENDS Naturals, Sequences

CONSTANTS
    Clients,  \* the opened connections, on one device or on several
    Ids,      \* the entries
    Pinned,   \* TRUE for Google Drive, whose downloads name a revision
    None,     \* no version: the entry is absent
    MaxRev,   \* how many revisions the file gets
    MaxTag    \* how many tags, those without a new revision included

ASSUME PinnedAssumption == Pinned \in BOOLEAN
ASSUME NoneAssumption   == None \notin [by : Clients, at : 1..(MaxRev + 1)]
ASSUME BoundAssumption  == MaxRev \in Nat \ {0} /\ MaxTag \in Nat \ {0}

VARIABLES
    tags,    \* the revision the file had with each of its tags
    revs,    \* every revision: its body, and who saved it after what
    cache,   \* RemoteFile.state: a tag and the revision downloaded with it
    view,    \* the revision of LocalVault.manifest, 0 when locked
    pc,      \* the request the operation of a client is at
    op,      \* the operation
    got,     \* the metadata the operation has read
    next,    \* the body it wants to save
    stored,  \* the revision its PUT became, 0 if it became none
    told     \* what the last step answered, and to whom

vars == <<tags, revs, cache, view, pc, op, got, next, stored, told>>

NoCache == [tag |-> 0, rev |-> 0]

Edits   == {"put", "remove", "import"}
Kinds   == Edits \cup {"none", "unlock", "sync", "backup"}
Steps   == {"idle", "metadata", "download", "recheck", "put", "answer"}
Results == {"done", "saved", "conflict", "failed"}

\* The random version an edit draws for an entry: who drew it, and when.
Versions == [by : Clients, at : 1..(MaxRev + 1)]
Bodies   == [Ids -> Versions \cup {None}]
Files    == [tag : Nat, rev : Nat]

\* seen is the revision that was shown when the edit was asked for.
Ops  == [kind : Kinds, ids : SUBSET Ids, seen : Nat]
NoOp == [kind |-> "none", ids |-> {}, seen |-> 0]

Answers == {<<>>} \cup (Clients \X Results)

TypeOK ==
    /\ tags \in Seq(Nat)
    /\ revs \in Seq([body : Bodies, seen : Nat, on : Nat])
    /\ cache \in [Clients -> Files]
    /\ view \in [Clients -> Nat]
    /\ pc \in [Clients -> Steps]
    /\ op \in [Clients -> Ops]
    /\ got \in [Clients -> Files]
    /\ next \in [Clients -> Bodies]
    /\ stored \in [Clients -> Nat]
    /\ told \in Answers

Empty == [i \in Ids |-> None]

\* DriveForm has created the file and no client has opened it yet.
Init ==
    /\ tags = <<1>>
    /\ revs = <<[body |-> Empty, seen |-> 0, on |-> 0]>>
    /\ cache = [c \in Clients |-> NoCache]
    /\ view = [c \in Clients |-> 0]
    /\ pc = [c \in Clients |-> "idle"]
    /\ op = [c \in Clients |-> NoOp]
    /\ got = [c \in Clients |-> NoCache]
    /\ next = [c \in Clients |-> Empty]
    /\ stored = [c \in Clients |-> 0]
    /\ told = <<>>

Body(r) == revs[r].body

\* What the service says of the file.
server == [tag |-> Len(tags), rev |-> tags[Len(tags)]]

-----------------------------------------------------------------------------
(* What an edit makes of a body *)

\* put replaces or adds one entry, remove takes an existing one away, and
\* import_new adds entries none of which exists.
CanEdit(o, b) ==
    /\ o.kind = "remove" => \A i \in o.ids : b[i] # None
    /\ o.kind = "import" => \A i \in o.ids : b[i] = None

\* A plausible bug: versions are counted from zero.
EditedFromZero(c, o, b) ==
    [i \in Ids |->
        IF i \notin o.ids THEN b[i]
        ELSE IF o.kind = "remove" THEN None
        ELSE [by |-> c, at |-> Len(revs) - 1]]

\* A plausible bug: the version of an entry does not change with its value.
EditedSameVersion(c, o, b) ==
    [i \in Ids |->
        IF i \notin o.ids THEN b[i]
        ELSE IF o.kind = "remove" THEN None
        ELSE [by |-> c, at |-> 1]]

\* The version drawn for an entry has not been used before.
Edited(c, o, b) ==
    [i \in Ids |->
        IF i \notin o.ids THEN b[i]
        ELSE IF o.kind = "remove" THEN None
        ELSE [by |-> c, at |-> Len(revs) + 1]]

-----------------------------------------------------------------------------
(* The end of an operation *)

\* Nothing of an operation is kept but its answer.
Finish(c, result) ==
    /\ pc' = [pc EXCEPT ![c] = "idle"]
    /\ op' = [op EXCEPT ![c] = NoOp]
    /\ got' = [got EXCEPT ![c] = NoCache]
    /\ next' = [next EXCEPT ![c] = Empty]
    /\ stored' = [stored EXCEPT ![c] = 0]
    /\ told' = <<c, result>>

-----------------------------------------------------------------------------
(* Operations *)

\* Every operation but unlock needs the vault open, and every one starts by
\* reading the metadata of the file.
Begin(c, kind, ids) ==
    /\ pc[c] = "idle"
    /\ kind # "unlock" => view[c] # 0
    /\ op' = [op EXCEPT ![c] = [kind |-> kind, ids |-> ids, seen |-> view[c]]]
    /\ pc' = [pc EXCEPT ![c] = "metadata"]
    /\ told' = <<>>
    /\ UNCHANGED <<tags, revs, cache, view, got, next, stored>>

BeginUnlock(c) == Begin(c, "unlock", {})
BeginSync(c)   == Begin(c, "sync", {})
BeginBackup(c) == Begin(c, "backup", {})
BeginPut(c)    == \E i \in Ids : Begin(c, "put", {i})
BeginRemove(c) == \E i \in Ids : Begin(c, "remove", {i})
BeginImport(c) == \E ids \in (SUBSET Ids) \ {{}} : Begin(c, "import", ids)

\* What an operation does with the revision it has read: an unlock or a sync
\* takes it, a backup only copies it.
ReceiveRead(c, r) ==
    /\ op[c].kind \notin Edits
    /\ view' = IF op[c].kind = "backup" THEN view ELSE [view EXCEPT ![c] = r]
    /\ Finish(c, "done")

\* An edit is refused when the manifest is not the one the client has.
ReceiveChanged(c, r) ==
    /\ op[c].kind \in Edits
    /\ Body(r) # Body(view[c])
    /\ Finish(c, "conflict")
    /\ UNCHANGED view

\* A plausible bug: the edit is made on whatever has been downloaded.
ReceiveAnyEdit(c, r) ==
    /\ op[c].kind \in Edits
    /\ view' = [view EXCEPT ![c] = r]
    /\ \/ /\ ~CanEdit(op[c], Body(r))
          /\ Finish(c, "failed")
       \/ /\ CanEdit(op[c], Body(r))
          /\ next' = [next EXCEPT ![c] = Edited(c, op[c], Body(r))]
          /\ pc' = [pc EXCEPT ![c] = "put"]
          /\ got' = [got EXCEPT ![c] = NoCache]
          /\ told' = <<>>
          /\ UNCHANGED <<op, stored>>

ReceiveEdit(c, r) ==
    /\ op[c].kind \in Edits
    /\ Body(r) = Body(view[c])
    /\ view' = [view EXCEPT ![c] = r]
    /\ \/ /\ ~CanEdit(op[c], Body(r))
          /\ Finish(c, "failed")
       \/ /\ CanEdit(op[c], Body(r))
          /\ next' = [next EXCEPT ![c] = Edited(c, op[c], Body(r))]
          /\ pc' = [pc EXCEPT ![c] = "put"]
          /\ got' = [got EXCEPT ![c] = NoCache]
          /\ told' = <<>>
          /\ UNCHANGED <<op, stored>>

Receive(c, r) == ReceiveRead(c, r) \/ ReceiveChanged(c, r) \/ ReceiveEdit(c, r)

\* read_remote asks for the metadata first: the cached body is used again when
\* the tag has not changed.
ReadMetadata(c) ==
    /\ pc[c] = "metadata"
    /\ \/ /\ cache[c].tag = server.tag
          /\ Receive(c, cache[c].rev)
       \/ /\ cache[c].tag # server.tag
          /\ got' = [got EXCEPT ![c] = server]
          /\ pc' = [pc EXCEPT ![c] = "download"]
          /\ told' = <<>>
          /\ UNCHANGED <<view, op, next, stored>>
    /\ UNCHANGED <<tags, revs, cache>>

\* Google Drive serves the revision that was asked for; a OneDrive download
\* address serves that one or what has replaced it.
Downloads(c) == IF Pinned THEN {got[c].rev} ELSE got[c].rev..server.rev

Download(c) ==
    /\ pc[c] = "download"
    /\ \E r \in Downloads(c) : got' = [got EXCEPT ![c].rev = r]
    /\ pc' = [pc EXCEPT ![c] = "recheck"]
    /\ told' = <<>>
    /\ UNCHANGED <<tags, revs, cache, view, op, next, stored>>

\* A plausible bug: the download is trusted without a second look at the tag.
RecheckNothing(c) ==
    /\ pc[c] = "recheck"
    /\ cache' = [cache EXCEPT ![c] = got[c]]
    /\ Receive(c, got[c].rev)
    /\ UNCHANGED <<tags, revs>>

\* The metadata is read again: the download counts only when the tag is still
\* the one read before it.
Recheck(c) ==
    /\ pc[c] = "recheck"
    /\ \/ /\ server.tag = got[c].tag
          /\ cache' = [cache EXCEPT ![c] = got[c]]
          /\ Receive(c, got[c].rev)
       \/ /\ server.tag # got[c].tag
          /\ Finish(c, "conflict")
          /\ UNCHANGED <<cache, view>>
    /\ UNCHANGED <<tags, revs>>

\* A plausible bug: the PUT has no If-Match.
MatchesAnything(c) == cache[c].tag # 0

\* write_remote sends the tag of the cached body with the PUT.
MatchesServer(c) == cache[c].tag # 0 /\ cache[c].tag = server.tag

\* The service replaces the file, whether or not its answer arrives.
PutCommits(c) ==
    /\ pc[c] = "put"
    /\ MatchesServer(c)
    /\ server.tag < MaxTag /\ Len(revs) < MaxRev
    /\ tags' = Append(tags, Len(revs) + 1)
    /\ revs' = Append(revs, [body |-> next[c], seen |-> op[c].seen, on |-> view[c]])
    /\ stored' = [stored EXCEPT ![c] = Len(revs) + 1]
    /\ pc' = [pc EXCEPT ![c] = "answer"]
    /\ told' = <<>>
    /\ UNCHANGED <<cache, view, op, got, next>>

\* The service refuses it with 409 or 412: a conflict, and never sent again.
\* The manifest in memory is rolled back to the revision the edit started from.
PutRefused(c) ==
    /\ pc[c] = "put"
    /\ ~MatchesServer(c)
    /\ Finish(c, "conflict")
    /\ UNCHANGED <<tags, revs, cache, view>>

\* After a saved edit the cache is dropped: the next read asks for the revision
\* the service has made of it.
PutAnswered(c) ==
    /\ pc[c] = "answer"
    /\ cache' = [cache EXCEPT ![c] = NoCache]
    /\ view' = [view EXCEPT ![c] = stored[c]]
    /\ Finish(c, "saved")
    /\ UNCHANGED <<tags, revs>>

\* A plausible bug: a PUT without an answer is sent again, and the refusal of
\* the second one is believed.
RequestFailsAsConflict(c) ==
    /\ pc[c] # "idle"
    /\ view' \in {view, [view EXCEPT ![c] = 0]}
    /\ Finish(c, IF pc[c] = "answer" THEN "conflict" ELSE "failed")
    /\ UNCHANGED <<tags, revs, cache>>

\* A request or its answer is lost, times out, is refused or cannot be used;
\* the edit is rolled back.  The vault is closed when it was not authorised:
\* DriveError Authorization becomes VaultError Locked, and with_open drops the
\* vault.
RequestFails(c) ==
    /\ pc[c] # "idle"
    /\ view' \in {view, [view EXCEPT ![c] = 0]}
    /\ Finish(c, "failed")
    /\ UNCHANGED <<tags, revs, cache>>

\* The user locks the vault, or it has been idle for too long.
Lock(c) ==
    /\ pc[c] = "idle"
    /\ view' = [view EXCEPT ![c] = 0]
    /\ told' = <<>>
    /\ UNCHANGED <<tags, revs, cache, pc, op, got, next, stored>>

\* The account is disconnected, or connected again: the vault is locked and
\* nothing of the file is kept.
Disconnect(c) ==
    /\ pc[c] = "idle"
    /\ view' = [view EXCEPT ![c] = 0]
    /\ cache' = [cache EXCEPT ![c] = NoCache]
    /\ told' = <<>>
    /\ UNCHANGED <<tags, revs, pc, op, got, next, stored>>

\* The file gets a new tag without a new revision: it is renamed or moved.
Touch ==
    /\ server.tag < MaxTag
    /\ tags' = Append(tags, server.rev)
    /\ told' = <<>>
    /\ UNCHANGED <<revs, cache, view, pc, op, got, next, stored>>

Next ==
    \/ Touch
    \/ \E c \in Clients :
          \/ BeginUnlock(c)
          \/ BeginSync(c)
          \/ BeginBackup(c)
          \/ BeginPut(c)
          \/ BeginRemove(c)
          \/ BeginImport(c)
          \/ ReadMetadata(c)
          \/ Download(c)
          \/ Recheck(c)
          \/ PutCommits(c)
          \/ PutRefused(c)
          \/ PutAnswered(c)
          \/ RequestFails(c)
          \/ Lock(c)
          \/ Disconnect(c)

Spec == Init /\ [][Next]_vars

-----------------------------------------------------------------------------
(* Properties *)

\* What a client has cached under a tag is the revision the file had with that
\* tag, so a PUT that carries the tag replaces just what the client has read.
CacheIsTrue ==
    \A c \in Clients :
        cache[c].tag # 0 =>
            cache[c].tag <= Len(tags) /\ cache[c].rev = tags[cache[c].tag]

\* Every saved edit was made from the revision just before it: no edit of
\* another client is discarded, whatever answers were lost.
EditsFollowEachOther ==
    \A r \in 2..Len(revs) : revs[r].on = r - 1

\* An edit is saved only onto the entries its client had when the edit was
\* asked for, not onto entries that arrived while it was being carried out.
EditsWhatWasShown ==
    \A r \in 2..Len(revs) :
        revs[r].seen \in 1..(r - 1) /\ Body(revs[r].seen) = Body(r - 1)

\* An edit that answers "saved" has become the revision its client now shows,
\* and one that answers "conflict" has changed nothing; only one that fails may
\* have become a revision.
AnswersAreTrue ==
    [][\A c \in Clients :
          /\ told' = <<c, "saved">> =>
                /\ stored[c] # 0 /\ Body(stored[c]) = next[c]
                /\ view'[c] = stored[c]
          /\ told' = <<c, "conflict">> => stored[c] = 0]_vars
=============================================================================
