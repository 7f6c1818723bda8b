------------------------------ MODULE LocalVault ------------------------------
(***************************************************************************)
(* The local encrypted vault: LocalVault and VaultSource of vault.rs.      *)
(*                                                                         *)
(* Several handles (a desktop window, an agent, the vault command) share   *)
(* one vault file and one backup file.  The threads of a handle share its  *)
(* mutex and the vault it has unlocked; handles share only the files and   *)
(* the lock file beside the vault.  A key stands for the salt it was       *)
(* derived with, a sealed payload for the entry it was sealed for and its  *)
(* value, a random version for a number never drawn before.                *)
(***************************************************************************)
EXTENDS Naturals, FiniteSets

CONSTANTS
    Handles,    \* the VaultSources on one vault file, each in its process
    Editors,    \* threads that edit, create, back up and recover
    Readers,    \* threads that sync: they read a version, then its value
    HandleOf,   \* the handle each thread uses
    Ids,        \* entry ids
    Values,     \* payloads
    None,       \* no thread, no payload
    Ops,        \* the operations that editors call
    MaxVersion, \* bound: versions drawn
    MaxSalt,    \* bound: vaults created
    MaxFaults   \* bound: failed calls, crashes, files lost

Callers  == Editors \cup Readers
Versions == 1..MaxVersion
Paths    == {"vault", "backup"}
Payloads == [id : Ids, value : Values]

ASSUME NamesAssumption ==
    /\ None \notin Callers \cup Values \cup Payloads
    /\ HandleOf \in [Callers -> Handles]
    /\ IsFiniteSet(Ids)
    /\ Ops \subseteq {"put", "remove", "import", "backup", "create", "recover"}
ASSUME BoundsAssumption ==
    MaxVersion \in Nat /\ MaxSalt \in Nat /\ MaxFaults \in Nat

\* What a vault file holds: the salt, the manifest (a version for each entry, 0
\* when there is none) and the sealed payload of each version.
Envelopes == [salt    : 0..MaxSalt,
              entries : [Ids -> 0..MaxVersion],
              sealed  : [Versions -> Payloads \cup {None}]]

EmptyEnvelope(s) == [salt    |-> s,
                     entries |-> [i \in Ids |-> 0],
                     sealed  |-> [v \in Versions |-> None]]

Edits    == {"put", "remove", "import"}
Requests == [op : Edits \cup {"none", "backup", "create", "recover"},
             ids : SUBSET Ids, value : Values \cup {None}]
NoRequest == [op |-> "none", ids |-> {}, value |-> None]
Labels == {"idle", "flock", "reload", "persist", "readAgain", "createNew",
           "fill", "openNew", "adopt", "reply"}

VARIABLES
    shape,     \* per path: whether the file is "absent", "partial" or "whole"
    disk,      \* per path: what a whole file holds
    access,    \* per handle: "locked", "open", or "idle" after 15 idle minutes
    memory,    \* per handle: the unlocked vault
    mutex,     \* per handle: VaultSource.vault, the thread that has it
    writeLock, \* the thread that has the lock file
    pc, request, answer,  \* per editor: where it is, in which call, what it returns
    carried,   \* per editor: the bytes it is about to write, or the vault to adopt
    undo,      \* per editor: what its edit replaced, to roll back to
    got,       \* per reader: the entry, the version and the value it was given
    drawn,     \* versions drawn so far
    salts,     \* salts drawn so far
    faults,
    valueOf    \* history: the value each version was first saved with

callVars == <<pc, request, answer>>
fileVars == <<shape, disk>>
vars == <<fileVars, access, memory, mutex, writeLock, callVars, carried, undo,
          got, drawn, salts, faults, valueOf>>

NothingRead == [id |-> None, version |-> 0, value |-> None]
NothingToUndo == [version |-> 0, sealed |-> None]

Init ==
    /\ shape = [p \in Paths |-> "absent"]
    /\ disk = [p \in Paths |-> EmptyEnvelope(0)]
    /\ access = [h \in Handles |-> "locked"]
    /\ memory = [h \in Handles |-> EmptyEnvelope(0)]
    /\ mutex = [h \in Handles |-> None]
    /\ writeLock = None
    /\ pc = [c \in Editors |-> "idle"]
    /\ request = [c \in Editors |-> NoRequest]
    /\ answer = [c \in Editors |-> "none"]
    /\ carried = [c \in Editors |-> EmptyEnvelope(0)]
    /\ undo = [c \in Editors |-> NothingToUndo]
    /\ got = [r \in Readers |-> NothingRead]
    /\ drawn = 0 /\ salts = 0 /\ faults = 0
    /\ valueOf = [v \in Versions |-> None]

-----------------------------------------------------------------------------
(* Plausible bugs: each replaces the definition it names, to show that the *)
(* properties notice.                                                      *)

IgnoresWriteLock == TRUE                                    \* WriteLockFree
Overwrites(p)    == TRUE                                    \* Vacant
OldVersions(n)   == 1..n                                    \* FreshVersions
KeepsSuperseded(m, f) == {}                                 \* Superseded
ForgetsPayload(m, ids, u) ==                                \* Undone
    [m EXCEPT !.entries = [i \in Ids |-> IF i \in ids THEN u.version ELSE m.entries[i]]]
KeepsWriteLock(c) == UNCHANGED writeLock                    \* DropWriteLock
KeepsRequest(c) == pc' = [pc EXCEPT ![c] = "idle"] /\ UNCHANGED <<request, answer>>  \* Return

-----------------------------------------------------------------------------
(* The questions the code asks.                                            *)

MutexFree(h)  == mutex[h] = None
WriteLockFree == writeLock = None

\* open(create_new) succeeds.
Vacant(p) == shape[p] = "absent"

\* open_manifest: as many payloads as entries, and every entry has one.
Opens(e) ==
    LET listed == {i \in Ids : e.entries[i] # 0} IN
    /\ Cardinality(listed) = Cardinality({v \in Versions : e.sealed[v] # None})
    /\ \A i \in listed : e.sealed[e.entries[i]] # None

\* verify_all: every payload was sealed for its entry.
VerifiesAll(e) ==
    /\ Opens(e)
    /\ \A i \in Ids : e.entries[i] # 0 => e.sealed[e.entries[i]].id = i

\* The file at p can be opened with the right passphrase, or with the key of a
\* vault that was opened before.
OpensAt(p)      == shape[p] = "whole" /\ Opens(disk[p])
ReloadsAt(p, s) == OpensAt(p) /\ disk[p].salt = s

\* Versions that have never been used.
FreshVersions(n) == (drawn + 1)..(drawn + n)

\* What may be edited: import_new refuses ids that exist, remove those that do not.
Allowed(m, r) ==
    /\ r.op = "import" => \A i \in r.ids : m.entries[i] = 0
    /\ r.op = "remove" => \A i \in r.ids : m.entries[i] # 0

\* The versions of m whose payloads an edit to the versions f drops.
Superseded(m, f) == {m.entries[i] : i \in DOMAIN f}

\* m with the entries of f given the versions of f, 0 to remove them, and the
\* payload x sealed under those versions.
Edited(m, f, x) ==
    [m EXCEPT
        !.entries = [i \in Ids |-> IF i \in DOMAIN f THEN f[i] ELSE m.entries[i]],
        !.sealed  = [v \in Versions |->
            IF \E i \in DOMAIN f : f[i] = v
            THEN [id |-> CHOOSE i \in DOMAIN f : f[i] = v, value |-> x]
            ELSE IF v \in Superseded(m, f) THEN None ELSE m.sealed[v]]]

\* The rollback of a failed edit: the new versions go, the old one comes back.
Undone(m, ids, u) ==
    [m EXCEPT
        !.entries = [i \in Ids |-> IF i \in ids THEN u.version ELSE m.entries[i]],
        !.sealed  = [v \in Versions |->
            IF v = u.version THEN u.sealed
            ELSE IF \E i \in ids : m.entries[i] = v THEN None ELSE m.sealed[v]]]

-----------------------------------------------------------------------------
(* The steps the actions are built from.                                   *)

Fault == faults < MaxFaults /\ faults' = faults + 1

Transition(c, from, to) == pc[c] = from /\ pc' = [pc EXCEPT ![c] = to]

Ask(c, r, label) ==
    /\ r.op \in Ops
    /\ Transition(c, "idle", label)
    /\ request' = [request EXCEPT ![c] = r]
    /\ UNCHANGED answer

\* The call has its result; what it holds is dropped when it returns.
Finish(c, from, result) ==
    /\ Transition(c, from, "reply")
    /\ answer' = [answer EXCEPT ![c] = result]
    /\ UNCHANGED request

GoOn(c, from, to) == Transition(c, from, to) /\ UNCHANGED <<request, answer>>

Return(c) ==
    /\ pc' = [pc EXCEPT ![c] = "idle"]
    /\ request' = [request EXCEPT ![c] = NoRequest]
    /\ answer' = [answer EXCEPT ![c] = "none"]

DropMutex(c) ==
    mutex' = [h \in Handles |-> IF mutex[h] = c THEN None ELSE mutex[h]]

DropWriteLock(c) == writeLock' = IF writeLock = c THEN None ELSE writeLock

\* The file a call creates.
Destination(c) == IF request[c].op = "backup" THEN "backup" ELSE "vault"

-----------------------------------------------------------------------------
(* Unlocking, locking, idling: one critical section each.                  *)

Unlock(h) ==
    /\ MutexFree(h)
    /\ OpensAt("vault")
    /\ access' = [access EXCEPT ![h] = "open"]
    /\ memory' = [memory EXCEPT ![h] = disk["vault"]]
    /\ UNCHANGED <<fileVars, mutex, writeLock, callVars, carried, undo, got,
                   drawn, salts, faults, valueOf>>

\* The guard is emptied: by lock, by is_unlocked when it finds the vault idle,
\* and by any call that check_active refuses.
Relock(h) ==
    /\ MutexFree(h)
    /\ access' = [access EXCEPT ![h] = "locked"]
    /\ memory' = [memory EXCEPT ![h] = EmptyEnvelope(0)]
    /\ UNCHANGED <<fileVars, mutex, writeLock, callVars, carried, undo, got,
                   drawn, salts, faults, valueOf>>

Lock(h)       == access[h] # "locked" /\ Relock(h)
IsUnlocked(h) == access[h] = "idle" /\ Relock(h)

\* Fifteen minutes pass since the last call that touched the vault.
IdleTimeout(h) ==
    /\ MutexFree(h)
    /\ access[h] = "open"
    /\ access' = [access EXCEPT ![h] = "idle"]
    /\ UNCHANGED <<fileVars, memory, mutex, writeLock, callVars, carried, undo,
                   got, drawn, salts, faults, valueOf>>

\* entries: reads the file again, or wipes an idle vault and leaves it in place.
ListEntries(h) ==
    /\ MutexFree(h)
    /\ \/ /\ access[h] = "open"
          /\ ReloadsAt("vault", memory[h].salt)
          /\ memory' = [memory EXCEPT ![h] = disk["vault"]]
       \/ /\ access[h] = "idle"
          /\ memory' = [memory EXCEPT ![h] = EmptyEnvelope(memory[h].salt)]
    /\ UNCHANGED <<fileVars, access, mutex, writeLock, callVars, carried, undo,
                   got, drawn, salts, faults, valueOf>>

-----------------------------------------------------------------------------
(* A sync reads the version of an entry, and later that version's value.   *)

Reload(r) ==
    LET h == HandleOf[r] IN
    /\ MutexFree(h)
    /\ access[h] = "open"
    /\ ReloadsAt("vault", memory[h].salt)
    /\ memory' = [memory EXCEPT ![h] = disk["vault"]]
    /\ UNCHANGED <<fileVars, access, mutex, writeLock, callVars, carried, undo,
                   drawn, salts, faults, valueOf>>

GetVersion(r, i) ==
    /\ Reload(r)
    /\ disk["vault"].entries[i] # 0
    /\ got' = [got EXCEPT ![r] = [id |-> i, version |-> disk["vault"].entries[i],
                                  value |-> None]]

GetValue(r) ==
    LET e == disk["vault"]
        v == got[r].version IN
    /\ Reload(r)
    /\ v # 0 /\ got[r].value = None
    /\ got' = [got EXCEPT ![r] =
           IF e.entries[got[r].id] = v /\ e.sealed[v].id = got[r].id
           THEN [got[r] EXCEPT !.value = e.sealed[v].value]
           ELSE NothingRead]

-----------------------------------------------------------------------------
(* put, remove and import_new: under the mutex and the write lock the file *)
(* is read again, edited in memory and replaced.                           *)

\* The bound on versions: those drawn and those the edits under way will draw.
Promised == drawn + Cardinality({d \in Editors \X Ids :
                /\ pc[d[1]] \in {"flock", "reload"} /\ request[d[1]].op # "remove"
                /\ d[2] \in request[d[1]].ids})

BeginEdit(c, r) ==
    /\ r.op # "remove" => Promised + Cardinality(r.ids) <= MaxVersion
    /\ MutexFree(HandleOf[c])
    /\ access[HandleOf[c]] = "open"
    /\ mutex' = [mutex EXCEPT ![HandleOf[c]] = c]
    /\ Ask(c, r, "flock")
    /\ UNCHANGED <<fileVars, access, memory, writeLock, carried, undo, got,
                   drawn, salts, faults, valueOf>>

Put(c, i, x) == BeginEdit(c, [op |-> "put", ids |-> {i}, value |-> x])
Remove(c, i) == BeginEdit(c, [op |-> "remove", ids |-> {i}, value |-> None])
ImportNew(c, ids, x) == BeginEdit(c, [op |-> "import", ids |-> ids, value |-> x])

LockForUpdate(c) ==
    /\ WriteLockFree
    /\ GoOn(c, "flock", "reload")
    /\ writeLock' = c
    /\ UNCHANGED <<fileVars, access, memory, mutex, carried, undo, got, drawn,
                   salts, faults, valueOf>>

LockFails(c) ==
    /\ Fault
    /\ Finish(c, "flock", "failed")
    /\ UNCHANGED <<fileVars, access, memory, mutex, writeLock, carried, undo,
                   got, drawn, salts, valueOf>>

ReloadFails(c) ==
    /\ ~ReloadsAt("vault", memory[HandleOf[c]].salt)
    /\ Finish(c, "reload", "failed")
    /\ UNCHANGED <<fileVars, access, memory, mutex, writeLock, carried, undo,
                   got, drawn, salts, faults, valueOf>>

Refuse(c) ==
    /\ ReloadsAt("vault", memory[HandleOf[c]].salt)
    /\ ~Allowed(disk["vault"], request[c])
    /\ memory' = [memory EXCEPT ![HandleOf[c]] = disk["vault"]]
    /\ Finish(c, "reload", "failed")
    /\ UNCHANGED <<fileVars, access, mutex, writeLock, carried, undo, got,
                   drawn, salts, faults, valueOf>>

\* The versions an edit gives its entries: one fresh version each, or none.
NewVersions(r) ==
    IF r.op = "remove" THEN {[i \in r.ids |-> 0]}
    ELSE {f \in [r.ids -> FreshVersions(Cardinality(r.ids))] :
             \A i, j \in r.ids : f[i] = f[j] => i = j}

Edit(c) ==
    LET r == request[c]
        m == disk["vault"] IN
    /\ ReloadsAt("vault", memory[HandleOf[c]].salt)
    /\ Allowed(m, r)
    /\ r.op # "remove" => drawn + Cardinality(r.ids) <= MaxVersion
    /\ \E f \in NewVersions(r) :
          memory' = [memory EXCEPT ![HandleOf[c]] = Edited(m, f, r.value)]
    /\ \E i \in r.ids :
          undo' = [undo EXCEPT ![c] =
              IF m.entries[i] = 0 THEN NothingToUndo
              ELSE [version |-> m.entries[i], sealed |-> m.sealed[m.entries[i]]]]
    /\ drawn' = IF r.op = "remove" THEN drawn ELSE drawn + Cardinality(r.ids)
    /\ GoOn(c, "reload", "persist")
    /\ UNCHANGED <<fileVars, access, mutex, writeLock, carried, got, salts,
                   faults, valueOf>>

\* atomic_replace: a temporary sibling is renamed over the file.
Replace(c) ==
    LET m == memory[HandleOf[c]] IN
    /\ shape["vault"] # "absent"
    /\ shape' = [shape EXCEPT !["vault"] = "whole"]
    /\ disk' = [disk EXCEPT !["vault"] = m]
    /\ valueOf' = [v \in Versions |->
           IF valueOf[v] = None /\ m.sealed[v] # None THEN m.sealed[v].value
           ELSE valueOf[v]]
    /\ undo' = [undo EXCEPT ![c] = NothingToUndo]
    /\ Finish(c, "persist", "done")
    /\ UNCHANGED <<access, memory, mutex, writeLock, carried, got, drawn, salts,
                   faults>>

ReplaceFails(c) ==
    /\ Fault
    /\ memory' = [memory EXCEPT ![HandleOf[c]] =
                     Undone(@, request[c].ids, undo[c])]
    /\ undo' = [undo EXCEPT ![c] = NothingToUndo]
    /\ Finish(c, "persist", "failed")
    /\ UNCHANGED <<fileVars, access, mutex, writeLock, carried, got, drawn,
                   salts, valueOf>>

-----------------------------------------------------------------------------
(* create, backup and recover write a new file in place.  create and       *)
(* recover take the mutex only at their end.                               *)

Create(c) ==
    /\ Vacant("vault")
    /\ salts < MaxSalt
    /\ salts' = salts + 1
    /\ carried' = [carried EXCEPT ![c] = EmptyEnvelope(salts + 1)]
    /\ Ask(c, [NoRequest EXCEPT !.op = "create"], "createNew")
    /\ UNCHANGED <<fileVars, access, memory, mutex, writeLock, undo, got, drawn,
                   faults, valueOf>>

Backup(c) ==
    LET h == HandleOf[c] IN
    /\ MutexFree(h)
    /\ access[h] = "open"
    /\ Vacant("backup")
    /\ ReloadsAt("vault", memory[h].salt)
    /\ VerifiesAll(disk["vault"])
    /\ mutex' = [mutex EXCEPT ![h] = c]
    /\ carried' = [carried EXCEPT ![c] = disk["vault"]]
    /\ Ask(c, [NoRequest EXCEPT !.op = "backup"], "createNew")
    /\ UNCHANGED <<fileVars, access, memory, writeLock, undo, got, drawn, salts,
                   faults, valueOf>>

\* recover opens the backup, and then reads it a second time to copy it.
Recover(c) ==
    /\ Vacant("vault")
    /\ OpensAt("backup")
    /\ carried' = [carried EXCEPT ![c] = disk["backup"]]
    /\ Ask(c, [NoRequest EXCEPT !.op = "recover"], "readAgain")
    /\ UNCHANGED <<fileVars, access, memory, mutex, writeLock, undo, got, drawn,
                   salts, faults, valueOf>>

ReadAgain(c) ==
    /\ ReloadsAt("backup", carried[c].salt)
    /\ VerifiesAll(disk["backup"])
    /\ carried' = [carried EXCEPT ![c] = disk["backup"]]
    /\ GoOn(c, "readAgain", "createNew")
    /\ UNCHANGED <<fileVars, access, memory, mutex, writeLock, undo, got, drawn,
                   salts, faults, valueOf>>

ReadAgainFails(c) ==
    /\ ~(ReloadsAt("backup", carried[c].salt) /\ VerifiesAll(disk["backup"]))
    /\ Finish(c, "readAgain", "failed")
    /\ UNCHANGED <<fileVars, access, memory, mutex, writeLock, carried, undo,
                   got, drawn, salts, faults, valueOf>>

CreateNew(c) ==
    /\ Vacant(Destination(c))
    /\ shape' = [shape EXCEPT ![Destination(c)] = "partial"]
    /\ GoOn(c, "createNew", "fill")
    /\ UNCHANGED <<disk, access, memory, mutex, writeLock, carried, undo, got,
                   drawn, salts, faults, valueOf>>

CreateNewFails(c) ==
    /\ ~Vacant(Destination(c))
    /\ Finish(c, "createNew", "failed")
    /\ UNCHANGED <<fileVars, access, memory, mutex, writeLock, carried, undo,
                   got, drawn, salts, faults, valueOf>>

Written(c) ==
    /\ shape' = [shape EXCEPT ![Destination(c)] = "whole"]
    /\ disk' = [disk EXCEPT ![Destination(c)] = carried[c]]

Fill(c) ==
    /\ Written(c)
    /\ CASE request[c].op = "create"  -> GoOn(c, "fill", "adopt")
         [] request[c].op = "recover" -> GoOn(c, "fill", "openNew")
         [] OTHER                     -> Finish(c, "fill", "done")
    /\ UNCHANGED <<access, memory, mutex, writeLock, carried, undo, got, drawn,
                   salts, faults, valueOf>>

\* The file stays as it is when writing fails, whole when only sync_all did.
FillFails(c) ==
    /\ Fault
    /\ Written(c) \/ UNCHANGED fileVars
    /\ Finish(c, "fill", "failed")
    /\ UNCHANGED <<access, memory, mutex, writeLock, carried, undo, got, drawn,
                   salts, valueOf>>

\* recover unlocks what it has written, which others may have edited since.
OpenNew(c) ==
    /\ OpensAt("vault")
    /\ carried' = [carried EXCEPT ![c] = disk["vault"]]
    /\ GoOn(c, "openNew", "adopt")
    /\ UNCHANGED <<fileVars, access, memory, mutex, writeLock, undo, got, drawn,
                   salts, faults, valueOf>>

OpenNewFails(c) ==
    /\ ~OpensAt("vault")
    /\ Finish(c, "openNew", "failed")
    /\ UNCHANGED <<fileVars, access, memory, mutex, writeLock, carried, undo,
                   got, drawn, salts, faults, valueOf>>

Adopt(c) ==
    /\ MutexFree(HandleOf[c])
    /\ access' = [access EXCEPT ![HandleOf[c]] = "open"]
    /\ memory' = [memory EXCEPT ![HandleOf[c]] = carried[c]]
    /\ Finish(c, "adopt", "done")
    /\ UNCHANGED <<fileVars, mutex, writeLock, carried, undo, got, drawn, salts,
                   faults, valueOf>>

Reply(c) ==
    /\ pc[c] = "reply"
    /\ Return(c)
    /\ DropMutex(c)
    /\ DropWriteLock(c)
    /\ carried' = [carried EXCEPT ![c] = EmptyEnvelope(0)]
    /\ UNCHANGED <<fileVars, access, memory, undo, got, drawn, salts, faults,
                   valueOf>>

-----------------------------------------------------------------------------
(* The process of a handle dies: memory and locks go, files stay.          *)
Crash(h) ==
    LET dead == {c \in Editors : HandleOf[c] = h} IN
    /\ Fault
    /\ access' = [access EXCEPT ![h] = "locked"]
    /\ memory' = [memory EXCEPT ![h] = EmptyEnvelope(0)]
    /\ mutex' = [mutex EXCEPT ![h] = None]
    /\ writeLock' = IF writeLock \in dead THEN None ELSE writeLock
    /\ pc' = [c \in Editors |-> IF c \in dead THEN "idle" ELSE pc[c]]
    /\ request' = [c \in Editors |-> IF c \in dead THEN NoRequest ELSE request[c]]
    /\ answer' = [c \in Editors |-> IF c \in dead THEN "none" ELSE answer[c]]
    /\ carried' = [c \in Editors |-> IF c \in dead THEN EmptyEnvelope(0) ELSE carried[c]]
    /\ undo' = [c \in Editors |-> IF c \in dead THEN NothingToUndo ELSE undo[c]]
    /\ got' = [r \in Readers |-> IF HandleOf[r] = h THEN NothingRead ELSE got[r]]
    /\ UNCHANGED <<fileVars, drawn, salts, valueOf>>

\* A file is lost, or the user removes it, while no call is writing it.  Were it
\* removed and another vault put in its place between the reload and the replace
\* of one edit, that edit would bring the removed vault back.
Lose(p) ==
    /\ Fault
    /\ shape[p] # "absent"
    /\ \A c \in Editors : pc[c] \in {"persist", "fill"} => Destination(c) # p
    /\ shape' = [shape EXCEPT ![p] = "absent"]
    /\ disk' = [disk EXCEPT ![p] = EmptyEnvelope(0)]
    /\ UNCHANGED <<access, memory, mutex, writeLock, callVars, carried, undo,
                   got, drawn, salts, valueOf>>

EditStep(c) ==
    \/ LockForUpdate(c) \/ LockFails(c)
    \/ ReloadFails(c) \/ Refuse(c) \/ Edit(c)
    \/ Replace(c) \/ ReplaceFails(c)

CreateStep(c) ==
    \/ ReadAgain(c) \/ ReadAgainFails(c)
    \/ CreateNew(c) \/ CreateNewFails(c)
    \/ Fill(c) \/ FillFails(c)
    \/ OpenNew(c) \/ OpenNewFails(c)
    \/ Adopt(c)

Step(c) == EditStep(c) \/ CreateStep(c) \/ Reply(c)

Call(c) ==
    \/ Create(c) \/ Backup(c) \/ Recover(c)
    \/ \E i \in Ids : Remove(c, i) \/ \E x \in Values : Put(c, i, x)
    \/ \E ids \in (SUBSET Ids) \ {{}}, x \in Values : ImportNew(c, ids, x)

HandleStep(h) ==
    Unlock(h) \/ Lock(h) \/ IsUnlocked(h) \/ IdleTimeout(h) \/ ListEntries(h)

Next ==
    \/ \E c \in Editors : Call(c) \/ Step(c)
    \/ \E r \in Readers : GetValue(r) \/ \E i \in Ids : GetVersion(r, i)
    \/ \E h \in Handles : HandleStep(h) \/ Crash(h)
    \/ \E p \in Paths : Lose(p)

Spec == Init /\ [][Next]_vars

(***************************************************************************)
(* A call goes on whenever it can.  It waits for the mutex and for the     *)
(* lock file, which others may take before it any number of times but not  *)
(* for ever.                                                               *)
(***************************************************************************)
FairSpec == Spec /\ \A c \in Editors : SF_vars(Step(c))

-----------------------------------------------------------------------------
(* Properties.                                                             *)

\* Every variable has its type, and a thread has a request while it is in a call.
TypeOK ==
    /\ shape \in [Paths -> {"absent", "partial", "whole"}]
    /\ disk \in [Paths -> Envelopes]
    /\ access \in [Handles -> {"locked", "open", "idle"}]
    /\ memory \in [Handles -> Envelopes]
    /\ mutex \in [Handles -> Editors \cup {None}]
    /\ writeLock \in Editors \cup {None}
    /\ pc \in [Editors -> Labels]
    /\ request \in [Editors -> Requests]
    /\ answer \in [Editors -> {"none", "done", "failed"}]
    /\ carried \in [Editors -> Envelopes]
    /\ undo \in [Editors -> [version : 0..MaxVersion, sealed : Payloads \cup {None}]]
    /\ got \in [Readers -> [id : Ids \cup {None}, version : 0..MaxVersion,
                            value : Values \cup {None}]]
    /\ drawn \in 0..MaxVersion /\ salts \in 0..MaxSalt /\ faults \in 0..MaxFaults
    /\ valueOf \in [Versions -> Values \cup {None}]
    /\ \A c \in Editors : pc[c] = "idle" <=> request[c] = NoRequest

\* Every entry has a payload sealed for it, and there is no other payload.
Sound(e) ==
    /\ \A i \in Ids : e.entries[i] # 0 =>
          /\ e.sealed[e.entries[i]] # None
          /\ e.sealed[e.entries[i]].id = i
    /\ \A v \in Versions : e.sealed[v] # None =>
          e.entries[e.sealed[v].id] = v

\* Every payload of e is the one its version was saved with.
AsSaved(e) ==
    \A v \in Versions : e.sealed[v] # None => e.sealed[v].value = valueOf[v]

\* A whole file, the vault or a backup of it, always opens and verifies: no
\* sequence of edits, failed edits and crashes writes a manifest that
\* open_manifest or verify_all would reject, which would lock the user out.
FilesAreSound ==
    \A p \in Paths : shape[p] = "whole" => Sound(disk[p]) /\ VerifiesAll(disk[p])

\* A vault that is unlocked and not being edited remembers only entries that
\* were saved: a failed put, remove or import was rolled back completely.
MemoryWasSaved ==
    \A h \in Handles :
        access[h] = "open" /\ (MutexFree(h) \/ pc[mutex[h]] \in {"flock", "reply"}) =>
            Sound(memory[h]) /\ AsSaved(memory[h])

\* The value a sync is given is the one that the version it asked for was saved
\* with, whatever was edited, recovered or locked between its two reads: the
\* engine takes an unchanged version for an unchanged secret.
ReadsAreTrue ==
    \A r \in Readers :
        got[r].value # None => got[r].value = valueOf[got[r].version]

\* A backup stays as it was written until it is lost: neither another backup
\* nor anything else overwrites it.
BackupsStay ==
    [][shape["backup"] = "whole" =>
          \/ shape'["backup"] = "whole" /\ disk'["backup"] = disk["backup"]
          \/ shape'["backup"] = "absent"]_vars

\* Every call returns: waiting for the mutex and the lock file never ends in a
\* deadlock, and no error path keeps either.
CallsReturn == \A c \in Editors : pc[c] # "idle" ~> pc[c] = "idle"
=============================================================================
