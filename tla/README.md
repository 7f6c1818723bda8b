# TAR Vault Sync in TLA+

Formal models of TAR Vault Sync, a program that copies secrets from a source
(an encrypted vault file, a vault on a cloud drive, Azure Key Vault) to local
targets (files, keys of env/properties/JSON/YAML files, Docker inputs, Git
Credential Manager), and keeps the targets up to date as the source rotates.

Source references are to `src/*.rs` of the repository.

## The system

| Component | State | Operations | Hard behaviour |
| --- | --- | --- | --- |
| Engine (`core.rs`) | `state.json` and its copy in memory (applied version, last status, disabled flag per binding), a gate per binding, a gate per target | `sync`, `enable_binding`, `acknowledge_restart`, `invalidate_bindings` | calls of several tasks, awaits between a check and its use, crashes between two writes |
| Event log (`core.rs`, `append_event`) | `events.ndjson`, `events.ndjson.1` | append with rotation; readers in `ipc.rs` and `desktop.rs` | appends of different bindings are not serialized |
| Scheduler (`scheduler.rs`) | attempt counter, delay | one task per binding: interval, bounded retry | retry bound, abort at any await |
| IPC (`ipc.rs`) | none | status, events, trigger, enable, acknowledge | requests race with the scheduler |
| Targets (`targets.rs`) | the files | validate, missing?, render, atomic replacement | several bindings in one file, files removed or edited by others |
| Local vault (`vault.rs`) | the envelope on disk, manifest and payloads in memory, idle clock | create, unlock, put, remove, import, get_version, get_value, backup, recover | two processes, failed writes, crash in creation, idle lock |
| Remote vault (`drive.rs`) | cached tag and body, token | read, conditional replace, create | lost answers, concurrent writers |
| Source catalogue (`sources.rs`) | `sources.json`, connections, open sources | add, remove, reconnect, route | references to a connection from elsewhere: bindings, the selected vault, running operations |
| Azure source (`azure.rs`) | none | newest version over pages, value, CLI token | equal creation times, expiry, late answers |
| Cloud credentials (`cloud_auth.rs`) | chunks and head in the credential store | save, read, disconnect, refresh | failure in the middle of a save |
| Desktop (`desktop.rs`, `drive_ui.rs`) | the configuration, its bytes as loaded, the scheduler's tasks, one pending call | save configuration, trigger, enable, acknowledge, vault operations | abort and restart of the schedules, other processes |
| CLI (`main.rs`), browser import (`browser_import.rs`) | none | run an agent, add a binding, import a CSV | configuration written without a lock |

How they interact: the scheduler's tasks, IPC requests and the window's buttons
all call the engine; the engine calls the catalogue, which routes to a vault or
to Azure; the engine then calls the target, writes `state.json` and appends an
event. The window replaces the engine when the configuration is saved, and the
user and other programs edit vaults and target files meanwhile.

What makes each component correct: the engine never runs two calls of a
binding at once, loses no update of a shared file, records a version only after
it was written, never goes back, honours the disabled flag and retries until it
converges; the event log stays parseable; the scheduler retries a bounded number
of times; a vault edit is all or nothing and never overwrites somebody else's,
in a file or in a drive; a workspace can be opened again whatever was saved,
added and removed, and its bindings go on reading the vault they were saved for;
a saved credential is either the old or the new one; the Azure version chosen is
the newest; setting one key of a file keeps the others.

## Modules

| Module | Models |
| --- | --- |
| `SyncEngine` | the engine with its callers, its sources and its targets |
| `SecretDelivery` | the abstract service: rotate, deliver, record, suspend, resume, forget |
| `SyncEngineRefinement` | the mapping by which the engine implements `SecretDelivery` |
| `MCSyncEngine` | the instances TLC checks |
| `SyncEngineProofs` | type correctness, proved |
| `SyncEngineSafety` | gates, versions, contents and the disabled flag, and that the engine implements `SecretDelivery`, proved |
| `EventLog` | appends to `events.ndjson` by several bindings, rotation, readers |
| `MCEventLog` | the instances TLC checks |
| `EventLogProofs` | the log's types and its bounded size, proved |
| `LocalVault` | the vault file, its handles, threads, locks, backups and recoveries |
| `VaultStore` | the abstract service: one map of secrets, edited atomically |
| `LocalVaultRefinement` | the mapping by which the local vault implements `VaultStore` |
| `MCLocalVault` | the instances TLC checks |
| `LocalVaultProofs` | type correctness, proved |
| `LocalVaultSafety` | sound files, complete rollbacks, true reads, kept backups, and that the vault implements `VaultStore`, proved |
| `RemoteVault` | one vault file in a cloud drive, edited by several clients with conditional writes |
| `SharedVault` | the abstract service: one history, extended only by who shows its last state |
| `RemoteVaultRefinement` | the mapping by which the remote vault implements `SharedVault` |
| `MCRemoteVault` | the instance TLC checks |
| `RemoteVaultProofs` | all of the remote vault's properties, proved |
| `Workspace` | the window: configuration, catalogue, schedules, buttons, `config add` beside it |
| `MCWorkspace` | the instances TLC checks |
| `WorkspaceProofs` | all but one of the workspace's properties, proved |
| `CredentialStore` | a drive's sign-in in the operating system's credential store |
| `AzureVersions` | the list of versions of an Azure secret and the token command |
| `KeyValueFile` | setting one key of a `.env` or `.properties` file |
| `MCProviders` | an instance of the three above, one at a time |
| `ProviderProofs` | the properties of the sign-in, of the list of versions and of the key-value file, proved |

### SyncEngine

A *task* runs one call at a time: each binding has the scheduler's task, which
only syncs that binding, and a client may sync, enable or acknowledge any. `pc`
says between which two steps of the call the task is; the steps end where
another task, the outside world or a crash can get in between:

| `pc` | the call is | next action |
| --- | --- | --- |
| `waitFlight` | waiting for its binding's gate (`core.rs:609`) | `EnterFlight` |
| `entered` | inside the gate | `SkipDisabled`, `Probe`, `EnableBinding`, `AcknowledgeRestart` |
| `version` | awaiting `get_version` | `ReadVersion`, which also compares |
| `value` | awaiting `get_value` | `ReadValue` |
| `waitTarget` | waiting for its target's gate (`core.rs:793`) | `BeginApply`, which reads the file and renders |
| `write` | about to replace the file | `WriteTarget` |
| `commit` | about to record the version | `CommitApplied` (state.json), `PublishApplied` (memory) |
| `record` | back from `sync_inner` | `RecordStatus` (state.json), `PublishStatus` (memory) |
| `event` | appending its event | `AppendEvent` |

A value is identified with the version it had, so `content[x][b]` is the version
of `b`'s secret that file `x` holds, and 0 is none. `mem` and `disk` are
`Engine.state` and `state.json`; `stateLock` is the mutex that covers the
replacement of the file and the assignment to memory. A crash may come between
any two steps; after it memory is loaded from the file. `Reconfigure` is
`save_config`: refused while a client's call is pending, aborting the scheduler's
tasks at an await, forgetting the changed bindings, starting a new engine.

Every way to fail is a step that spends one of `MaxFaults`: source errors, write
errors of the target and of `state.json`, crashes, reconfigurations and
outside edits of a file. The policies (`Alert`, `Disable`, `Recreate`), the
rendering styles (a *whole* file; a key/value *pair* that is added when absent; a
*pointer* that must exist) and whether the source still serves superseded
versions (Azure does, a vault refuses) are constants of each binding.

Left out of this module: error categories (all failures read `Failed`),
timestamps, the contents of events, delays, validation of paths and names, and
two bindings that write the *same key*. A Git credential behaves as a pair in a
target that never goes missing. `validate` and `is_missing` are one step, and so
are the reading of the version and its comparison: nothing another task does
between them can change their result.

### EventLog

A *writer* is a binding; it has at most one append under way, but nothing keeps
two bindings from appending at once. `pc` follows `append_event`: `measure`
(`metadata`), `checkOld` (`old.exists()`), `removeOld`, `rename`, `open`,
`record` and `newline` (the two `write_all`). A file is what a reader can tell
of it: which finished lines parse, whether what follows the last newline does,
and the size. `Files` are identities: a writer that has a file open goes on
writing to it after another renamed or removed it. `RemoveOld` and `RenameLive`
fail when another writer was faster, and a rename replaces a file that got the
old name in between. `MeasureFails` is a `metadata` call that fails on a log that
is there: it counts as not full, and `blind` counts how often that happened. `Fail`
fails any other operation, a record's write possibly leaving a part; `Crash` ends
all appends. `Readable` is what the Events request
and the Activity page need: each of the last `ReadLines` lines parses.

What an event says, and who reads it over which connection, is left out.

### LocalVault

A *handle* is a `VaultSource` in a process of its own: the window with its
syncs, or the vault command. The threads of a handle share its mutex
(`mutex[h]`, `VaultSource.vault`) and the vault it has unlocked (`memory[h]`,
the decrypted manifest and the sealed payloads); handles share the vault file,
the backup file and the lock file beside the vault (`writeLock`). *Editors* call
`put`, `remove`, `import_new`, `create`, `backup` and `recover`; *readers* are
syncs, which read the version of an entry and, later, that version's value.

| `pc` | the call is | next action |
| --- | --- | --- |
| `flock` | holding the mutex, waiting for the lock file | `LockForUpdate`, `LockFails` |
| `reload` | about to read the file again | `Edit`, `Refuse`, `ReloadFails` |
| `persist` | edited in memory, about to replace the file | `Replace`, `ReplaceFails` (which rolls back) |
| `readAgain` | recovering: the backup was opened, about to be read again | `ReadAgain`, `ReadAgainFails` |
| `createNew` | about to create a file | `CreateNew`, `CreateNewFails` |
| `fill` | writing the file it created | `Fill`, `FillFails` |
| `openNew` | recovering: about to unlock what it wrote | `OpenNew`, `OpenNewFails` |
| `adopt` | waiting for the mutex to take the new vault | `Adopt` |
| `reply` | done | `Reply`, which drops the locks |

Reading calls are one step: they hold the mutex and read the file once. So are
unlocking and locking. `IdleTimeout` makes a vault idle at any time; what a call
on an idle vault does is told apart: most empty the guard (`IsUnlocked` and
`Relock`), `entries` wipes the vault and leaves it in place (`ListEntries`).

An envelope is a salt, a version for each entry and a sealed payload for each
version. A key stands for the salt it was derived with: a vault whose salt
changed under an unlocked handle cannot be read with its key. A sealed payload
stands for what authenticated decryption would tell: the entry it was sealed
for and its value. A random version is a number that was never drawn before.
`Opens` and `VerifiesAll` are the two checks of the manifest; a file being
created is `partial`, and stays so when writing fails or the process dies.

Left out: wrong passphrases, invalid ids and payloads over the size limit (they
are refused before anything changes), the temporary sibling of a replacement,
which never has the vault's name, losing writes of the operating system in a
power failure. The branches for a vault on a cloud drive are in `RemoteVault`. `Lose` removes a
file at any time but while a call is about to replace or fill it: were another
vault put in its place in that moment, the replacement would bring back the
removed one, which no lock of the program prevents. `MaxVersion` bounds the
versions drawn, including those that calls under way will draw, `MaxSalt` the
vaults created, `MaxFaults` failed calls, crashes and lost files.

### RemoteVault

A *client* is one `VaultSource` with its `RemoteFile`. Its mutex is held during a
whole operation, so a client does one thing at a time, but every request is a
step of its own and other clients, on this device or another, act in between.

| `pc` | the operation is | next action |
| --- | --- | --- |
| `metadata` | asking for the file's tag (`drive.rs:404`) | `ReadMetadata`, which uses the cached body when the tag is the same |
| `download` | asking for the body | `Download` |
| `recheck` | asking for the tag again (`drive.rs:448`) | `Recheck` |
| `put` | edited in memory, about to send the conditional PUT | `PutCommits`, `PutRefused` |
| `answer` | committed by the service, waiting for its answer | `PutAnswered` |

`RequestFails` may end any of these: a lost request, and in `answer` a lost
answer. 401 and 403 become `VaultError::Locked` and close the vault; 409 and 412
become a conflict. The service gives the file a new tag at each change, also for
a rename (`Touch`), and keeps the body as a *revision*: the version of every
entry, with who saved it after which. A Google Drive download is pinned to a
revision (`Pinned`); a OneDrive address may serve the revision that has
replaced it. After a lost answer the client's cached tag is old: its edits
conflict until an unlock or a scheduled read has brought the manifest forward.

`SharedVault` is what the clients may rely on: one history of states, a client
shows one of them and never an earlier one than before, and only who shows the
last state adds the next. `RemoteVaultRefinement` maps history to the revisions
and what is shown to the manifest in memory.

Left out: ciphertext, ids and names, the folder listing, and the size limit.

### Workspace

What `SyncEngine` takes for given, that the engine has a configuration, sources
and one schedule per binding, is made and changed here: by the window
(`desktop.rs`), the catalogue (`sources.rs`), the schedules (`scheduler.rs`) and
the command `config add` (`main.rs`), which runs in another process and takes no
lock. A binding is its source reference; a sync begins, may reach the part that
abort cannot stop (`apply`: target written and version recorded without an
await), and ends.

| State | In the code |
| --- | --- |
| `config`, `applied`, `catalogue` | `shared/config.json`, the recorded versions of `state.json`, `local/sources.json` |
| `window`, `known`, `draft` | where `save_config` is, `config_bytes`, the configuration it saves |
| `engine`, `schedules` | the configuration of `Engine`, the tasks of `spawn_schedules` |
| `call`, `vaultCall`, `selected` | `pending_sync`, `pending_vault`, `selected_source` |
| `command`, `raced` | what `config add` has read; whether it replaced another configuration than that |

`save_config` is a sequence of steps: `BeginSave` (its checks, with one binding
added, removed, changed or renamed, the last being two changes in one save),
`AbortSchedule` one by one, `ForgetChanged` (`invalidate_bindings`), `WriteConfig`;
each of the last two may give up, and the old engine's schedules start again. The window's
thread runs no other button meanwhile, but schedules that have not been aborted,
a vault operation and `config add` go on. `Routable` and `Reads` are `validate_ref`
and `routed`: whether a reference leads to a vault, and to which one. The
catalogue in memory and on disk are one variable: the window holds the
workspace's `agent.lock`, so nobody else writes it, and a failed save changes
neither.

Left out: what a sync does inside, delays, the limit of 64 connections, target
checks, and drawing.

### CredentialStore, AzureVersions, KeyValueFile

`CredentialStore` is `save`, `read_credential`, `access_token` and `disconnect` of
`cloud_auth.rs` over a credential store of which every call may fail, with a
process that may die between any two, and a provider that rotates refresh tokens
and may void the old one at once. A generation is identified with the token it
holds. Calls for one credential do not overlap: `access_token` holds
`REFRESH_LOCK`, and `disconnect` is called with the vault's mutex held or by a
form that runs one operation at a time. A failed call is taken to have no effect;
chunks that a failed clean-up leaves behind are not named by any head.

`AzureVersions` is `get_version` and `get_value` of `azure.rs`, page by page, with
the `az` command, the thread that reads its output and its deadline before each
request. The vault lists versions in an order that says nothing of their age,
and versions are added, enabled and disabled between pages.

`KeyValueFile` is `render_key_value` of `targets.rs` on lines: the key it finds in
each, what it replaces, appends and refuses. A value is the text that stands in
the file: one that was found there, or a secret encoded in the file's style
(`Found`, `Encoded`). What a program makes of an encoded secret is left open,
because programs differ and the code does not meet all of them: blanks before a
`.properties` value are written as they are and dropped by a reader, a `.env` reader
may take single quotes literally and the doubled backslash with them, and a line
of a `.properties` file whose key is `export` and is followed by a blank is
written again as `export export=...` (`FormOf`). So the property says where the
encoded secret stands and what happens to everything else, not that the secret
reads back. The code takes every line by itself; to the program the file is for, a
value may go on in the next line (`goesOn`), also a secret in which that program
takes an escaped quote for the end of the value (`Opening`), and the property then
promises less (below).

## What is checked

| Run | Instance | Shows |
| --- | --- | --- |
| `engine_shared` | two scheduled bindings, keys of one env file; 2 versions, 1 fault, with fairness | types, target serialized, no lost update, recorded implies written; calls return, bindings converge, the engine implements `SecretDelivery` |
| `engine_callers` | a whole-file and a pointer binding, scheduler and one client; 2 versions, 1 fault | single flight, payload on demand, disabled bindings untouched, only enable re-enables, writes never go back |
| `engine_restart_notice` | one Docker binding, one client, 1 fault | **violated**: a restart notice is lost |
| `event_log_shared` | two bindings, files of two lines, 1 failure or crash | bounded size; once one binding appends alone the log recovers and rotation keeps the history |
| `event_log_parse` | two bindings, no failure | **violated**: two events share a line |
| `vault_edits` | window and command, two entries; 2 versions, 1 vault, backup and recovery, 2 faults | types, the vault implements `VaultStore` |
| `vault_reads` | a sync beside a window and a command, one entry with two payloads; 2 versions, 2 vaults, 1 fault | the value a sync gets belongs to the version it asked for; whole files open, memory was saved, backups stay |
| `vault_returns` | two threads of the window and a command; 1 version, 1 fault, with fairness | every call returns |
| `remote_vault` | two clients, one entry, OneDrive; 3 revisions, 4 tags | types, caches are true, no edit is discarded or made unseen, answers are true, the file implements `SharedVault` |
| `workspace` | two bindings, an Azure vault and a drive's; 3 changes, 1 fault, 1 retry, with fairness | types, the workspace can be opened, nothing is repointed, recorded versions are of the present source, one schedule each, syncs keep coming |
| `workspace_alias` | one binding, 2 changes | **violated**: a cloud connection takes the name of an Azure vault in use |
| `providers` | a sign-in of two chunks with 3 tokens and 2 troubles; 4 Azure versions on pages of 2; files of up to 2 lines with 2 keys, one of them `export` | a sign-in stays readable and answers are kept; the newest version or none; other keys and lines are kept |

Bounds. Two bindings are enough for the gates, which are per binding and per
target, and for one binding's state update to interfere with another's; one
scheduler task and one client are two callers of the same binding. Two versions
give one rotation in the middle of a call; one fault is an outside edit, a
crash, a reconfiguration or a failed step anywhere; the safety properties are
proved for any number. Nothing is constrained besides
`MaxVersion` and `MaxFaults`, which guard `Rotate` and `Fault`. The log's files hold two
lines so that a third append rotates, and a reader looks at two. The engine and
the log have no deadlock: the scheduler can always call again.

For the vault two handles are two processes; the third thread of `vault_returns`
makes two wait for one mutex. Two versions are an import of
two entries at once, or an entry rotated or created beside another's edit; two
faults are a failed edit followed by a crash, or a lost vault followed by a
failed recovery; a second salt puts a new vault where a
handle still has the old one open. Entries, payloads and, in
`vault_edits`, the two processes with their handles are interchangeable, so these
runs use symmetry; `vault_returns`, which checks liveness, does not. Deadlock is not checked there: after a
creation that failed or died half way the partial file is in the way of every
call until the user removes it, and `MaxFaults` may be spent.

For the remote vault two clients are enough for one to save between any two
requests of the other; three revisions are the created one and two edits, so an
edit can follow another's or a lost answer's, and a fourth tag renames the file
in between. One entry suffices because bodies are compared as a whole. The
downloads of a OneDrive address include those of the pinned one.

Three changes in the workspace make a binding with a connection and then edit one
of them, or let `config add` interleave with a save; two bindings are one that
changes beside one that does not. The code retries 3 times, the instance once:
only whether retries end matters. The names typed into the cloud form differ in
this instance from the Azure vault that bindings name directly; `workspace_alias`
shows why.

In `providers`, four versions on pages of two make three pages with one added
while the list is read, so that twins are on different pages; two chunks are one
that is written and one that fails; three tokens are two rotations in a row. The
part that runs first runs alone, since the three share no state. `CHECK_DEADLOCK
FALSE`: a sign-in whose provider has revoked it, or with no trouble left, may
rest for good.

Fairness. In `engine_shared`, the runtime runs every task that can go on; a
call waiting at a `tokio` mutex is served in order of arrival, so a gate that is
freed again and again is eventually its own: strong fairness of each task's
steps. The scheduler's loop sleeps and calls again for ever: weak fairness of
`TriggerSync(b, b)`. Clients owe no call, and the environment owes nothing.
Faults are bounded, so convergence says: once faults and rotations stop.
In `vault_returns` each thread has strong fairness of its steps: neither the
standard mutex nor the lock file promises an order, but each is held for a few
file operations and then dropped, and the model lets others take it any number
of times before.

In `workspace` sleeps end and syncs return (`CallsReturn` of `SyncEngine`): weak
fairness of each binding's schedule. The window's thread goes on with a save:
strong fairness of `Save`, because an abort requested while a schedule applies
takes effect at its next await, which comes and goes. Users, buttons and `config
add` owe nothing, and saves are bounded by `MaxChanges`, so `SyncsKeepComing`
says: once the user stops changing bindings, each one left is synced for ever.

`event_log_shared` needs no fairness: `ReaderRecovers` and `HistoryKept` speak of
behaviours in which, from some time on, one binding appends again and again and
no other does.

The violated runs are disagreements between the program and what its documents
and comments say of it:

* *Restart notices.* "Docker writes report a restart requirement" (qa-phase2-5.md).
  The requirement is only the last status. The applied version and the status
  are two writes of `state.json`; after a crash between them, or when a later
  check fails and overwrites the status, the next sync says `Unchanged`.
* *Events.* "Events are parseable NDJSON" (requirements.md). Two bindings that
  append at once can put both records on one line.
* *Aliases.* "Never repoint an existing binding by introducing an alias with the
  same ID" (desktop.rs:868). The form for files and Azure vaults checks it, the
  cloud form does not: a drive connected under the name of an Azure vault that
  a binding uses directly makes the binding's reference invalid, its syncs fail,
  and the workspace cannot be opened again (desktop.rs:300).

Three more things the models show, which no document promises otherwise:
enabling a binding does not clear its recorded version, so the sync after it may
answer `Unchanged` for a file that lost the secret; `config add` beside a window
can replace a configuration it has not read (the properties of `Workspace` that
this would break are stated for behaviours in which it has not, `raced`); and
`render_key_value` takes a value that goes on in the next line apart, so
`OthersAreKept` speaks of what other programs read under other keys only when no
value does, before and after, and of lines always.

Each property has a mutant: one of the plausible bugs at the top of its module
(a gate or the mutex ignored, a check dropped, the wrong version recorded,
memory not updated) replaces one definition and TLC finds the property violated.

## What is proved

Of the engine, for any sets of bindings, clients and targets and any bounds, from
the constants' assumptions only, TLAPS proves every safety invariant and every
action property that the runs check, two more (`MemoryIsDisk`,
`AppliedNeverRegresses`), and the refinement:

| Theorem | Property | Rests on |
| --- | --- | --- |
| `TypeCorrect` | `TypeOK` | `CurOK` |
| `SyncsDoNotOverlap`, `TargetsAreSerialized` | `SingleFlight`, `TargetSerialized` | `GateInv` |
| `MemoryMatchesDisk` | `MemoryIsDisk` | inductive with the types |
| `RecordsFollowWrites`, `WritesGoForward`, `RecordsGoForward` | `AppliedWasWritten`, `WritesNeverRegress`, `AppliedNeverRegresses` | `VersionInv` |
| `NoUpdateIsLost` | `NoLostUpdate` | `ContentInv` |
| `PayloadsAreNeeded`, `DisabledStaysPut` | `PayloadOnDemand`, `DisabledNeverDelivers` | inductive with `Base` |
| `OnlyClientsEnable` | `OnlyEnableReenables` | `EnablerInv` |
| `EngineImplementsDelivery` | `ImplementsDelivery` | `VersionInv`, `DisabledNeverDelivers` |

The strengthenings, and why they are needed:

* `CurOK`: a task that is not idle works for a binding; every step looks up its
  binding's entry.
* `GateInv`: who is past a gate is the one the gate names. `SingleFlight` speaks
  of two tasks and says nothing of the gate a third is about to take.
* `VersionInv`: a call that has read a version holds one between the last
  written and the source's, its payload is of that version, and at the commit
  that version is the one written. This survives the other calls because of
  `GateInv`: only the holder of the gate writes or records for its binding.
* `ContentInv`: between rendering and replacing a file, the rendered text has the
  last written version of every binding that shares the file. This is where the
  target gate is used: nobody writes that file in between.
* `EnablerInv`: only clients run `enable_binding`.

`Base` is `TypeOK`, `CurOK`, `GateInv` and `MemoryIsDisk` together. The proofs do
not go through the actions anew for each invariant: `StepShape` says what a
step of a task amounts to for the data the invariants speak of (it goes aside, is
admitted, compares, fetches, renders, writes or records), `OthersKeep` that it
leaves other tasks' locals alone, `WorldShape` and `CallShape` the same for the
environment and for new calls.

Of the event log, for any number of bindings, any limit that one record fits
in and enough file identities: `LogTypeCorrect` and `SizeIsBounded`. A file's
size alone is not inductive, because writers measure it before they write;
`DebtInv` adds to it what the writers that have passed the measure still owe the
file, and that sum is bounded: by the limit, a record of every other writer, and
one more for every time a size could not be read (`DebtBlind`). That an unused file exists when one has to be
created is a counting argument over the open handles.

Of the local vault, for any handles, threads, entries (finitely many), payloads
and bounds: every invariant and action property its runs check, and that it
implements `VaultStore`:

| Theorem | Property | Rests on |
| --- | --- | --- |
| `VaultTypeCorrect` | `TypeOK` | `TypeInv` |
| `FilesStaySound` | `FilesAreSound` | `DiskInv`, `SoundVerifies` |
| `MemoryStaysSaved` | `MemoryWasSaved` | `MemoryInv`, `GateInv` |
| `ReadsStayTrue` | `ReadsAreTrue` | `GotInv` |
| `BackupsAreKept` | `BackupsStay` | `GateInv` |
| `VaultImplementsStore` | `ImplementsStore` | `VaultInv`, `AnswerInv` |

`VaultInv` is `TypeInv` (types, and that each call has the request its steps
expect), `GateInv` and `DataInv`:

* `GateInv`: who edits has the mutex and, from the reload on, the lock file; a
  partial file is filled by the one thread that created it.
* `DataInv`: files, carried bytes and memory hold only vaults that are sound and
  whose payloads are those their versions were saved with. The exception is the
  vault in memory between an edit and its replacement: `Pending` says that it is
  the file with the edit of the request, under versions nothing was saved with,
  and that the rollback data is of the file. `UndoneIsOld` computes that the
  rollback of such a vault is the file's, `EditedGood` that replacing the file
  by it saves a good vault. `Pending` survives the other threads because of
  `GateInv`: nobody else changes that memory or that file meanwhile.

Only `Edit` and `Replace` change what `DataInv` speaks of; `Aside` says of all
other steps that they leave pending edits alone and bring nothing that was not
saved. `SoundVerifies` counts: in a sound vault entries and payloads correspond
one to one, so the comparison of their numbers in `open_manifest` succeeds.

Of the remote vault, for any clients, entries, both kinds of drive and any bounds:

| Theorem | Property |
| --- | --- |
| `RemoteTypes` | `TypeOK` |
| `CachesStayTrue` | `CacheIsTrue` |
| `NoEditIsDiscarded`, `EditsAreInformed` | `EditsFollowEachOther`, `EditsWhatWasShown` |
| `AnswersStayTrue` | `AnswersAreTrue` |
| `RemoteVaultImplementsShared` | `ImplementsShared` |

They rest on one inductive invariant (`RemoteInvariant`). A cached tag is one the
file had, and the cached revision the file's of that time, because `Recheck` finds
the tag unchanged and the tag never comes back; so a PUT that the service accepts
replaces the revision its body was made from. A client that carries an edit holds
the revision it started from, whose body is the one shown when it was asked for;
a committed PUT that waits for its answer is a revision, and its body the one
sent. A version drawn for an edit names its client and its place in the history,
which is how two of them never collide.

Of a sign-in, for any number of chunks, tokens and troubles:
`CredentialStaysReadable` and `TokenAnswersAreKept`, from `CredentialInvariant`:
the generation being saved is the newest and not in force, its chunks before the
present one are written, what is cleaned up is not in force, only a disconnect
removes from what is, and the provider accepts what is about to be answered. This
is what makes it harmless to remove chunks in any of three places.

Of the list of versions, for any number of versions, any page size and any limit of
pages, whatever is added, enabled or disabled between two pages and wherever the
links lead: `AnswerIsNewest` (`VersionIsNewest`), from `AzureInv`. Its parts are
that the versions that were newest when the call began were created in one second
(`NewestTogether`), and that each of them on the pages read so far is *known* to
`latest` (`PagesKnown`): `latest` is newer, or the same version, or of the same
second and marked ambiguous. `TakeKnows` is the step for one item of a page. A
page is a recursive function over its items, so `TakenKnows` needs two inductions
over the natural numbers: that the recursion has a solution (`ReadingExists`), and
what that solution keeps. The library's induction rule takes a predicate as a
parameter, which the installed provers cannot instantiate; `NatSetInduction`
states it for a set of numbers instead, from the well-founded order of `Nat`.

Of the key-value file, for any keys and values and files of any length:
`OthersStay` (`OthersAreKept`). `RenderWritesOneLine` says that an accepted call
changes one line (`OneLine`), in the place of the only one with the key or behind
the last, and the other lemmas what follows from this: for the lines without the
key (`OneLineForeign`), for the key itself (`OneLineHolds`: one line has it, with
the encoded secret), and for what a program finds under other keys when no value
goes on in the next line, before and after (`OneLineOthers`). Lines are compared
with their positions, so that their order counts. Nothing is assumed of `Keys`.

Of the workspace, for any bindings, connections, drives, locations, references,
retries and bounds:

| Theorem | Property | Rests on |
| --- | --- | --- |
| `WorkspaceTypeCorrect` | `TypeOK` | inductive |
| `SchedulesStayOne` | `OneScheduleEach` | `RunInv` |
| `RecordsAreForBindings` | `AppliedIsForBinding` | `RecordInv` |
| `SelectionIsThere` | `SelectedIsThere` | inductive with the types |
| `WorkspaceCanBeOpened` | `CanOpen` | `RouteInv`, `NamesApart` |
| `BindingsStayPointed` | `NeverRepointed` | `RouteInv`, `NamesApart` |

* `RunInv`: the schedules are of the engine's bindings, sync what the engine has
  for them and are at most one each, also in the middle of a save, where
  `OneScheduleEach` says nothing; none is left when the configuration is written. A
  button's call runs only while the window waits.
* `RecordInv` adds that the configuration is the engine's, but for bindings that
  `config add` has added to it, and that what is recorded is of the engine's
  bindings: between the invalidation and the new configuration, only of those that
  do not change. Without the first part a schedule could record a version for a
  binding that the file has differently; the second is what makes it harmless that
  the save may fail right after the invalidation.
* `RouteInv` adds that the configuration being saved can be routed all the way, as
  the catalogue does not change until the save has ended.

`NamesApart` says that no Azure vault which a binding may name directly has a name
that the user types into the cloud form. It is a condition of these two theorems and
not an assumption of the module, because the program does not enforce it: it is
exactly what the run `workspace_alias` violates, and what the instance of the run
`workspace` satisfies. As in the run, `CanOpen`, `AppliedIsForBinding` and
`NeverRepointed` speak of behaviours in which `config add` has not replaced a
configuration it had not read.

The assumptions are those on the constants: that the reference `config add` writes
(`LocalRef`) is one a user may put into a binding, that provider names and
connection names are what the code's types and checks make them, and that bounds
are numbers.

Only model-checked are the liveness properties: the two `CallsReturn`, `Converges`
and `SyncsKeepComing` need fairness, which is about `ENABLED`. `ReaderRecovers` and
`HistoryKept` need none, but each needs an induction over how often a binding has
still to append before the log rotates, whose steps are temporal formulas; no
set of numbers can stand for these.

## Not modelled

* Drawing and the texts of the forms (`desktop.rs`, `drive_ui.rs`), prompts and
  arguments (`main.rs`): no state but what the actions above take as input.
* Cryptography, JSON, YAML and CSV as text, the wire format and the token of IPC:
  calls to libraries, or conversions without control. The characters of a quoted
  secret are left out too, and with them every claim that it reads back.
  A YAML or JSON field is a *pointer* in `SyncEngine`.
* The browser's part of the sign-in: it ends with one code or with none.
* `validate_config`, labels, paths, sizes and other limits: refusals before
  anything changes.
* Folder listings of a drive, `is_unlocked` polls and status requests: they only
  read.
* Git Credential Manager, an outside program: a target that is never missing.
* Switching the workspace, which starts another process and ends this one.
* The length of delays and the backoff's arithmetic, which cannot overflow: the
  power is at most 2^8 and is capped before it is multiplied.
