------------------------------- MODULE Workspace -------------------------------
(***************************************************************************)
(* A workspace and the window that manages it: DesktopApp of desktop.rs    *)
(* with the source catalogue of sources.rs, the schedules of scheduler.rs  *)
(* and the command `config add` of main.rs, another process.               *)
(*                                                                         *)
(* One window at a time holds the workspace's agent.lock.  Its buttons run *)
(* on one thread; the schedules and the one call a button may have started *)
(* run beside it, and so does `config add`, which takes no lock.  A        *)
(* binding is its source reference; what a sync does inside is the subject *)
(* of SyncEngine, here it begins, reaches the step that abort cannot stop, *)
(* and ends.                                                               *)
(***************************************************************************)
EXTENDS Naturals, FiniteSets

CONSTANTS
    Bindings,    \* binding ids
    Names,       \* connection ids other than "local"
    DriveNames,  \* the ids a user types into the form that connects a drive
    Drives,      \* drive providers
    Locations,   \* where vaults are: a file at a path or in a drive, or an Azure vault
    Refs,        \* the source references a user puts into a binding
    Retries,     \* how often a schedule retries within one interval
    None,        \* no binding, no call, no source
    MaxChanges,  \* bound: changes a user makes
    MaxFaults    \* bound: failed writes and crashes

\* The workspace's own vault, which is always there.
LocalRef == [store |-> "local", connection |-> "local"]

ASSUME NamesAssumption ==
    /\ DriveNames \subseteq Names
    /\ "local" \notin Names
    /\ {"local", "azure"} \cap Drives = {}
ASSUME LocationsAssumption ==
    \A loc \in Locations :
        /\ loc = [store |-> loc.store, vault |-> loc.vault]
        /\ loc.store \in {"local", "azure"} \cup Drives
ASSUME RefsAssumption ==
    /\ Refs \subseteq [store : {"local", "azure"} \cup Drives,
                       connection : Names \cup {"local"}]
    /\ LocalRef \in Refs
ASSUME NoneAssumption == None \notin Refs /\ None \notin Names \cup {"local"}
ASSUME BoundsAssumption ==
    /\ Retries \in Nat
    /\ MaxChanges \in Nat
    /\ MaxFaults \in Nat

Configs == [Bindings -> Refs \cup {None}]

Catalogues == UNION {[S -> Locations] : S \in SUBSET Names}

\* A schedule: the engine it belongs to is known by the reference it syncs.
Schedules ==
    [binding : Bindings, ref : Refs, at : {"sleep", "sync", "apply", "retry"},
     attempt : 0..Retries]
Calls == [binding : Bindings, ref : Refs, at : {"sync", "apply", "done"}]

VARIABLES
    config,     \* shared/config.json
    applied,    \* state.json: the reference a binding's recorded version is of
    catalogue,  \* local/sources.json, which Sources keeps in memory as well
    window,     \* "closed", "idle", or where save_config is
    known,      \* config_bytes: the configuration the window read or wrote last
    engine,     \* the configuration of the window's engine
    draft,      \* the configuration being saved
    schedules,  \* the schedules that are running
    call,       \* pending_sync: the sync a button started
    selected,   \* selected_source
    vaultCall,  \* pending_vault: the source a vault operation is running in
    command,    \* the configuration `config add` read and has not replaced
    raced,      \* history: `config add` replaced another configuration than it read
    changes, faults

files    == <<config, applied, catalogue>>
saving   == <<window, known, engine, draft>>
running  == <<schedules, call>>
bounds   == <<changes, faults>>
vars     == <<files, saving, running, selected, vaultCall, command, raced, bounds>>

NoConfig == [b \in Bindings |-> None]

\* A workspace nobody has opened: no configuration, no catalogue, no state.
Init ==
    /\ config = NoConfig
    /\ applied = NoConfig
    /\ catalogue = [name \in {} |-> None]
    /\ window = "closed"
    /\ known = NoConfig
    /\ engine = NoConfig
    /\ draft = NoConfig
    /\ schedules = {}
    /\ call = None
    /\ selected = "local"
    /\ vaultCall = None
    /\ command = None
    /\ raced = FALSE
    /\ changes = 0
    /\ faults = 0

-----------------------------------------------------------------------------
(* Plausible bugs: each replaces the definition it names, to show that the *)
(* properties notice.                                                      *)

NeverUsed(name)      == FALSE                        \* Used
SameDrive(old, new)  == old.store = new.store        \* SameVault
KeepsApplied(ids)    == UNCHANGED applied            \* Invalidate
ForgetsSchedules     == schedules' = {}              \* Resume
StartsBesides        == window = "abort"             \* AllJoined
KeepsSelection(name) == UNCHANGED selected           \* Deselect
RetriesOnceMore(s)   == s.attempt <= Retries         \* MayRetry

-----------------------------------------------------------------------------
(* What a reference leads to.                                              *)

\* validate_ref: the catalogue's entry of that name has the reference's store, or
\* there is none and the name is the workspace's vault or an Azure vault's own.
Routable(cat, r) ==
    IF r.connection \in DOMAIN cat
    THEN cat[r.connection].store = r.store
    ELSE r.store = "azure" \/ (r.store = "local" /\ r.connection = "local")

\* routed: the vault that a sync of the reference reads.
Reads(cat, r) ==
    IF r.connection \in DOMAIN cat
    THEN cat[r.connection]
    ELSE [store |-> r.store, vault |-> r.connection]

AllRoutable(cat, c) == \A b \in Bindings : c[b] # None => Routable(cat, c[b])

\* A binding of the window's engine uses the connection.
Used(name) == \E b \in Bindings : engine[b] # None /\ engine[b].connection = name

\* A reconnected drive has the provider and the file it had; only the sign-in, which
\* is not modelled here, differs.
SameVault(old, new) == old.store = new.store /\ old.vault = new.vault

\* validate: an Azure vault is catalogued under its own name.
NamedAsVault(name, loc) == loc.store = "azure" => loc.vault = name

\* Sources::file: the window can open a vault it holds the file of.
Openable(cat, name) ==
    name = "local" \/ (name \in DOMAIN cat /\ cat[name].store # "azure")

Change == changes < MaxChanges /\ changes' = changes + 1
Fault  == faults < MaxFaults /\ faults' = faults + 1

-----------------------------------------------------------------------------
(* The schedules: run_binding, one for each binding of the engine.         *)

Spawned(c) ==
    {[binding |-> b, ref |-> c[b], at |-> "sleep", attempt |-> 0] :
        b \in {x \in Bindings : c[x] # None}}

Moves(s, at, attempt) ==
    schedules' = (schedules \ {s}) \cup {[s EXCEPT !.at = at, !.attempt = attempt]}

Sleeps(s)  == Moves(s, "sleep", 0)

\* Failures of three kinds are worth another attempt within the interval.
MayRetry(s) == s.attempt < Retries
Retry(s)    == IF MayRetry(s) THEN Moves(s, "retry", s.attempt + 1) ELSE Sleeps(s)

\* The interval, or the backoff before a retry, is over.
Wake(s) ==
    /\ s \in schedules /\ s.at \in {"sleep", "retry"}
    /\ Moves(s, "sync", s.attempt)
    /\ UNCHANGED <<files, saving, call, selected, vaultCall, command, raced, bounds>>

\* The sync ends without a write: unchanged, disabled, or a failure of one kind
\* or the other.
EndSync(s) ==
    /\ s \in schedules /\ s.at = "sync"
    /\ Sleeps(s) \/ Retry(s)
    /\ UNCHANGED <<files, saving, call, selected, vaultCall, command, raced, bounds>>

\* It has the payload and the target's gate: no await until the version is recorded.
BeginApply(s) ==
    /\ s \in schedules /\ s.at = "sync"
    /\ Moves(s, "apply", s.attempt)
    /\ UNCHANGED <<files, saving, call, selected, vaultCall, command, raced, bounds>>

\* The version is recorded, or the target cannot be written, or the state cannot.
EndApply(s) ==
    /\ s \in schedules /\ s.at = "apply"
    /\ \/ applied' = [applied EXCEPT ![s.binding] = s.ref] /\ Sleeps(s)
       \/ (Sleeps(s) \/ Retry(s)) /\ UNCHANGED applied
    /\ UNCHANGED <<config, catalogue, saving, call, selected, vaultCall, command,
                   raced, bounds>>

RunSchedule(b) ==
    \E s \in schedules :
        s.binding = b /\ (EndSync(s) \/ BeginApply(s) \/ EndApply(s))

-----------------------------------------------------------------------------
(* The call a button starts: sync_binding; "Enable" and "Acknowledge       *)
(* restart" start one that ends without a write.                           *)

StartCall(b) ==
    /\ window = "idle" /\ call = None
    /\ engine[b] # None
    /\ call' = [binding |-> b, ref |-> engine[b], at |-> "sync"]
    /\ UNCHANGED <<files, saving, schedules, selected, vaultCall, command, raced,
                   bounds>>

RunCall ==
    /\ call # None
    /\ \/ call.at = "sync" /\ UNCHANGED applied
          /\ \E at \in {"apply", "done"} : call' = [call EXCEPT !.at = at]
       \/ call.at = "apply" /\ call' = [call EXCEPT !.at = "done"]
          /\ \/ applied' = [applied EXCEPT ![call.binding] = call.ref]
             \/ UNCHANGED applied
    /\ UNCHANGED <<config, catalogue, saving, schedules, selected, vaultCall,
                   command, raced, bounds>>

\* update, on the window's next frame.
JoinCall ==
    /\ window = "idle" /\ call # None
    /\ call.at = "done"
    /\ call' = None
    /\ UNCHANGED <<files, saving, schedules, selected, vaultCall, command, raced,
                   bounds>>

-----------------------------------------------------------------------------
(* save_config, on the window's thread: no other button until it returns.  *)

\* config.json still holds what the window read or wrote last.
ConfigIsKnown == config = known

\* save_binding and delete_binding: b is added, edited or removed, or old, edited,
\* gets the id b, which no other binding may have.
BeginSave(old, b, r) ==
    LET next == [engine EXCEPT ![old] = None, ![b] = r] IN
    /\ window = "idle" /\ call = None
    /\ old # b => engine[old] # None /\ engine[b] = None /\ r # None
    /\ AllRoutable(catalogue, next)
    /\ ConfigIsKnown
    /\ Change
    /\ window' = "abort"
    /\ draft' = next
    /\ UNCHANGED <<files, known, engine, running, selected, vaultCall, command,
                   raced, faults>>

\* abort takes effect where a schedule awaits; while it applies it has to be
\* waited for.
Abortable(s) == s.at # "apply"

AbortSchedule(s) ==
    /\ window = "abort"
    /\ s \in schedules /\ Abortable(s)
    /\ schedules' = schedules \ {s}
    /\ UNCHANGED <<files, saving, call, selected, vaultCall, command, raced, bounds>>

AllJoined == window = "abort" /\ schedules = {}

\* spawn_schedules for the engine the window had, when the save cannot go on.
Resume == schedules' = schedules \cup Spawned(engine)

GiveUp ==
    /\ Fault
    /\ window' = "idle"
    /\ draft' = NoConfig
    /\ Resume
    /\ UNCHANGED <<config, applied, known, engine>>

\* invalidate_bindings: nothing is recorded of the bindings that change.
Invalidate(ids) ==
    applied' = [b \in Bindings |-> IF b \in ids THEN None ELSE applied[b]]

ForgetChanged ==
    /\ AllJoined
    /\ \/ GiveUp
       \/ /\ Invalidate({b \in Bindings : engine[b] # draft[b]})
          /\ window' = "write"
          /\ UNCHANGED <<config, known, engine, draft, schedules, faults>>
    /\ UNCHANGED <<catalogue, call, selected, vaultCall, command, raced, changes>>

\* A new engine loads state.json; then config.json is replaced and the new engine's
\* schedules start.
WriteConfig ==
    /\ window = "write"
    /\ \/ GiveUp
       \/ /\ config' = draft
          /\ known' = draft
          /\ engine' = draft
          /\ schedules' = schedules \cup Spawned(draft)
          /\ window' = "idle"
          /\ draft' = NoConfig
          /\ UNCHANGED <<applied, faults>>
    /\ UNCHANGED <<catalogue, call, selected, vaultCall, command, raced, changes>>

Save == (\E s \in schedules : AbortSchedule(s)) \/ ForgetChanged \/ WriteConfig

-----------------------------------------------------------------------------
(* The catalogue: Sources::add, reconnect and remove, and the buttons that *)
(* call them.                                                              *)

Catalogued(name, loc) ==
    catalogue' = [n \in DOMAIN catalogue \cup {name} |->
                     IF n = name THEN loc ELSE catalogue[n]]

\* "Add connection", which minds the bindings that use the name already.
AddSource(name, loc) ==
    /\ window = "idle"
    /\ loc.store \notin Drives
    /\ name \notin DOMAIN catalogue
    /\ NamedAsVault(name, loc)
    /\ \A b \in Bindings :
           engine[b] # None /\ engine[b].connection = name => engine[b].store = loc.store
    /\ Change
    /\ Catalogued(name, loc)
    /\ UNCHANGED <<config, applied, saving, running, selected, vaultCall, command,
                   raced, faults>>

\* "Add cloud connection": a new name, or another sign-in for the vault it had.
SaveDrive(name, loc) ==
    /\ window = "idle"
    /\ name \in DriveNames /\ loc.store \in Drives
    /\ name \in DOMAIN catalogue =>
           catalogue[name].store \in Drives /\ SameVault(catalogue[name], loc)
    /\ Change
    /\ Catalogued(name, loc)
    /\ UNCHANGED <<config, applied, saving, running, selected, vaultCall, command,
                   raced, faults>>

\* remove_source goes back to the workspace's vault when it removed the selected one.
Deselect(name) == selected' = IF selected = name THEN "local" ELSE selected

RemoveSource(name) ==
    /\ window = "idle" /\ vaultCall = None /\ call = None
    /\ name \in DOMAIN catalogue
    /\ ~Used(name)
    /\ Change
    /\ catalogue' = [n \in DOMAIN catalogue \ {name} |-> catalogue[n]]
    /\ Deselect(name)
    /\ UNCHANGED <<config, applied, saving, running, vaultCall, command, raced, faults>>

SelectSource(name) ==
    /\ window = "idle" /\ vaultCall = None
    /\ Openable(catalogue, name)
    /\ selected' = name
    /\ UNCHANGED <<files, saving, running, vaultCall, command, raced, bounds>>

\* run_vault: an operation in a drive's vault runs beside the window.
StartVault ==
    /\ window = "idle" /\ vaultCall = None
    /\ selected \in DOMAIN catalogue /\ catalogue[selected].store \in Drives
    /\ vaultCall' = selected
    /\ UNCHANGED <<files, saving, running, selected, command, raced, bounds>>

\* update, on a frame after the operation has ended.
FinishVault ==
    /\ window = "idle" /\ vaultCall # None
    /\ vaultCall' = None
    /\ UNCHANGED <<files, saving, running, selected, command, raced, bounds>>

-----------------------------------------------------------------------------
(* Opening and closing the window, and the command beside it.              *)

\* DesktopApp::new, which refuses a configuration whose sources it cannot route.
Open ==
    /\ window = "closed"
    /\ AllRoutable(catalogue, config)
    /\ window' = "idle"
    /\ known' = config
    /\ engine' = config
    /\ schedules' = Spawned(config)
    /\ UNCHANGED <<files, draft, call, selected, vaultCall, command, raced, bounds>>

\* The process is gone and everything it kept in memory with it.
Gone ==
    /\ window' = "closed"
    /\ known' = NoConfig
    /\ engine' = NoConfig
    /\ draft' = NoConfig
    /\ schedules' = {}
    /\ call' = None
    /\ selected' = "local"
    /\ vaultCall' = None
    /\ UNCHANGED <<files, command, raced, changes>>

\* Closing waits for what cannot be interrupted.
Close ==
    /\ window = "idle" /\ vaultCall = None
    /\ \A s \in schedules : Abortable(s)
    /\ call # None => call.at # "apply"
    /\ Gone
    /\ UNCHANGED faults

Crash == window # "closed" /\ Fault /\ Gone

\* config_add, which takes no lock: it reads the configuration ...
CommandReads ==
    /\ command = None
    /\ \A b \in Bindings : config[b] # None => config[b].store = "local"
    /\ Change
    /\ command' = config
    /\ UNCHANGED <<files, saving, running, selected, vaultCall, raced, faults>>

\* ... and replaces it by that with one binding more, to the workspace's vault.
CommandWrites(b) ==
    /\ command # None
    /\ command[b] = None
    /\ config' = [command EXCEPT ![b] = LocalRef]
    /\ raced' = (raced \/ config # command)
    /\ command' = None
    /\ UNCHANGED <<applied, catalogue, saving, running, selected, vaultCall, bounds>>

CommandGivesUp ==
    /\ command # None
    /\ command' = None
    /\ UNCHANGED <<files, saving, running, selected, vaultCall, raced, bounds>>

-----------------------------------------------------------------------------
Background == (\E s \in schedules : Wake(s)) \/ (\E b \in Bindings : RunSchedule(b))
              \/ RunCall

Buttons ==
    \/ \E b \in Bindings : StartCall(b)
    \/ \E old, b \in Bindings, r \in Refs \cup {None} : BeginSave(old, b, r)
    \/ \E name \in Names, loc \in Locations : AddSource(name, loc) \/ SaveDrive(name, loc)
    \/ \E name \in Names : RemoveSource(name)
    \/ \E name \in Names \cup {"local"} : SelectSource(name)
    \/ StartVault \/ Open \/ Close

Others ==
    \/ CommandReads \/ CommandGivesUp \/ Crash
    \/ \E b \in Bindings : CommandWrites(b)

Next == Background \/ Buttons \/ JoinCall \/ FinishVault \/ Save \/ Others

Spec == Init /\ [][Next]_vars

(***************************************************************************)
(* A sleep ends, a sync returns (SyncEngine.CallsReturn), and the window's *)
(* thread goes on with a save until it returns.  Strongly, because an      *)
(* abort that was requested while a schedule applies takes effect at its   *)
(* next await.  Users and the command need not do anything.                *)
(***************************************************************************)
Fairness ==
    /\ SF_vars(Save)
    /\ \A b \in Bindings :
          /\ WF_vars(\E s \in schedules : s.binding = b /\ Wake(s))
          /\ WF_vars(RunSchedule(b))

FairSpec == Spec /\ Fairness

-----------------------------------------------------------------------------
(* Properties.                                                             *)

\* Every variable has its type.
TypeOK ==
    /\ config \in Configs
    /\ applied \in Configs
    /\ catalogue \in Catalogues
    /\ window \in {"closed", "idle", "abort", "write"}
    /\ known \in Configs
    /\ engine \in Configs
    /\ draft \in Configs
    /\ schedules \in SUBSET Schedules
    /\ call \in Calls \cup {None}
    /\ selected \in Names \cup {"local"}
    /\ vaultCall \in Names \cup {None}
    /\ command \in Configs \cup {None}
    /\ raced \in BOOLEAN
    /\ changes \in 0..MaxChanges
    /\ faults \in 0..MaxFaults

\* As long as the names typed into the cloud form are kept apart from the Azure
\* vaults that bindings name (else NoAlias fails, and with it this): whatever a user
\* removes, adds, reconnects or saves, in whatever order, and wherever a save fails
\* or the window crashes, the window can be opened again.  DesktopApp::new refuses
\* a workspace for one binding it cannot route.
CanOpen == raced \/ AllRoutable(catalogue, config)

\* A saved binding goes on reading the vault it was saved for, until it is
\* itself changed: no change of the catalogue, by either form, repoints it.
NeverRepointed ==
    [][\A b \in Bindings :
          config[b] # None /\ config'[b] = config[b] /\ ~raced'
              => Reads(catalogue', config[b]) = Reads(catalogue, config[b])]_vars

\* A recorded version is of the binding's present definition, so that a sync
\* never answers "Unchanged" for a source or a target the version is not of: a
\* schedule of the engine before cannot record once the save has invalidated.
AppliedIsForBinding ==
    raced \/ \A b \in Bindings : applied[b] # None => applied[b] = config[b]

\* While the window waits for the user, each binding of its engine has one
\* schedule, which syncs it as the engine has it: a save starts no second one
\* and, where it fails, restarts those it had stopped.
OneScheduleEach ==
    window = "idle" =>
        /\ \A s \in schedules : s.ref = engine[s.binding]
        /\ \A b \in Bindings :
              Cardinality({s \in schedules : s.binding = b})
                  = IF engine[b] = None THEN 0 ELSE 1

\* The vault that the window shows, and the one it runs an operation in, is
\* one the catalogue still has.
SelectedIsThere ==
    \A name \in {selected} \cup ({vaultCall} \ {None}) : Openable(catalogue, name)

\* A binding the window keeps is synced again and again: not stopped for good
\* by a save that waits, by a failed save, or by its own retries.
SyncsKeepComing ==
    \A b \in Bindings :
        <>[](engine[b] # None)
            => []<>(\E s \in schedules : s.binding = b /\ s.at = "sync" /\ s.attempt = 0)

\* "Never repoint an existing binding by introducing an alias with the same ID."
\* (desktop.rs:868)
NoAlias ==
    \A b \in Bindings :
        engine[b] # None /\ engine[b].connection \in DOMAIN catalogue
            => catalogue[engine[b].connection].store = engine[b].store
=============================================================================
