------------------------------ MODULE SyncEngine ------------------------------
(***************************************************************************)
(* The synchronisation engine: Engine of core.rs, driven by the scheduler  *)
(* (run_binding) and by the IPC or desktop clients, with the source and    *)
(* the target it moves secrets between.                                    *)
(*                                                                         *)
(* A task runs one call of sync, enable_binding or acknowledge_restart at  *)
(* a time.  A call is cut into the steps at which another task, the        *)
(* outside world or a crash can get in between: around every lock, every   *)
(* await, every read and write of a target file and every replacement of   *)
(* state.json.  A secret's value is identified with the version it had in  *)
(* the source, so "which value is in the target" is a number; 0 is "none". *)
(***************************************************************************)
EXTENDS Naturals, FiniteSets

CONSTANTS
    Bindings,    \* configured binding ids; the scheduler runs one task for each
    Clients,     \* callers behind the IPC endpoint or the desktop window
    Targets,     \* target identities (files)
    TargetOf,    \* the target each binding writes
    Style,       \* how a binding renders: "whole", "pair" or "pointer"
    Policy,      \* missing-target policy: "Alert", "Disable" or "Recreate"
    Docker,      \* the bindings whose target is a Docker input
    Versioned,   \* the bindings whose source still serves superseded versions
    None,        \* no task, no binding
    MaxVersion,  \* bound: source rotations
    MaxFaults    \* bound: failed calls, crashes, reconfigurations, outside edits

Tasks == Bindings \cup Clients

ASSUME NamesAssumption ==
    /\ Bindings \cap Clients = {}
    /\ None \notin Bindings \cup Clients
ASSUME ConfigAssumption ==
    /\ TargetOf \in [Bindings -> Targets]
    /\ Style \in [Bindings -> {"whole", "pair", "pointer"}]
    /\ Policy \in [Bindings -> {"Alert", "Disable", "Recreate"}]
    /\ Docker \subseteq Bindings
    /\ Versioned \subseteq Bindings
ASSUME BoundsAssumption == MaxVersion \in Nat \ {0} /\ MaxFaults \in Nat

Versions == 0..MaxVersion
Outcomes == {"None", "Unchanged", "Applied", "RestartRequired", "Disabled",
             "Failed"}
Labels == {"idle", "waitFlight", "entered", "version", "value", "waitTarget",
           "write", "commit", "publishApplied", "record", "publishStatus",
           "event"}

VARIABLES
    srcVersion,    \* the current version of each binding's secret in its source
    present,       \* the targets that exist
    content,       \* content[x][b]: the version of b's secret that target x holds
    mem,           \* Engine.state: applied versions, statuses, disabled bindings
    disk,          \* state.json
    stateLock,     \* who holds the mutex around mem
    flight,        \* Engine.flights: who holds the gate of a binding
    targetFlight,  \* Engine.target_flights: who holds the gate of a target
    pc, op, cur,   \* per task: where it is, what it was asked, for which binding
    missing, version, payload, rendered, outcome,  \* per task: locals of sync
    faults,        \* how many faults and outside edits there have been
    written,       \* history: the last version of b's secret a sync wrote
    disturbed,     \* history: targets somebody else removed or overwrote
    owed           \* history: Docker bindings written and not acknowledged since

sourceVars  == <<srcVersion>>
targetVars  == <<present, content>>
stateVars   == <<mem, disk, stateLock>>
gateVars    == <<flight, targetFlight>>
innerVars   == <<missing, version, payload, rendered, outcome>>
historyVars == <<written, disturbed, owed>>
vars == <<sourceVars, targetVars, stateVars, gateVars, pc, op, cur, innerVars,
          faults, historyVars>>

Blank      == [b \in Bindings |-> 0]
EmptyState == [applied  |-> Blank,
               status   |-> [b \in Bindings |-> "None"],
               disabled |-> {}]

Init ==
    /\ srcVersion = [b \in Bindings |-> 1]
    /\ present \in SUBSET Targets
    /\ content = [x \in Targets |-> Blank]
    /\ mem = EmptyState
    /\ disk = EmptyState
    /\ stateLock = None
    /\ flight = [b \in Bindings |-> None]
    /\ targetFlight = [x \in Targets |-> None]
    /\ pc = [t \in Tasks |-> "idle"]
    /\ op = [t \in Tasks |-> "none"]
    /\ cur = [t \in Tasks |-> None]
    /\ missing = [t \in Tasks |-> FALSE]
    /\ version = [t \in Tasks |-> 0]
    /\ payload = [t \in Tasks |-> 0]
    /\ rendered = [t \in Tasks |-> Blank]
    /\ outcome = [t \in Tasks |-> "None"]
    /\ faults = 0
    /\ written = Blank
    /\ disturbed = {}
    /\ owed = {}

-----------------------------------------------------------------------------
(* Plausible bugs: each replaces the definition it names, to show that the *)
(* properties notice.                                                      *)

IgnoresFlight(b)     == TRUE                    \* FlightFree
IgnoresTargetGate(x) == TRUE                    \* TargetFree
IgnoresMutex         == TRUE                    \* MutexFree
NeverDisabled(b)     == FALSE                   \* Disabled
AlwaysRestarts(b)    == TRUE                    \* NeedsRestart
AlwaysFetches(t)     == FALSE                   \* Current
RecordsNewest(t)     == srcVersion[cur[t]]      \* AppliedVersion
KeepsMutex(t)        == mem' = disk /\ UNCHANGED <<stateLock, disk>>  \* Publish

-----------------------------------------------------------------------------
(* The questions the code asks, and the steps the actions are built from.  *)

\* A gate or the mutex can be locked at once.
FlightFree(b) == flight[b] = None
TargetFree(x) == targetFlight[x] = None
MutexFree     == stateLock = None

\* The binding is in the engine's set of disabled ones.
Disabled(b) == b \in mem.disabled

\* A write to this binding's target takes effect when a container restarts.
NeedsRestart(b) == b \in Docker

\* is_missing: the target's file does not exist.
Absent(b) == TargetOf[b] \notin present

\* apply_file reads the file again: when it is gone only Recreate goes on, and a
\* pointer cannot be set in a file that is not there.
Refuses(b) == Absent(b) /\ (Policy[b] # "Recreate" \/ Style[b] = "pointer")

\* get_value: a vault refuses a version it has moved on from, Azure serves it.
VaultServes(t) == srcVersion[cur[t]] = version[t]
AzureServes(t) == cur[t] \in Versioned
Served(t)      == VaultServes(t) \/ AzureServes(t)

\* The target is there and the version applied to it is the source's.
Current(t) == ~missing[t] /\ mem.applied[cur[t]] = srcVersion[cur[t]]

\* The version a sync records as applied: the one whose payload it fetched.
AppliedVersion(t) == version[t]

Transition(t, from, to) ==
    /\ pc[t] = from
    /\ pc' = [pc EXCEPT ![t] = to]

\* An injected failure, crash, reconfiguration or outside edit.
Fault   == faults < MaxFaults /\ faults' = faults + 1
NoFault == UNCHANGED faults

\* A call ends: its flight gate is dropped and so are its locals.
Return(t) ==
    /\ pc' = [pc EXCEPT ![t] = "idle"]
    /\ op' = [op EXCEPT ![t] = "none"]
    /\ cur' = [cur EXCEPT ![t] = None]
    /\ outcome' = [outcome EXCEPT ![t] = "None"]
    /\ flight' = [flight EXCEPT ![cur[t]] = None]

\* sync_inner returns o: the payload is wiped and the target gate, if this
\* task holds it, is dropped.  sync goes on to record the outcome.
InnerReturns(t, o) ==
    /\ pc' = [pc EXCEPT ![t] = "record"]
    /\ outcome' = [outcome EXCEPT ![t] = o]
    /\ missing' = [missing EXCEPT ![t] = FALSE]
    /\ version' = [version EXCEPT ![t] = 0]
    /\ payload' = [payload EXCEPT ![t] = 0]
    /\ rendered' = [rendered EXCEPT ![t] = Blank]
    /\ targetFlight' = [x \in Targets |->
                           IF targetFlight[x] = t THEN None ELSE targetFlight[x]]

\* The first half of a state change: under the mutex, state.json is replaced
\* by the changed copy.  The second half, Publish, assigns it to memory.
Persist(t, next) ==
    /\ MutexFree
    /\ stateLock' = t
    /\ disk' = next
    /\ UNCHANGED mem

Publish(t) ==
    /\ mem' = disk
    /\ stateLock' = None
    /\ UNCHANGED disk

\* What writing v for b makes of a target's content: a whole-file target is
\* replaced, the other styles keep what the other bindings put there.
Render(b, v, prior) ==
    [IF Style[b] = "whole" THEN Blank ELSE prior EXCEPT ![b] = v]

-----------------------------------------------------------------------------
(* Calls.  The scheduler's task for b only syncs b.                        *)

Call(t, b, o) ==
    /\ Transition(t, "idle", "waitFlight")
    /\ op' = [op EXCEPT ![t] = o]
    /\ cur' = [cur EXCEPT ![t] = b]
    /\ UNCHANGED <<sourceVars, targetVars, stateVars, gateVars, innerVars,
                   faults, historyVars>>

TriggerSync(t, b) == (t = b \/ t \in Clients) /\ Call(t, b, "sync")
RequestEnable(t, b) == t \in Clients /\ Call(t, b, "enable")
RequestAck(t, b) == t \in Clients /\ NeedsRestart(b) /\ Call(t, b, "ack")

EnterFlight(t) ==
    /\ Transition(t, "waitFlight", "entered")
    /\ FlightFree(cur[t])
    /\ flight' = [flight EXCEPT ![cur[t]] = t]
    /\ UNCHANGED <<sourceVars, targetVars, stateVars, targetFlight, op, cur,
                   innerVars, faults, historyVars>>

-----------------------------------------------------------------------------
(* sync and sync_inner.                                                    *)

\* A disabled binding's sync returns at once: no status, no event.
SkipDisabled(t) ==
    /\ pc[t] = "entered" /\ op[t] = "sync"
    /\ MutexFree
    /\ Disabled(cur[t])
    /\ Return(t)
    /\ UNCHANGED <<sourceVars, targetVars, stateVars, targetFlight, missing,
                   version, payload, rendered, faults, historyVars>>

\* validate, then is_missing and the missing-target policy.
Probe(t) ==
    LET b == cur[t]
    IN  /\ pc[t] = "entered" /\ op[t] = "sync"
        /\ MutexFree
        /\ ~Disabled(b)
        /\ \/ Fault /\ InnerReturns(t, "Failed")
           \/ /\ Absent(b) /\ Policy[b] = "Alert"
              /\ InnerReturns(t, "Failed") /\ NoFault
           \/ /\ Absent(b) /\ Policy[b] = "Disable"
              /\ InnerReturns(t, "Disabled") /\ NoFault
           \/ /\ ~Absent(b) \/ Policy[b] = "Recreate"
              /\ pc' = [pc EXCEPT ![t] = "version"]
              /\ missing' = [missing EXCEPT ![t] = Absent(b)]
              /\ UNCHANGED <<version, payload, rendered, outcome, targetFlight>>
              /\ NoFault
        /\ UNCHANGED <<sourceVars, targetVars, stateVars, flight, op, cur,
                       historyVars>>

\* What sync_inner returns when the version in the source is the applied one.
UpToDate(b) ==
    IF NeedsRestart(b) /\ mem.status[b] = "RestartRequired"
    THEN "RestartRequired" ELSE "Unchanged"

\* get_version, and the comparison with the applied version.
ReadVersion(t) ==
    /\ pc[t] = "version"
    /\ MutexFree
    /\ \/ Fault /\ InnerReturns(t, "Failed")
       \/ Current(t) /\ InnerReturns(t, UpToDate(cur[t])) /\ NoFault
       \/ /\ ~Current(t)
          /\ pc' = [pc EXCEPT ![t] = "value"]
          /\ version' = [version EXCEPT ![t] = srcVersion[cur[t]]]
          /\ UNCHANGED <<missing, payload, rendered, outcome, targetFlight>>
          /\ NoFault
    /\ UNCHANGED <<sourceVars, targetVars, stateVars, flight, op, cur,
                   historyVars>>

\* get_value for the version just read, which the source may have moved on from.
ReadValue(t) ==
    /\ pc[t] = "value"
    /\ \/ Fault /\ InnerReturns(t, "Failed")
       \/ ~Served(t) /\ InnerReturns(t, "Failed") /\ NoFault
       \/ /\ Served(t)
          /\ pc' = [pc EXCEPT ![t] = "waitTarget"]
          /\ payload' = [payload EXCEPT ![t] = version[t]]
          /\ UNCHANGED <<missing, version, rendered, outcome, targetFlight>>
          /\ NoFault
    /\ UNCHANGED <<sourceVars, targetVars, stateVars, flight, op, cur,
                   historyVars>>

\* Under the target's gate apply_file reads the file again and renders.
BeginApply(t) ==
    LET b == cur[t]
        x == TargetOf[b]
    IN  /\ pc[t] = "waitTarget"
        /\ TargetFree(x)
        /\ \/ Fault /\ InnerReturns(t, "Failed")
           \/ Refuses(b) /\ InnerReturns(t, "Failed") /\ NoFault
           \/ /\ ~Refuses(b)
              /\ pc' = [pc EXCEPT ![t] = "write"]
              /\ targetFlight' = [targetFlight EXCEPT ![x] = t]
              /\ rendered' = [rendered EXCEPT
                                 ![t] = Render(b, payload[t], content[x])]
              /\ UNCHANGED <<missing, version, payload, outcome>>
              /\ NoFault
        /\ UNCHANGED <<sourceVars, targetVars, stateVars, flight, op, cur,
                       historyVars>>

\* atomic_write: the whole file is replaced, or left as it was.
WriteTarget(t) ==
    LET b == cur[t]
        x == TargetOf[b]
    IN  /\ pc[t] = "write"
        /\ \/ /\ Fault /\ InnerReturns(t, "Failed")
              /\ UNCHANGED <<targetVars, written>>
           \/ /\ pc' = [pc EXCEPT ![t] = "commit"]
              /\ content' = [content EXCEPT ![x] = rendered[t]]
              /\ present' = present \cup {x}
              /\ written' = [written EXCEPT ![b] = payload[t]]
              /\ UNCHANGED <<innerVars, targetFlight>>
              /\ NoFault
        /\ UNCHANGED <<sourceVars, stateVars, flight, op, cur, disturbed, owed>>

\* The applied version goes to state.json, then to memory.
CommitApplied(t) ==
    LET b == cur[t] IN
    /\ pc[t] = "commit"
    /\ MutexFree
    /\ \/ /\ Fault /\ InnerReturns(t, "Failed")
          /\ UNCHANGED <<stateVars, owed>>
       \/ /\ pc' = [pc EXCEPT ![t] = "publishApplied"]
          /\ Persist(t, [mem EXCEPT !.applied[b] = AppliedVersion(t)])
          /\ owed' = IF NeedsRestart(b) THEN owed \cup {b} ELSE owed
          /\ UNCHANGED <<innerVars, targetFlight>>
          /\ NoFault
    /\ UNCHANGED <<sourceVars, targetVars, flight, op, cur, written, disturbed>>

PublishApplied(t) ==
    /\ pc[t] = "publishApplied"
    /\ Publish(t)
    /\ InnerReturns(t, IF NeedsRestart(cur[t]) THEN "RestartRequired" ELSE "Applied")
    /\ UNCHANGED <<sourceVars, targetVars, flight, op, cur, faults, historyVars>>

\* sync records the outcome; only here does a binding become disabled.
RecordStatus(t) ==
    LET b == cur[t]
        off == IF outcome[t] = "Disabled" THEN {b} ELSE {}
    IN  /\ pc[t] = "record"
        /\ MutexFree
        /\ \/ Fault /\ Return(t) /\ UNCHANGED stateVars
           \/ /\ pc' = [pc EXCEPT ![t] = "publishStatus"]
              /\ Persist(t, [mem EXCEPT !.status[b] = outcome[t],
                                        !.disabled = @ \cup off])
              /\ UNCHANGED <<op, cur, outcome, flight>>
              /\ NoFault
        /\ UNCHANGED <<sourceVars, targetVars, targetFlight, missing, version,
                       payload, rendered, historyVars>>

\* Any of the three calls: memory follows the file, then the event is appended.
PublishStatus(t) ==
    /\ Transition(t, "publishStatus", "event")
    /\ Publish(t)
    /\ UNCHANGED <<sourceVars, targetVars, gateVars, op, cur, innerVars, faults,
                   historyVars>>

\* append_event, which may fail without undoing anything; the call returns.
AppendEvent(t) ==
    /\ pc[t] = "event"
    /\ Return(t)
    /\ UNCHANGED <<sourceVars, targetVars, stateVars, targetFlight, missing,
                   version, payload, rendered, faults, historyVars>>

-----------------------------------------------------------------------------
(* enable_binding and acknowledge_restart, once inside the flight gate.    *)

EnableBinding(t) ==
    LET b == cur[t] IN
    /\ pc[t] = "entered" /\ op[t] = "enable"
    /\ MutexFree
    /\ \/ /\ ~Disabled(b)
          /\ Return(t) /\ UNCHANGED stateVars /\ NoFault
       \/ /\ Disabled(b)
          /\ Fault /\ Return(t) /\ UNCHANGED stateVars
       \/ /\ Disabled(b)
          /\ pc' = [pc EXCEPT ![t] = "publishStatus"]
          /\ Persist(t, [mem EXCEPT !.disabled = @ \ {b}])
          /\ UNCHANGED <<op, cur, outcome, flight>>
          /\ NoFault
    /\ UNCHANGED <<sourceVars, targetVars, targetFlight, missing, version,
                   payload, rendered, written, disturbed, owed>>

AcknowledgeRestart(t) ==
    LET b    == cur[t]
        owes == mem.status[b] = "RestartRequired"
    IN  /\ pc[t] = "entered" /\ op[t] = "ack"
        /\ MutexFree
        /\ \/ ~owes /\ Return(t) /\ UNCHANGED <<stateVars, owed>> /\ NoFault
           \/ owes /\ Fault /\ Return(t) /\ UNCHANGED <<stateVars, owed>>
           \/ /\ owes
              /\ pc' = [pc EXCEPT ![t] = "publishStatus"]
              /\ Persist(t, [mem EXCEPT !.status[b] = "Unchanged"])
              /\ owed' = owed \ {b}
              /\ UNCHANGED <<op, cur, outcome, flight>>
              /\ NoFault
        /\ UNCHANGED <<sourceVars, targetVars, targetFlight, missing, version,
                       payload, rendered, written, disturbed>>

-----------------------------------------------------------------------------
(* The whole engine goes away: a crash, or the desktop saving a new        *)
(* configuration.                                                          *)

\* Every call is gone, the gates are new, memory is loaded from state.json.
FreshEngine ==
    /\ mem' = disk'
    /\ stateLock' = None
    /\ flight' = [b \in Bindings |-> None]
    /\ targetFlight' = [x \in Targets |-> None]
    /\ pc' = [t \in Tasks |-> "idle"]
    /\ op' = [t \in Tasks |-> "none"]
    /\ cur' = [t \in Tasks |-> None]
    /\ missing' = [t \in Tasks |-> FALSE]
    /\ version' = [t \in Tasks |-> 0]
    /\ payload' = [t \in Tasks |-> 0]
    /\ rendered' = [t \in Tasks |-> Blank]
    /\ outcome' = [t \in Tasks |-> "None"]

Crash ==
    /\ Fault
    /\ disk' = disk
    /\ FreshEngine
    /\ UNCHANGED <<sourceVars, targetVars, historyVars>>

\* The labels at which a scheduler task is suspended in an await, where abort
\* takes effect; anywhere else the abort waits for it.
Awaits == {"idle", "waitFlight", "version", "value", "waitTarget"}

\* save_config: refused while a client's call is pending; aborts and joins the
\* scheduler's tasks, forgets the changed bindings and starts a new engine.
Reconfigure(changed) ==
    /\ Fault
    /\ \A t \in Clients : pc[t] = "idle"
    /\ \A t \in Bindings : pc[t] \in Awaits
    /\ disk' = [applied  |-> [b \in Bindings |->
                                IF b \in changed THEN 0 ELSE disk.applied[b]],
                status   |-> [b \in Bindings |->
                                IF b \in changed THEN "None" ELSE disk.status[b]],
                disabled |-> disk.disabled \ changed]
    /\ FreshEngine
    /\ owed' = owed \ changed
    /\ UNCHANGED <<sourceVars, targetVars, written, disturbed>>

-----------------------------------------------------------------------------
(* The outside world.                                                      *)

Rotate(b) ==
    /\ srcVersion[b] < MaxVersion
    /\ srcVersion' = [srcVersion EXCEPT ![b] = @ + 1]
    /\ UNCHANGED <<targetVars, stateVars, gateVars, pc, op, cur, innerVars,
                   faults, historyVars>>

\* Somebody removes a target, or puts a file without our secrets in its place.
Disturb(x, there) ==
    /\ Fault
    /\ content' = [content EXCEPT ![x] = Blank]
    /\ present' = there
    /\ disturbed' = disturbed \cup {x}
    /\ UNCHANGED <<sourceVars, stateVars, gateVars, pc, op, cur, innerVars,
                   written, owed>>

RemoveTarget(x) == x \in present /\ Disturb(x, present \ {x})
OverwriteTarget(x) == Disturb(x, present \cup {x})

-----------------------------------------------------------------------------
SyncStep(t) ==
    \/ SkipDisabled(t) \/ Probe(t) \/ ReadVersion(t) \/ ReadValue(t)
    \/ BeginApply(t) \/ WriteTarget(t) \/ CommitApplied(t) \/ PublishApplied(t)
    \/ RecordStatus(t)

Step(t) ==
    \/ EnterFlight(t) \/ SyncStep(t) \/ EnableBinding(t)
    \/ AcknowledgeRestart(t) \/ PublishStatus(t) \/ AppendEvent(t)

Calls ==
    \E t \in Tasks, b \in Bindings :
        TriggerSync(t, b) \/ RequestEnable(t, b) \/ RequestAck(t, b)

Environment ==
    \/ \E b \in Bindings : Rotate(b)
    \/ \E x \in Targets : RemoveTarget(x) \/ OverwriteTarget(x)
    \/ Crash
    \/ \E changed \in SUBSET Bindings : Reconfigure(changed)

Next == Calls \/ (\E t \in Tasks : Step(t)) \/ Environment

Spec == Init /\ [][Next]_vars

(***************************************************************************)
(* The scheduler's loop calls sync again after every interval, and the     *)
(* runtime runs every call that can go on.  Fairness is strong because a   *)
(* call waiting at a gate is served in the order of arrival (tokio's       *)
(* Mutex), so a gate that keeps being freed is eventually its own; clients *)
(* need not call at all.                                                   *)
(***************************************************************************)
Fairness ==
    /\ \A t \in Tasks : SF_vars(Step(t))
    /\ \A b \in Bindings : WF_vars(TriggerSync(b, b))

FairSpec == Spec /\ Fairness

-----------------------------------------------------------------------------
(* Properties.                                                             *)

States == [applied  : [Bindings -> Versions],
           status   : [Bindings -> Outcomes],
           disabled : SUBSET Bindings]

\* Every variable has its type.
TypeOK ==
    /\ srcVersion \in [Bindings -> Versions]
    /\ present \in SUBSET Targets
    /\ content \in [Targets -> [Bindings -> Versions]]
    /\ mem \in States
    /\ disk \in States
    /\ stateLock \in Tasks \cup {None}
    /\ flight \in [Bindings -> Tasks \cup {None}]
    /\ targetFlight \in [Targets -> Tasks \cup {None}]
    /\ pc \in [Tasks -> Labels]
    /\ op \in [Tasks -> {"none", "sync", "enable", "ack"}]
    /\ cur \in [Tasks -> Bindings \cup {None}]
    /\ missing \in [Tasks -> BOOLEAN]
    /\ version \in [Tasks -> Versions]
    /\ payload \in [Tasks -> Versions]
    /\ rendered \in [Tasks -> [Bindings -> Versions]]
    /\ outcome \in [Tasks -> Outcomes]
    /\ faults \in 0..MaxFaults
    /\ written \in [Bindings -> Versions]
    /\ disturbed \in SUBSET Targets
    /\ owed \in SUBSET Docker

Active(t)   == pc[t] \notin {"idle", "waitFlight"}
Applying(t) == pc[t] \in {"write", "commit", "publishApplied"}
Delivering(t) == pc[t] \in {"version", "value", "waitTarget"} \/ Applying(t)

\* At most one call is active per binding, whoever triggered it: requirement 4,
\* "concurrent triggers for the same binding do not overlap".  The gate map is
\* consulted by three functions, and dropped and rebuilt by Crash and
\* Reconfigure.
SingleFlight ==
    \A t, u \in Tasks : t # u /\ Active(t) /\ Active(u) => cur[t] # cur[u]

\* Two bindings that share a file never render and write it at the same time.
TargetSerialized ==
    \A t, u \in Tasks :
        t # u /\ Applying(t) /\ Applying(u) => TargetOf[cur[t]] # TargetOf[cur[u]]

\* Whenever nobody is inside the state mutex, what the engine shows and acts
\* on is what a restart would load.
MemoryIsDisk == stateLock = None => mem = disk

\* S06: a version is recorded as applied only after the target was written with
\* it, so the record never runs ahead of the writes, crash or no crash.
AppliedWasWritten ==
    \A b \in Bindings : disk.applied[b] <= written[b] /\ mem.applied[b] <= written[b]

\* No other binding writes whole files over b's target.
Undestroyed(b) ==
    \A a \in Bindings \ {b} : TargetOf[a] = TargetOf[b] => Style[a] # "whole"

\* No lost update: as long as nobody else touches the file, a target holds for
\* each binding exactly the last version a sync of that binding wrote, however
\* many bindings render into the same file.
NoLostUpdate ==
    \A b \in Bindings :
        Undestroyed(b) /\ TargetOf[b] \notin disturbed
            => content[TargetOf[b]][b] = written[b]

\* F05: a payload is on its way to a target only when its version differs from
\* the recorded one or the target was gone, however long the call waits and
\* whatever other calls record meanwhile.
PayloadOnDemand ==
    \A t \in Tasks :
        pc[t] \in {"value", "waitTarget", "write", "commit"}
            => missing[t] \/ version[t] # disk.applied[cur[t]]

\* A disabled binding is never on its way to its target: the flag is set by a
\* sync that then lets nothing through, and outlives crashes.
DisabledNeverDelivers ==
    \A t \in Tasks : Delivering(t) => cur[t] \notin disk.disabled

\* A disabled binding stays disabled until a client enables it or its
\* configuration changes; in particular no other binding's state update, and
\* no crash, undoes it.
OnlyEnableReenables ==
    [][\A b \in disk.disabled :
          b \in disk'.disabled
          \/ (\E t \in Clients : op[t] = "enable" /\ cur[t] = b /\ EnableBinding(t))
          \/ (\E changed \in SUBSET Bindings : b \in changed /\ Reconfigure(changed))]_vars

\* The recorded version never goes back, except to "none" for a changed binding.
AppliedNeverRegresses ==
    [][\A b \in Bindings :
          disk'.applied[b] >= disk.applied[b]
          \/ (\E changed \in SUBSET Bindings : b \in changed /\ Reconfigure(changed))]_vars

\* A sync never writes an older version than one already written, also when it
\* waited at the target's gate while the source moved on.
WritesNeverRegress == [][\A b \in Bindings : written'[b] >= written[b]]_vars

\* Every call that was accepted returns: no gate or mutex is held forever and
\* no two calls wait for each other.
CallsReturn == \A t \in Tasks : pc[t] # "idle" ~> pc[t] = "idle"

\* What can keep a binding from its current version for good.
Stuck(b) == b \in disk.disabled \/ Refuses(b)

\* S06: a failed operation stays eligible for retry.  Once the source stops
\* changing and the faults stop, every binding either has the current version
\* of its source written and recorded, or is stuck in a way its status shows.
Delivered(b) == written[b] = srcVersion[b] /\ disk.applied[b] = srcVersion[b]
StuckAndShown(b) == Stuck(b) /\ disk.status[b] \in {"Failed", "Disabled"}
Converges == \A b \in Bindings : <>[](Delivered(b) \/ StuckAndShown(b))

\* A Docker write asks for a restart until a client acknowledges it: the status
\* of an idle binding does not read "Unchanged" while a restart is owed
\* (docs/qa-phase2-5.md:3).
RestartNoticeKept ==
    \A b \in Bindings :
        flight[b] = None /\ b \in owed => mem.status[b] # "Unchanged"
=============================================================================
