---------------------------- MODULE WorkspaceProofs ----------------------------
(***************************************************************************)
(* Theorems about the workspace, for any number of bindings, connections,  *)
(* vaults and retries and any bounds.                                      *)
(***************************************************************************)
EXTENDS Workspace, FiniteSetTheorems, TLAPS

\* The schedules are those of the window's engine, one for each of its bindings
\* while the window waits for the user and none beyond that while it saves.
SchedulesOfEngine ==
    /\ \A s \in schedules : engine[s.binding] # None /\ s.ref = engine[s.binding]
    /\ \A s, t \in schedules : s.binding = t.binding => s = t
    /\ window = "idle" =>
           \A b \in Bindings : engine[b] # None => \E s \in schedules : s.binding = b
    /\ window \in {"closed", "write"} => schedules = {}

\* A call runs only while the window waits, for a binding of its engine.
CallOfEngine ==
    call # None => /\ window = "idle"
                   /\ engine[call.binding] # None /\ call.ref = engine[call.binding]

RunInv == TypeOK /\ SchedulesOfEngine /\ CallOfEngine

\* The configuration is the engine's, but for what `config add` may have added
\* to it beside the window.
ConfigFollows ==
    window # "closed" /\ ~raced =>
        \A b \in Bindings :
            config[b] = engine[b] \/ (engine[b] = None /\ config[b] = LocalRef)

\* What is recorded is of a binding of the engine; when the save has invalidated,
\* of one that stays as it is.
AppliedOfEngine ==
    window # "closed" /\ ~raced =>
        \A b \in Bindings :
            applied[b] # None => /\ applied[b] = engine[b]
                                 /\ window = "write" => applied[b] = draft[b]

RecordInv == RunInv /\ ConfigFollows /\ AppliedOfEngine /\ AppliedIsForBinding

\* The configuration that is being saved can be routed.
DraftRoutable == window \in {"abort", "write"} => AllRoutable(catalogue, draft)

RouteInv == RecordInv /\ DraftRoutable /\ CanOpen

\* No drive is connected under the name of an Azure vault that a binding may use.
NamesApart == \A r \in Refs : r.store = "azure" => r.connection \notin DriveNames
-----------------------------------------------------------------------------
(* Type correctness.                                                       *)

USE NamesAssumption, LocationsAssumption, RefsAssumption, NoneAssumption, BoundsAssumption

LEMMA NoConfigType == NoConfig \in Configs
  BY DEF NoConfig, Configs

\* A configuration's schedules sync its bindings.
LEMMA SpawnedType ==
    ASSUME NEW c \in Configs
    PROVE  Spawned(c) \in SUBSET Schedules
  BY DEF Spawned, Configs, Schedules

LEMMA MovesType ==
    ASSUME TypeOK, NEW s \in schedules, NEW at \in {"sleep", "sync", "apply", "retry"},
           NEW attempt \in 0..Retries, Moves(s, at, attempt)
    PROVE  schedules' \in SUBSET Schedules
  BY DEF TypeOK, Moves, Schedules

\* Each way a schedule goes on is a move of its own.
LEMMA RetryMoves ==
    ASSUME TypeOK, NEW s \in schedules, Sleeps(s) \/ Retry(s)
    PROVE  \E at \in {"sleep", "retry"}, attempt \in 0..Retries : Moves(s, at, attempt)
<1>1. s.attempt \in 0..Retries
  BY DEF TypeOK, Schedules
<1>2. s.attempt < Retries => s.attempt + 1 \in 0..Retries
  BY <1>1
<1>3. 0 \in 0..Retries
  OBVIOUS
<1> QED
  BY <1>1, <1>2, <1>3 DEF Sleeps, Retry, MayRetry

LEMMA CataloguedType ==
    ASSUME TypeOK, NEW name \in Names, NEW loc \in Locations, Catalogued(name, loc)
    PROVE  catalogue' \in Catalogues
<1>1. PICK S \in SUBSET Names : catalogue \in [S -> Locations]
  BY DEF TypeOK, Catalogues
<1>2. catalogue' \in [S \cup {name} -> Locations]
  BY <1>1 DEF Catalogued
<1>3. S \cup {name} \in SUBSET Names
  BY <1>1
<1> QED
  BY <1>2, <1>3 DEF Catalogues

\* What the window keeps in memory has its type again once it is gone.
LEMMA GoneType ==
    ASSUME TypeOK, Gone, faults' \in 0..MaxFaults
    PROVE  TypeOK'
  BY NoConfigType DEF TypeOK, Gone, files, Schedules

LEMMA BackgroundType == TypeOK /\ Background => TypeOK'
<1> SUFFICES ASSUME TypeOK, Background PROVE TypeOK'
  OBVIOUS
<1>1. ASSUME NEW s \in schedules, Wake(s) PROVE TypeOK'
  <2>1. s.attempt \in 0..Retries
    BY DEF TypeOK, Schedules
  <2>2. schedules' \in SUBSET Schedules
    BY <1>1, <2>1, MovesType DEF Wake
  <2> QED BY <1>1, <2>2 DEF TypeOK, Wake, files, saving, bounds
<1>2. ASSUME NEW s \in schedules, EndSync(s) PROVE TypeOK'
  <2>1. schedules' \in SUBSET Schedules
    BY <1>2, RetryMoves, MovesType DEF EndSync
  <2> QED BY <1>2, <2>1 DEF TypeOK, EndSync, files, saving, bounds
<1>3. ASSUME NEW s \in schedules, BeginApply(s) PROVE TypeOK'
  <2>1. s.attempt \in 0..Retries
    BY DEF TypeOK, Schedules
  <2>2. schedules' \in SUBSET Schedules
    BY <1>3, <2>1, MovesType DEF BeginApply
  <2> QED BY <1>3, <2>2 DEF TypeOK, BeginApply, files, saving, bounds
<1>4. ASSUME NEW s \in schedules, EndApply(s) PROVE TypeOK'
  <2>1. schedules' \in SUBSET Schedules
    BY <1>4, RetryMoves, MovesType DEF EndApply
  <2>2. s.binding \in Bindings /\ s.ref \in Refs
    BY DEF TypeOK, Schedules
  <2>3. applied' \in Configs
    BY <1>4, <2>2 DEF TypeOK, EndApply, Configs
  <2> QED BY <1>4, <2>1, <2>3 DEF TypeOK, EndApply, saving, bounds
<1>5. ASSUME RunCall PROVE TypeOK'
  <2>1. call \in Calls
    BY <1>5 DEF TypeOK, RunCall
  <2>2. call' \in Calls
    BY <1>5, <2>1 DEF RunCall, Calls
  <2>3. applied' \in Configs
    BY <1>5, <2>1 DEF TypeOK, RunCall, Calls, Configs
  <2> QED BY <1>5, <2>2, <2>3 DEF TypeOK, RunCall, saving, bounds
<1> QED
  BY <1>1, <1>2, <1>3, <1>4, <1>5 DEF Background, RunSchedule, Wake

LEMMA ButtonsType == TypeOK /\ Buttons => TypeOK'
<1> SUFFICES ASSUME TypeOK, Buttons PROVE TypeOK'
  OBVIOUS
<1> USE DEF files, saving, running, bounds
<1>1. ASSUME NEW b \in Bindings, StartCall(b) PROVE TypeOK'
  BY <1>1 DEF TypeOK, StartCall, Calls, Configs
<1>2. ASSUME NEW o \in Bindings, NEW b \in Bindings, NEW r \in Refs \cup {None}, BeginSave(o, b, r) PROVE TypeOK'
  BY <1>2 DEF TypeOK, BeginSave, Configs, Change
<1>3. ASSUME NEW name \in Names, NEW loc \in Locations,
             AddSource(name, loc) \/ SaveDrive(name, loc)
      PROVE  TypeOK'
  <2>1. catalogue' \in Catalogues
    BY <1>3, CataloguedType DEF AddSource, SaveDrive
  <2> QED BY <1>3, <2>1 DEF TypeOK, AddSource, SaveDrive, Change
<1>4. ASSUME NEW name \in Names, RemoveSource(name) PROVE TypeOK'
  <2>1. PICK S \in SUBSET Names : catalogue \in [S -> Locations]
    BY DEF TypeOK, Catalogues
  <2>2. S \ {name} \in SUBSET Names /\ catalogue' \in [S \ {name} -> Locations]
    BY <1>4, <2>1 DEF RemoveSource
  <2>3. catalogue' \in Catalogues
    BY <2>2 DEF Catalogues
  <2> QED BY <1>4, <2>3 DEF TypeOK, RemoveSource, Deselect, Change
<1>5. ASSUME NEW name \in Names \cup {"local"}, SelectSource(name) PROVE TypeOK'
  BY <1>5 DEF TypeOK, SelectSource
<1>6. ASSUME StartVault PROVE TypeOK'
  BY <1>6 DEF TypeOK, StartVault, Catalogues
<1>7. ASSUME Open PROVE TypeOK'
  BY <1>7, SpawnedType DEF TypeOK, Open
<1>8. ASSUME Close PROVE TypeOK'
  <2>1. faults' \in 0..MaxFaults
    BY <1>8 DEF TypeOK, Close
  <2> QED BY <1>8, <2>1, GoneType DEF Close
<1> QED
  BY <1>1, <1>2, <1>3, <1>4, <1>5, <1>6, <1>7, <1>8 DEF Buttons

LEMMA OthersType == TypeOK /\ (JoinCall \/ FinishVault \/ Save \/ Others) => TypeOK'
<1> SUFFICES ASSUME TypeOK, JoinCall \/ FinishVault \/ Save \/ Others PROVE TypeOK'
  OBVIOUS
<1> USE DEF files, saving, running, bounds
<1>1. ASSUME JoinCall \/ FinishVault PROVE TypeOK'
  BY <1>1 DEF TypeOK, JoinCall, FinishVault
<1>2. ASSUME NEW s \in schedules, AbortSchedule(s) PROVE TypeOK'
  BY <1>2 DEF TypeOK, AbortSchedule
<1>3. ASSUME ForgetChanged PROVE TypeOK'
  BY <1>3, SpawnedType, NoConfigType
     DEF TypeOK, ForgetChanged, GiveUp, Fault, Resume, Invalidate, Configs
<1>4. ASSUME WriteConfig PROVE TypeOK'
  BY <1>4, SpawnedType, NoConfigType DEF TypeOK, WriteConfig, GiveUp, Fault, Resume
<1>5. ASSUME CommandReads \/ CommandGivesUp PROVE TypeOK'
  BY <1>5 DEF TypeOK, CommandReads, CommandGivesUp, Change
<1>6. ASSUME Crash PROVE TypeOK'
  <2>1. faults' \in 0..MaxFaults
    BY <1>6 DEF TypeOK, Crash, Fault
  <2> QED BY <1>6, <2>1, GoneType DEF Crash
<1>7. ASSUME NEW b \in Bindings, CommandWrites(b) PROVE TypeOK'
  BY <1>7 DEF TypeOK, CommandWrites, Configs
<1> QED
  BY <1>1, <1>2, <1>3, <1>4, <1>5, <1>6, <1>7 DEF Save, Others

LEMMA NextType == TypeOK /\ [Next]_vars => TypeOK'
<1>1. TypeOK /\ UNCHANGED vars => TypeOK'
  BY DEF TypeOK, vars, files, saving, running, bounds
<1> QED
  BY <1>1, BackgroundType, ButtonsType, OthersType DEF Next

LEMMA InitType == Init => TypeOK
<1>1. [name \in {} |-> None] \in Catalogues
  <2>1. [name \in {} |-> None] \in [{} -> Locations] /\ {} \in SUBSET Names
    OBVIOUS
  <2> QED BY <2>1 DEF Catalogues
<1>2. 0 \in 0..MaxChanges /\ 0 \in 0..MaxFaults
  OBVIOUS
<1> QED
  BY <1>1, <1>2, NoConfigType, Zenon DEF Init, TypeOK

\* Every variable of the workspace keeps its type.
THEOREM WorkspaceTypeCorrect == Spec => []TypeOK
  BY InitType, NextType, PTL DEF Spec

-----------------------------------------------------------------------------
(* The schedules and the call are the engine's.                            *)

\* A move leaves a schedule its binding and its reference.
LEMMA MovesKeepsSchedules ==
    ASSUME RunInv, NEW s \in schedules, NEW at \in {"sleep", "sync", "apply", "retry"},
           NEW attempt \in 0..Retries, Moves(s, at, attempt), UNCHANGED <<window, engine>>
    PROVE  SchedulesOfEngine'
<1> DEFINE t == [s EXCEPT !.at = at, !.attempt = attempt]
<1>1. s \in Schedules
  BY DEF RunInv, TypeOK
<1>2. t.binding = s.binding /\ t.ref = s.ref
  BY <1>1 DEF Schedules
<1>3. schedules' = (schedules \ {s}) \cup {t}
  BY DEF Moves
<1> HIDE DEF t
<1> QED
  BY <1>2, <1>3 DEF RunInv, SchedulesOfEngine

LEMMA SpawnedOfConfig ==
    ASSUME NEW c
    PROVE  /\ \A s \in Spawned(c) :
                 s.binding \in Bindings /\ c[s.binding] # None /\ s.ref = c[s.binding]
           /\ \A s, t \in Spawned(c) : s.binding = t.binding => s = t
           /\ \A b \in Bindings : c[b] # None => \E s \in Spawned(c) : s.binding = b
<1> DEFINE New(b) == [binding |-> b, ref |-> c[b], at |-> "sleep", attempt |-> 0]
<1>1. \A s : s \in Spawned(c) <=> \E b \in Bindings : c[b] # None /\ s = New(b)
  BY DEF Spawned
<1>2. \A b : New(b).binding = b /\ New(b).ref = c[b]
  OBVIOUS
<1> HIDE DEF New
<1> QED
  BY <1>1, <1>2

LEMMA BackgroundRun == RunInv /\ Background => RunInv'
<1> SUFFICES ASSUME RunInv, Background PROVE RunInv'
  OBVIOUS
<1>1. TypeOK'
  BY BackgroundType DEF RunInv
<1>2. ASSUME NEW s \in schedules, Wake(s) \/ EndSync(s) \/ BeginApply(s) \/ EndApply(s)
      PROVE  SchedulesOfEngine' /\ CallOfEngine'
  <2>1. s.attempt \in 0..Retries
    BY DEF RunInv, TypeOK, Schedules
  <2>2. \E at \in {"sleep", "sync", "apply", "retry"}, attempt \in 0..Retries :
            Moves(s, at, attempt)
    BY <1>2, <2>1, RetryMoves DEF RunInv, Wake, EndSync, BeginApply, EndApply, Sleeps
  <2>3. UNCHANGED <<window, engine, call>>
    BY <1>2 DEF Wake, EndSync, BeginApply, EndApply, saving
  <2> QED
    BY <2>2, <2>3, MovesKeepsSchedules DEF RunInv, CallOfEngine
<1>3. ASSUME RunCall PROVE SchedulesOfEngine' /\ CallOfEngine'
  <2>1. call \in Calls
    BY <1>3 DEF RunInv, TypeOK, RunCall
  <2>2. call'.binding = call.binding /\ call'.ref = call.ref
    BY <1>3, <2>1 DEF RunCall, Calls
  <2>3. UNCHANGED <<window, engine, schedules>>
    BY <1>3 DEF RunCall, saving
  <2> QED
    BY <1>3, <2>2, <2>3 DEF RunInv, RunCall, CallOfEngine, SchedulesOfEngine
<1> QED
  BY <1>1, <1>2, <1>3 DEF RunInv, Background, RunSchedule, Wake

LEMMA ButtonsRun == RunInv /\ Buttons => RunInv'
<1> SUFFICES ASSUME RunInv, Buttons PROVE RunInv'
  OBVIOUS
<1>1. TypeOK'
  BY ButtonsType DEF RunInv
<1> USE DEF RunInv, SchedulesOfEngine, CallOfEngine
<1>2. ASSUME NEW b \in Bindings, StartCall(b) PROVE SchedulesOfEngine' /\ CallOfEngine'
  BY <1>2 DEF StartCall, saving
<1>3. ASSUME NEW o \in Bindings, NEW b \in Bindings, NEW r \in Refs \cup {None}, BeginSave(o, b, r)
      PROVE  SchedulesOfEngine' /\ CallOfEngine'
  BY <1>3 DEF BeginSave, running
<1>4. ASSUME UNCHANGED <<saving, running>> PROVE SchedulesOfEngine' /\ CallOfEngine'
  BY <1>4 DEF saving, running
<1>5. ASSUME Open PROVE SchedulesOfEngine' /\ CallOfEngine'
  BY <1>5, SpawnedOfConfig DEF Open
<1>6. ASSUME Close PROVE SchedulesOfEngine' /\ CallOfEngine'
  BY <1>6 DEF Close, Gone
<1> QED
  <2>1. ASSUME NEW name \in Names, NEW loc \in Locations,
               AddSource(name, loc) \/ SaveDrive(name, loc)
        PROVE  UNCHANGED <<saving, running>>
    BY <2>1 DEF AddSource, SaveDrive
  <2>2. ASSUME NEW name, RemoveSource(name) \/ SelectSource(name) \/ StartVault
        PROVE  UNCHANGED <<saving, running>>
    BY <2>2 DEF RemoveSource, SelectSource, StartVault
  <2> QED
    BY <1>1, <1>2, <1>3, <1>4, <1>5, <1>6, <2>1, <2>2 DEF Buttons

LEMMA OthersRun == RunInv /\ (JoinCall \/ FinishVault \/ Save \/ Others) => RunInv'
<1> SUFFICES ASSUME RunInv, JoinCall \/ FinishVault \/ Save \/ Others PROVE RunInv'
  OBVIOUS
<1>1. TypeOK'
  BY OthersType DEF RunInv
<1> USE DEF RunInv, SchedulesOfEngine, CallOfEngine, saving, running
<1>2. ASSUME JoinCall \/ FinishVault PROVE SchedulesOfEngine' /\ CallOfEngine'
  BY <1>2 DEF JoinCall, FinishVault
<1>3. ASSUME NEW s \in schedules, AbortSchedule(s) PROVE SchedulesOfEngine' /\ CallOfEngine'
  BY <1>3 DEF AbortSchedule
<1>4. ASSUME ForgetChanged PROVE SchedulesOfEngine' /\ CallOfEngine'
  BY <1>4, SpawnedOfConfig DEF ForgetChanged, AllJoined, GiveUp, Resume
<1>5. ASSUME WriteConfig PROVE SchedulesOfEngine' /\ CallOfEngine'
  BY <1>5, SpawnedOfConfig DEF WriteConfig, GiveUp, Resume
<1>6. ASSUME CommandReads \/ CommandGivesUp PROVE SchedulesOfEngine' /\ CallOfEngine'
  BY <1>6 DEF CommandReads, CommandGivesUp
<1>7. ASSUME Crash PROVE SchedulesOfEngine' /\ CallOfEngine'
  BY <1>7 DEF Crash, Gone
<1>8. ASSUME NEW b \in Bindings, CommandWrites(b) PROVE SchedulesOfEngine' /\ CallOfEngine'
  BY <1>8 DEF CommandWrites
<1> QED
  BY <1>1, <1>2, <1>3, <1>4, <1>5, <1>6, <1>7, <1>8 DEF Save, Others

LEMMA NextRun == RunInv /\ [Next]_vars => RunInv'
<1>1. RunInv /\ UNCHANGED vars => RunInv'
  <2>1. RunInv /\ UNCHANGED vars => SchedulesOfEngine' /\ CallOfEngine'
    BY DEF RunInv, SchedulesOfEngine, CallOfEngine, vars, saving, running
  <2> QED
    BY <2>1, NextType DEF RunInv
<1> QED
  BY <1>1, BackgroundRun, ButtonsRun, OthersRun DEF Next

\* One schedule for each binding, which syncs what the engine has.
THEOREM RunInvariant == Spec => []RunInv
<1>1. Init => RunInv
  BY InitType DEF Init, RunInv, SchedulesOfEngine, CallOfEngine
<1> QED
  BY <1>1, NextRun, PTL DEF Spec

\* However often a user saves and wherever a save fails, each binding of the
\* engine has one schedule while the window waits, and that syncs the source
\* which the engine has for it.
THEOREM SchedulesStayOne == Spec => []OneScheduleEach
<1>1. RunInv => OneScheduleEach
  <2> SUFFICES ASSUME RunInv, window = "idle", NEW b \in Bindings
               PROVE  Cardinality({s \in schedules : s.binding = b})
                          = IF engine[b] = None THEN 0 ELSE 1
    BY DEF RunInv, SchedulesOfEngine, OneScheduleEach
  <2>1. CASE engine[b] = None
    <3>1. {s \in schedules : s.binding = b} = {}
      BY <2>1 DEF RunInv, SchedulesOfEngine
    <3> QED
      BY <2>1, <3>1, FS_EmptySet
  <2>2. CASE engine[b] # None
    <3>1. PICK s \in schedules : s.binding = b
      BY <2>2 DEF RunInv, SchedulesOfEngine
    <3>2. {t \in schedules : t.binding = b} = {s}
      BY <3>1 DEF RunInv, SchedulesOfEngine
    <3> QED
      BY <2>2, <3>2, FS_Singleton
  <2> QED
    BY <2>1, <2>2
<1> QED
  BY <1>1, RunInvariant, PTL

-----------------------------------------------------------------------------
(* What is recorded is of the present binding.                             *)

\* A step that leaves the files, the window and the history alone keeps what is
\* said of the records.
LEMMA RecordsStay ==
    ASSUME RecordInv, RunInv', UNCHANGED <<config, applied, window, engine, draft, raced>>
    PROVE  RecordInv'
  BY DEF RecordInv, ConfigFollows, AppliedOfEngine, AppliedIsForBinding

\* Recording a version of a binding as the engine has it.
LEMMA RecordedOfEngine ==
    ASSUME RecordInv, RunInv', UNCHANGED <<config, window, engine, draft, raced>>,
           window \in {"idle", "abort"}, NEW b \in Bindings, engine[b] # None,
           applied' = [applied EXCEPT ![b] = engine[b]]
    PROVE  RecordInv'
<1>1. applied \in [Bindings -> Refs \cup {None}]
  BY DEF RecordInv, RunInv, TypeOK, Configs
<1>2. \A c \in Bindings : applied'[c] = IF c = b THEN engine[b] ELSE applied[c]
  BY <1>1
<1> QED
  BY <1>2 DEF RecordInv, ConfigFollows, AppliedOfEngine, AppliedIsForBinding

\* Whatever the window kept is gone, the files stay.
LEMMA GoneRecords == ASSUME RecordInv, RunInv', Gone PROVE RecordInv'
  BY DEF RecordInv, Gone, files, ConfigFollows, AppliedOfEngine, AppliedIsForBinding

LEMMA BackgroundRecords == RecordInv /\ Background => RecordInv'
<1> SUFFICES ASSUME RecordInv, Background PROVE RecordInv'
  OBVIOUS
<1>1. RunInv'
  BY BackgroundRun DEF RecordInv
<1>2. ASSUME NEW s \in schedules, Wake(s) \/ EndSync(s) \/ BeginApply(s) PROVE RecordInv'
  BY <1>1, <1>2, RecordsStay DEF Wake, EndSync, BeginApply, files, saving
<1>3. ASSUME NEW s \in schedules, EndApply(s) PROVE RecordInv'
  <2>1. s.binding \in Bindings /\ engine[s.binding] # None /\ s.ref = engine[s.binding]
    BY DEF RecordInv, RunInv, TypeOK, Schedules, SchedulesOfEngine
  <2>2. window \in {"idle", "abort"}
    BY DEF RecordInv, RunInv, TypeOK, SchedulesOfEngine
  <2>3. UNCHANGED <<config, window, engine, draft, raced>>
    BY <1>3 DEF EndApply, saving
  <2>4. applied' = [applied EXCEPT ![s.binding] = engine[s.binding]] \/ UNCHANGED applied
    BY <1>3, <2>1 DEF EndApply
  <2> QED
    BY <1>1, <2>1, <2>2, <2>3, <2>4, RecordedOfEngine, RecordsStay
<1>4. ASSUME RunCall PROVE RecordInv'
  <2>1. call # None /\ call \in Calls
    BY <1>4 DEF RunCall, RecordInv, RunInv, TypeOK
  <2>2. /\ call.binding \in Bindings /\ window = "idle"
        /\ engine[call.binding] # None /\ call.ref = engine[call.binding]
    BY <2>1 DEF Calls, RecordInv, RunInv, CallOfEngine
  <2>3. UNCHANGED <<config, window, engine, draft, raced>>
    BY <1>4 DEF RunCall, saving
  <2>4. applied' = [applied EXCEPT ![call.binding] = engine[call.binding]] \/ UNCHANGED applied
    BY <1>4, <2>2 DEF RunCall
  <2> QED
    BY <1>1, <2>2, <2>3, <2>4, RecordedOfEngine, RecordsStay
<1> QED
  BY <1>2, <1>3, <1>4 DEF Background, RunSchedule, Wake

LEMMA ButtonsRecords == RecordInv /\ Buttons => RecordInv'
<1> SUFFICES ASSUME RecordInv, Buttons PROVE RecordInv'
  OBVIOUS
<1>1. RunInv'
  BY ButtonsRun DEF RecordInv
<1>2. ASSUME NEW b \in Bindings, StartCall(b) PROVE RecordInv'
  BY <1>1, <1>2, RecordsStay DEF StartCall, files, saving
<1>3. ASSUME NEW o \in Bindings, NEW b \in Bindings, NEW r \in Refs \cup {None}, BeginSave(o, b, r) PROVE RecordInv'
  BY <1>1, <1>3
     DEF BeginSave, files, RecordInv, ConfigFollows, AppliedOfEngine, AppliedIsForBinding
<1>4. ASSUME NEW name \in Names, NEW loc \in Locations,
             AddSource(name, loc) \/ SaveDrive(name, loc)
      PROVE  RecordInv'
  BY <1>1, <1>4, RecordsStay DEF AddSource, SaveDrive, saving
<1>5. ASSUME NEW name, RemoveSource(name) \/ SelectSource(name) \/ StartVault
      PROVE  RecordInv'
  BY <1>1, <1>5, RecordsStay DEF RemoveSource, SelectSource, StartVault, files, saving
<1>6. ASSUME Open PROVE RecordInv'
  BY <1>1, <1>6 DEF Open, files, RecordInv, ConfigFollows, AppliedOfEngine, AppliedIsForBinding
<1>7. ASSUME Close PROVE RecordInv'
  BY <1>1, <1>7, GoneRecords DEF Close
<1> QED
  BY <1>2, <1>3, <1>4, <1>5, <1>6, <1>7 DEF Buttons

LEMMA SaveRecords == RecordInv /\ Save => RecordInv'
<1> SUFFICES ASSUME RecordInv, Save PROVE RecordInv'
  OBVIOUS
<1>1. RunInv'
  BY OthersRun DEF RecordInv
<1>2. ASSUME NEW s \in schedules, AbortSchedule(s) PROVE RecordInv'
  BY <1>1, <1>2, RecordsStay DEF AbortSchedule, files, saving
<1>3. ASSUME GiveUp, window \in {"abort", "write"}, UNCHANGED raced PROVE RecordInv'
  BY <1>1, <1>3
     DEF GiveUp, RecordInv, ConfigFollows, AppliedOfEngine, AppliedIsForBinding
<1>4. ASSUME ForgetChanged, ~GiveUp PROVE RecordInv'
  <2>1. /\ \A b \in Bindings :
              applied'[b] = IF engine[b] # draft[b] THEN None ELSE applied[b]
        /\ UNCHANGED <<config, engine, draft, raced>> /\ window' = "write" /\ window = "abort"
    BY <1>4 DEF ForgetChanged, Invalidate, AllJoined
  <2> QED
    BY <1>1, <2>1 DEF RecordInv, ConfigFollows, AppliedOfEngine, AppliedIsForBinding
<1>5. ASSUME WriteConfig, ~GiveUp PROVE RecordInv'
  BY <1>1, <1>5
     DEF WriteConfig, RecordInv, ConfigFollows, AppliedOfEngine, AppliedIsForBinding
<1> QED
  BY <1>2, <1>3, <1>4, <1>5 DEF Save, ForgetChanged, AllJoined, WriteConfig

LEMMA OthersRecords == RecordInv /\ (JoinCall \/ FinishVault \/ Others) => RecordInv'
<1> SUFFICES ASSUME RecordInv, JoinCall \/ FinishVault \/ Others PROVE RecordInv'
  OBVIOUS
<1>1. RunInv'
  BY OthersRun DEF RecordInv
<1>2. ASSUME JoinCall \/ FinishVault \/ CommandReads \/ CommandGivesUp PROVE RecordInv'
  BY <1>1, <1>2, RecordsStay
     DEF JoinCall, FinishVault, CommandReads, CommandGivesUp, files, saving
<1>3. ASSUME Crash PROVE RecordInv'
  BY <1>1, <1>3, GoneRecords DEF Crash
<1>4. ASSUME NEW b \in Bindings, CommandWrites(b) PROVE RecordInv'
  <2>1. CASE raced'
    BY <1>1, <1>4, <2>1
       DEF CommandWrites, saving, RecordInv, ConfigFollows, AppliedOfEngine, AppliedIsForBinding
  <2>2. CASE ~raced'
    <3>1. ~raced /\ config = command /\ config[b] = None
      BY <1>4, <2>2 DEF CommandWrites
    <3>2. \A c \in Bindings : config'[c] = IF c = b THEN LocalRef ELSE config[c]
      BY <1>4, <3>1 DEF CommandWrites, RecordInv, RunInv, TypeOK, Configs
    <3>3. UNCHANGED <<applied, window, engine, draft>>
      BY <1>4 DEF CommandWrites, saving
    <3>4. LocalRef # None
      OBVIOUS
    <3>5. ConfigFollows'
      BY <3>1, <3>2, <3>3, <3>4 DEF RecordInv, ConfigFollows
    <3>6. AppliedOfEngine' /\ AppliedIsForBinding'
      BY <3>1, <3>2, <3>3 DEF RecordInv, AppliedOfEngine, AppliedIsForBinding
    <3> QED
      BY <1>1, <3>5, <3>6 DEF RecordInv
  <2> QED
    BY <2>1, <2>2
<1> QED
  BY <1>2, <1>3, <1>4 DEF Others

LEMMA NextRecords == RecordInv /\ [Next]_vars => RecordInv'
<1>1. RecordInv /\ UNCHANGED vars => RecordInv'
  BY NextRun, RecordsStay DEF RecordInv, vars, files, saving
<1> QED
  BY <1>1, BackgroundRecords, ButtonsRecords, SaveRecords, OthersRecords DEF Next

\* The invariant of the window's engine and what is recorded.
THEOREM RecordInvariant == Spec => []RecordInv
<1>1. Init => RecordInv
  <2>1. Init => RunInv
    BY InitType DEF Init, RunInv, SchedulesOfEngine, CallOfEngine
  <2>2. Init => ConfigFollows /\ AppliedOfEngine /\ AppliedIsForBinding
    BY DEF Init, NoConfig, ConfigFollows, AppliedOfEngine, AppliedIsForBinding
  <2> QED
    BY <2>1, <2>2 DEF RecordInv
<1> QED
  BY <1>1, NextRecords, PTL DEF Spec

\* Whatever schedules, calls, saves, failures and crashes do beside each other, a
\* recorded version is of the binding that is configured.
THEOREM RecordsAreForBindings == Spec => []AppliedIsForBinding
<1>1. RecordInv => AppliedIsForBinding
  BY DEF RecordInv
<1> QED
  BY <1>1, RecordInvariant, PTL

-----------------------------------------------------------------------------
(* What a binding's reference leads to.                                    *)

\* The workspace's own vault is always there.
LEMMA LocalRoutable ==
    ASSUME NEW cat \in Catalogues
    PROVE  /\ Routable(cat, LocalRef)
           /\ Reads(cat, LocalRef) = [store |-> "local", vault |-> "local"]
  BY DEF Catalogues, Routable, Reads, LocalRef

\* What a change of the catalogue leaves of the other names.
LEMMA OtherNamesStay ==
    ASSUME NEW name, NEW r, r.connection # name,
           \/ \E loc : Catalogued(name, loc)
           \/ catalogue' = [n \in DOMAIN catalogue \ {name} |-> catalogue[n]]
    PROVE  /\ Routable(catalogue', r) <=> Routable(catalogue, r)
           /\ Reads(catalogue', r) = Reads(catalogue, r)
  BY DEF Catalogued, Routable, Reads

\* A configured reference can be routed after each change of the catalogue, and
\* to the same vault as before.
LEMMA ReferencesStay ==
    ASSUME NamesApart, RouteInv, TypeOK', ~raced, NEW name \in Names, NEW loc \in Locations,
           AddSource(name, loc) \/ SaveDrive(name, loc) \/ RemoveSource(name),
           NEW b \in Bindings, config[b] # None
    PROVE  /\ Routable(catalogue', config[b])
           /\ Reads(catalogue', config[b]) = Reads(catalogue, config[b])
<1> DEFINE r == config[b]
<1>1. /\ catalogue \in Catalogues /\ catalogue' \in Catalogues
      /\ Routable(catalogue, r)
  BY DEF RouteInv, RecordInv, RunInv, TypeOK, CanOpen, AllRoutable
<1>2. r \in Refs
  BY DEF RouteInv, RecordInv, RunInv, TypeOK, Configs
<1>3. engine[b] = r \/ r = LocalRef
  BY DEF RouteInv, RecordInv, ConfigFollows, AddSource, SaveDrive, RemoveSource
<1>4. CASE r = LocalRef
  BY <1>1, <1>4, LocalRoutable
<1>5. CASE engine[b] = r /\ r.connection # name
  BY <1>1, <1>5, OtherNamesStay DEF AddSource, SaveDrive, RemoveSource
<1>6. CASE engine[b] = r /\ r.connection = name
  <2>1. ~RemoveSource(name)
    BY <1>6 DEF RemoveSource, Used
  <2>2. Catalogued(name, loc)
    BY <2>1 DEF AddSource, SaveDrive
  <2>3. name # "local"
    OBVIOUS
  <2>4. r.connection \notin DOMAIN catalogue => r.store = "azure"
    BY <1>1, <1>6, <2>3 DEF Routable
  <2>5. name \in DOMAIN catalogue' /\ catalogue'[name] = loc
    BY <2>2 DEF Catalogued
  <2>6. loc = [store |-> loc.store, vault |-> loc.vault]
    OBVIOUS
  <2>7. CASE AddSource(name, loc)
    <3>1. name \notin DOMAIN catalogue /\ r.store = "azure" /\ loc.store = r.store
      BY <1>6, <2>4, <2>7 DEF AddSource
    <3>2. loc.vault = name
      BY <2>7, <3>1 DEF AddSource, NamedAsVault
    <3> QED
      BY <1>6, <2>5, <2>6, <3>1, <3>2 DEF Routable, Reads
  <2>8. CASE SaveDrive(name, loc)
    <3>1. name \in DOMAIN catalogue
      BY <1>2, <1>6, <2>4, <2>8 DEF SaveDrive, NamesApart
    <3>2. catalogue[name].store = loc.store /\ catalogue[name].vault = loc.vault
      BY <2>8, <3>1 DEF SaveDrive, SameVault
    <3>3. catalogue[name] \in Locations
      BY <1>1, <3>1 DEF Catalogues
    <3>4. catalogue[name] = loc
      BY <2>6, <3>2, <3>3
    <3> QED
      BY <1>1, <1>6, <2>5, <3>1, <3>4 DEF Routable, Reads
  <2> QED
    BY <2>1, <2>7, <2>8
<1> HIDE DEF r
<1> QED
  BY <1>3, <1>4, <1>5, <1>6 DEF r

\* Every other step leaves the catalogue alone.
LEMMA CatalogueStays ==
    ASSUME [Next]_vars
    PROVE  \/ \E name \in Names, loc \in Locations : AddSource(name, loc) \/ SaveDrive(name, loc)
           \/ \E name \in Names : RemoveSource(name)
           \/ UNCHANGED catalogue
<1> USE DEF files
<1>1. CASE Background
  BY <1>1 DEF Background, RunSchedule, Wake, EndSync, BeginApply, EndApply, RunCall
<1>2. CASE Buttons
  BY <1>2 DEF Buttons, StartCall, BeginSave, SelectSource, StartVault, Open, Close, Gone
<1>3. CASE JoinCall \/ FinishVault \/ Save
  BY <1>3 DEF JoinCall, FinishVault, Save, AbortSchedule, ForgetChanged, WriteConfig
<1>4. CASE Others
  BY <1>4 DEF Others, CommandReads, CommandGivesUp, CommandWrites, Crash, Gone
<1>5. CASE UNCHANGED vars
  BY <1>5 DEF vars
<1> QED
  BY <1>1, <1>2, <1>3, <1>4, <1>5 DEF Next

LEMMA NextRoutes == NamesApart /\ RouteInv /\ [Next]_vars => RouteInv'
<1> SUFFICES ASSUME NamesApart, RouteInv, [Next]_vars PROVE RouteInv'
  OBVIOUS
<1>1. RecordInv'
  BY NextRecords DEF RouteInv
<1>2. TypeOK' /\ TypeOK
  BY <1>1 DEF RouteInv, RecordInv, RunInv
<1> USE DEF DraftRoutable, CanOpen, AllRoutable
<1>3. ASSUME NEW name \in Names, NEW loc \in Locations,
             AddSource(name, loc) \/ SaveDrive(name, loc) \/ RemoveSource(name)
      PROVE  RouteInv'
  <2>1. UNCHANGED <<config, window, raced>> /\ window = "idle"
    BY <1>3 DEF AddSource, SaveDrive, RemoveSource, saving
  <2>2. CanOpen'
    BY <1>2, <1>3, <2>1, ReferencesStay
  <2> QED
    BY <1>1, <2>1, <2>2 DEF RouteInv
<1>4. ASSUME NEW name \in Names, RemoveSource(name) PROVE RouteInv'
  <2>1. PICK loc \in Locations : TRUE
    BY <1>2, <1>4 DEF RemoveSource, TypeOK, Catalogues
  <2> QED
    BY <1>3, <1>4
<1>5. ASSUME UNCHANGED catalogue PROVE RouteInv'
  <2>1. CASE UNCHANGED <<config, draft, window, raced>>
    BY <1>1, <1>5, <2>1 DEF RouteInv
  <2>2. ASSUME NEW o \in Bindings, NEW b \in Bindings, NEW r \in Refs \cup {None}, BeginSave(o, b, r) PROVE RouteInv'
    BY <1>1, <2>2 DEF BeginSave, files, RouteInv
  <2>3. CASE ForgetChanged
    BY <1>1, <1>5, <2>3 DEF ForgetChanged, AllJoined, GiveUp, RouteInv
  <2>4. CASE WriteConfig
    BY <1>1, <1>5, <2>4 DEF WriteConfig, GiveUp, RouteInv
  <2>5. CASE Open \/ Close \/ Crash
    BY <1>1, <2>5 DEF Open, Close, Crash, Gone, files, RouteInv
  <2>6. ASSUME NEW b \in Bindings, CommandWrites(b) PROVE RouteInv'
    <3>1. UNCHANGED <<draft, window>> /\ (~raced' => ~raced /\ config = command)
      BY <2>6 DEF CommandWrites, saving
    <3>2. ~raced' => \A c \in Bindings : config'[c] = IF c = b THEN LocalRef ELSE config[c]
      BY <1>2, <2>6, <3>1 DEF CommandWrites, TypeOK, Configs
    <3>3. Routable(catalogue, LocalRef)
      BY <1>2, LocalRoutable DEF TypeOK
    <3> QED
      BY <1>1, <1>5, <3>1, <3>2, <3>3 DEF RouteInv
  <2>7. CASE Background
    BY <2>1, <2>7
       DEF Background, RunSchedule, Wake, EndSync, BeginApply, EndApply, RunCall, files, saving
  <2>8. ASSUME NEW name, NEW b, SelectSource(name) \/ StartVault \/ StartCall(b) PROVE RouteInv'
    BY <2>1, <2>8 DEF SelectSource, StartVault, StartCall, files, saving
  <2>9. CASE JoinCall \/ FinishVault \/ CommandReads \/ CommandGivesUp
             \/ \E s \in schedules : AbortSchedule(s)
    BY <2>1, <2>9
       DEF JoinCall, FinishVault, CommandReads, CommandGivesUp, AbortSchedule, files, saving
  <2>10. CASE UNCHANGED vars
    BY <2>1, <2>10 DEF vars, files, saving
  <2> QED
    BY <1>3, <1>4, <2>2, <2>3, <2>4, <2>5, <2>6, <2>7, <2>8, <2>9, <2>10
       DEF Next, Buttons, Save, Others
<1> QED
  BY <1>3, <1>4, <1>5, CatalogueStays

LEMMA RouteInvariant == ASSUME NamesApart PROVE Spec => []RouteInv
<1>1. Init => RouteInv
  <2>1. Init => RecordInv
    BY InitType DEF Init, RunInv, SchedulesOfEngine, CallOfEngine, RecordInv, NoConfig,
       ConfigFollows, AppliedOfEngine, AppliedIsForBinding
  <2> QED
    BY <2>1 DEF Init, NoConfig, RouteInv, DraftRoutable, CanOpen, AllRoutable
<1>2. RouteInv /\ [Next]_vars => RouteInv'
  BY NextRoutes
<1> QED
  BY <1>1, <1>2, PTL DEF Spec

\* As long as no drive takes the name of an Azure vault that bindings use, no order
\* of saves, removals, additions, reconnections, failures and crashes leaves a
\* workspace that the window refuses to open.
THEOREM WorkspaceCanBeOpened == ASSUME NamesApart PROVE Spec => []CanOpen
<1>1. RouteInv => CanOpen
  BY DEF RouteInv
<1> QED
  BY <1>1, RouteInvariant, PTL

\* Under the same condition no change of the catalogue repoints a saved binding to
\* another vault.
THEOREM BindingsStayPointed == ASSUME NamesApart PROVE Spec => NeverRepointed
<1>1. ASSUME RouteInv, RouteInv', [Next]_vars
      PROVE  \A b \in Bindings :
                config[b] # None /\ config'[b] = config[b] /\ ~raced'
                    => Reads(catalogue', config[b]) = Reads(catalogue, config[b])
  <2> SUFFICES ASSUME NEW b \in Bindings, config[b] # None, ~raced'
               PROVE  Reads(catalogue', config[b]) = Reads(catalogue, config[b])
    OBVIOUS
  <2>1. TypeOK /\ TypeOK'
    BY <1>1 DEF RouteInv, RecordInv, RunInv
  <2>2. ASSUME NEW name \in Names, NEW loc \in Locations,
               AddSource(name, loc) \/ SaveDrive(name, loc) \/ RemoveSource(name)
        PROVE  Reads(catalogue', config[b]) = Reads(catalogue, config[b])
    BY <1>1, <2>1, <2>2, ReferencesStay DEF AddSource, SaveDrive, RemoveSource
  <2>3. ASSUME NEW name \in Names, RemoveSource(name) PROVE \E loc \in Locations : TRUE
    BY <2>1, <2>3 DEF RemoveSource, TypeOK, Catalogues
  <2> QED
    BY <1>1, <2>2, <2>3, CatalogueStays DEF Reads
<1> QED
  BY <1>1, RouteInvariant, PTL DEF Spec, NeverRepointed

-----------------------------------------------------------------------------
(* The vault the window shows.                                             *)

LEMMA NextSelection == TypeOK /\ SelectedIsThere /\ [Next]_vars => SelectedIsThere'
<1> SUFFICES ASSUME TypeOK, SelectedIsThere, [Next]_vars PROVE SelectedIsThere'
  OBVIOUS
<1> USE DEF SelectedIsThere, Openable, TypeOK
<1>1. ASSUME NEW name \in Names, NEW loc \in Locations,
             AddSource(name, loc) \/ SaveDrive(name, loc)
      PROVE  SelectedIsThere'
  <2>1. UNCHANGED <<selected, vaultCall>> /\ Catalogued(name, loc)
    BY <1>1 DEF AddSource, SaveDrive
  <2>2. name \in DOMAIN catalogue => loc.store # "azure"
    BY <1>1 DEF AddSource, SaveDrive
  <2> QED
    BY <2>1, <2>2 DEF Catalogued
<1>2. ASSUME NEW name \in Names, RemoveSource(name) PROVE SelectedIsThere'
  BY <1>2 DEF RemoveSource, Deselect
<1>3. ASSUME UNCHANGED catalogue PROVE SelectedIsThere'
  <2>1. CASE UNCHANGED <<selected, vaultCall>>
    BY <1>3, <2>1
  <2>2. ASSUME NEW name \in Names \cup {"local"}, SelectSource(name) PROVE SelectedIsThere'
    BY <1>3, <2>2 DEF SelectSource
  <2>3. CASE StartVault
    BY <1>3, <2>3 DEF StartVault
  <2>4. CASE FinishVault
    BY <1>3, <2>4 DEF FinishVault
  <2>5. CASE Close \/ Crash
    BY <2>5 DEF Close, Crash, Gone
  <2>6. CASE Background \/ JoinCall \/ Save
    BY <2>1, <2>6
       DEF Background, RunSchedule, Wake, EndSync, BeginApply, EndApply, RunCall, JoinCall,
           Save, AbortSchedule, ForgetChanged, WriteConfig
  <2>7. ASSUME NEW o, NEW b, NEW r, StartCall(b) \/ BeginSave(o, b, r) \/ CommandWrites(b)
        PROVE  SelectedIsThere'
    BY <2>1, <2>7 DEF StartCall, BeginSave, CommandWrites
  <2>8. CASE Open \/ CommandReads \/ CommandGivesUp \/ UNCHANGED vars
    BY <2>1, <2>8 DEF Open, CommandReads, CommandGivesUp, vars
  <2> QED
    BY <1>1, <1>2, <2>2, <2>3, <2>4, <2>5, <2>6, <2>7, <2>8 DEF Next, Buttons, Others
<1> QED
  BY <1>1, <1>2, <1>3, CatalogueStays

\* The window never shows, nor works in, a vault whose connection is removed.
THEOREM SelectionIsThere == Spec => []SelectedIsThere
<1>1. Init => SelectedIsThere
  BY DEF Init, SelectedIsThere, Openable
<1> QED
  BY <1>1, NextSelection, WorkspaceTypeCorrect, PTL DEF Spec
=============================================================================
