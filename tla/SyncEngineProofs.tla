--------------------------- MODULE SyncEngineProofs ---------------------------
(***************************************************************************)
(* Theorems about the engine, for any number of bindings, clients and      *)
(* targets and any bounds.                                                 *)
(***************************************************************************)
EXTENDS SyncEngine, TLAPS

USE NamesAssumption, ConfigAssumption, BoundsAssumption

-----------------------------------------------------------------------------
(* Type correctness.                                                       *)

\* A task that is not idle works for a binding.
CurOK == \A t \in Tasks : pc[t] # "idle" => cur[t] \in Bindings

LEMMA BlankType == Blank \in [Bindings -> Versions]
  BY DEF Blank, Versions

LEMMA InitType == Init => TypeOK /\ CurOK
<1> SUFFICES ASSUME Init PROVE TypeOK /\ CurOK
  OBVIOUS
<1>1. 1 \in Versions
  BY DEF Versions
<1>2. EmptyState \in States
  BY BlankType DEF EmptyState, States, Outcomes
<1>3. TypeOK
  BY <1>1, <1>2, BlankType DEF Init, TypeOK, Versions, Labels, Outcomes
<1>4. CurOK
  BY DEF Init, CurOK
<1> QED BY <1>3, <1>4

LEMMA FaultType ==
    ASSUME TypeOK, Fault \/ NoFault
    PROVE  faults' \in 0..MaxFaults
  BY DEF TypeOK, Fault, NoFault

LEMMA PersistType ==
    ASSUME TypeOK, NEW t \in Tasks, NEW next \in States, Persist(t, next)
    PROVE  mem' \in States /\ disk' \in States /\ stateLock' \in Tasks \cup {None}
  BY DEF TypeOK, Persist

LEMMA PublishType ==
    ASSUME TypeOK, NEW t \in Tasks, Publish(t)
    PROVE  mem' \in States /\ disk' \in States /\ stateLock' \in Tasks \cup {None}
  BY DEF TypeOK, Publish

\* A step that ends a call, or ends sync_inner, keeps the types whatever it
\* does to the saved state.
LEMMA ReturnType ==
    ASSUME TypeOK, CurOK, NEW t \in Tasks, Return(t), Fault \/ NoFault,
           mem' \in States, disk' \in States, stateLock' \in Tasks \cup {None},
           owed' \in SUBSET Docker,
           UNCHANGED <<srcVersion, present, content, targetFlight, missing,
                       version, payload, rendered, written, disturbed>>
    PROVE  TypeOK' /\ CurOK'
<1>1. /\ pc' \in [Tasks -> Labels]
      /\ op' \in [Tasks -> {"none", "sync", "enable", "ack"}]
      /\ cur' \in [Tasks -> Bindings \cup {None}]
      /\ outcome' \in [Tasks -> Outcomes]
      /\ flight' \in [Bindings -> Tasks \cup {None}]
  BY DEF TypeOK, Return, Labels, Outcomes
<1>2. TypeOK'
  BY <1>1, FaultType DEF TypeOK
<1>3. CurOK'
  BY DEF TypeOK, CurOK, Return
<1> QED BY <1>2, <1>3

LEMMA InnerReturnsType ==
    ASSUME TypeOK, CurOK, NEW t \in Tasks, pc[t] # "idle",
           NEW o \in Outcomes, InnerReturns(t, o), Fault \/ NoFault,
           mem' \in States, disk' \in States, stateLock' \in Tasks \cup {None},
           UNCHANGED <<srcVersion, present, content, flight, op, cur, written,
                       disturbed, owed>>
    PROVE  TypeOK' /\ CurOK'
<1>1. /\ pc' \in [Tasks -> Labels]
      /\ outcome' \in [Tasks -> Outcomes]
      /\ missing' \in [Tasks -> BOOLEAN]
      /\ version' \in [Tasks -> Versions]
      /\ payload' \in [Tasks -> Versions]
      /\ rendered' \in [Tasks -> [Bindings -> Versions]]
      /\ targetFlight' \in [Targets -> Tasks \cup {None}]
  BY BlankType DEF TypeOK, InnerReturns, Labels, Versions
<1>2. TypeOK'
  BY <1>1, FaultType DEF TypeOK
<1>3. CurOK'
  BY DEF TypeOK, CurOK, InnerReturns
<1> QED BY <1>2, <1>3

\* One lemma per action; the disjuncts that end sync_inner or the call are the
\* business of the two lemmas above.
LEMMA CallType ==
    ASSUME TypeOK, CurOK, NEW t \in Tasks, NEW b \in Bindings,
           TriggerSync(t, b) \/ RequestEnable(t, b) \/ RequestAck(t, b)
    PROVE  TypeOK' /\ CurOK'
<1> USE DEF sourceVars, targetVars, stateVars, gateVars, innerVars, historyVars
<1>1. PICK o \in {"sync", "enable", "ack"} : Call(t, b, o)
  BY DEF TriggerSync, RequestEnable, RequestAck
<1>2. TypeOK'
  BY <1>1 DEF TypeOK, Call, Transition, Labels
<1>3. CurOK'
  BY <1>1 DEF TypeOK, CurOK, Call, Transition
<1> QED BY <1>2, <1>3

LEMMA GateType ==
    ASSUME TypeOK, CurOK, NEW t \in Tasks,
           EnterFlight(t) \/ SkipDisabled(t) \/ PublishStatus(t) \/ AppendEvent(t)
    PROVE  TypeOK' /\ CurOK'
<1> USE DEF sourceVars, targetVars, stateVars, gateVars, innerVars, historyVars
<1>1. CASE EnterFlight(t)
  BY <1>1 DEF TypeOK, CurOK, EnterFlight, Transition, Labels
<1>2. CASE SkipDisabled(t)
  <2>1. /\ mem' \in States /\ disk' \in States
        /\ stateLock' \in Tasks \cup {None}
        /\ owed' \in SUBSET Docker
    BY <1>2 DEF TypeOK, SkipDisabled
  <2> QED
    BY <1>2, <2>1, ReturnType DEF SkipDisabled, NoFault
<1>3. CASE PublishStatus(t)
  BY <1>3 DEF TypeOK, CurOK, PublishStatus, Publish, Transition, Labels
<1>4. CASE AppendEvent(t)
  <2>1. /\ mem' \in States /\ disk' \in States
        /\ stateLock' \in Tasks \cup {None}
        /\ owed' \in SUBSET Docker
    BY <1>4 DEF TypeOK, AppendEvent
  <2> QED
    BY <1>4, <2>1, ReturnType DEF AppendEvent, NoFault
<1> QED BY <1>1, <1>2, <1>3, <1>4

LEMMA ProbeType ==
    ASSUME TypeOK, CurOK, NEW t \in Tasks, Probe(t)
    PROVE  TypeOK' /\ CurOK'
<1> USE DEF sourceVars, targetVars, stateVars, gateVars, innerVars, historyVars
<1>1. CASE \E o \in {"Failed", "Disabled"} :
              InnerReturns(t, o) /\ (Fault \/ NoFault)
  <2>1. PICK o \in Outcomes : InnerReturns(t, o) /\ (Fault \/ NoFault)
    BY <1>1 DEF Outcomes
  <2>2. /\ mem' \in States /\ disk' \in States
        /\ stateLock' \in Tasks \cup {None}
    BY DEF TypeOK, Probe
  <2>3. pc[t] # "idle" /\ UNCHANGED <<srcVersion, present, content, flight, op,
                                      cur, written, disturbed, owed>>
    BY DEF Probe
  <2> QED BY <2>1, <2>2, <2>3, InnerReturnsType
<1>2. CASE /\ pc' = [pc EXCEPT ![t] = "version"]
           /\ missing' = [missing EXCEPT ![t] = Absent(cur[t])]
           /\ UNCHANGED <<version, payload, rendered, outcome, targetFlight>>
           /\ NoFault
  <2>1. TypeOK'
    BY <1>2 DEF TypeOK, Probe, Absent, NoFault, Labels
  <2>2. CurOK'
    BY <1>2 DEF TypeOK, CurOK, Probe
  <2> QED BY <2>1, <2>2
<1> QED BY <1>1, <1>2 DEF Probe

LEMMA ReadVersionType ==
    ASSUME TypeOK, CurOK, NEW t \in Tasks, ReadVersion(t)
    PROVE  TypeOK' /\ CurOK'
<1> USE DEF sourceVars, targetVars, stateVars, gateVars, innerVars, historyVars
<1>1. CASE \E o \in {"Failed", UpToDate(cur[t])} :
              InnerReturns(t, o) /\ (Fault \/ NoFault)
  <2>1. PICK o \in Outcomes : InnerReturns(t, o) /\ (Fault \/ NoFault)
    BY <1>1 DEF Outcomes, UpToDate
  <2>2. /\ mem' \in States /\ disk' \in States
        /\ stateLock' \in Tasks \cup {None}
    BY DEF TypeOK, ReadVersion
  <2>3. pc[t] # "idle" /\ UNCHANGED <<srcVersion, present, content, flight, op,
                                      cur, written, disturbed, owed>>
    BY DEF ReadVersion
  <2> QED BY <2>1, <2>2, <2>3, InnerReturnsType
<1>2. CASE /\ pc' = [pc EXCEPT ![t] = "value"]
           /\ version' = [version EXCEPT ![t] = srcVersion[cur[t]]]
           /\ UNCHANGED <<missing, payload, rendered, outcome, targetFlight>>
           /\ NoFault
  <2>1. srcVersion[cur[t]] \in Versions
    BY DEF TypeOK, CurOK, ReadVersion
  <2>2. TypeOK'
    BY <1>2, <2>1 DEF TypeOK, ReadVersion, NoFault, Labels
  <2>3. CurOK'
    BY <1>2 DEF TypeOK, CurOK, ReadVersion
  <2> QED BY <2>2, <2>3
<1> QED BY <1>1, <1>2 DEF ReadVersion

LEMMA ReadValueType ==
    ASSUME TypeOK, CurOK, NEW t \in Tasks, ReadValue(t)
    PROVE  TypeOK' /\ CurOK'
<1> USE DEF sourceVars, targetVars, stateVars, gateVars, innerVars, historyVars
<1>1. CASE InnerReturns(t, "Failed") /\ (Fault \/ NoFault)
  <2>1. /\ mem' \in States /\ disk' \in States
        /\ stateLock' \in Tasks \cup {None}
    BY DEF TypeOK, ReadValue
  <2>2. pc[t] # "idle" /\ UNCHANGED <<srcVersion, present, content, flight, op,
                                      cur, written, disturbed, owed>>
    BY DEF ReadValue
  <2>3. "Failed" \in Outcomes
    BY DEF Outcomes
  <2> QED BY <1>1, <2>1, <2>2, <2>3, InnerReturnsType
<1>2. CASE /\ pc' = [pc EXCEPT ![t] = "waitTarget"]
           /\ payload' = [payload EXCEPT ![t] = version[t]]
           /\ UNCHANGED <<missing, version, rendered, outcome, targetFlight>>
           /\ NoFault
  <2>1. TypeOK'
    BY <1>2 DEF TypeOK, ReadValue, NoFault, Labels
  <2>2. CurOK'
    BY <1>2 DEF TypeOK, CurOK, ReadValue
  <2> QED BY <2>1, <2>2
<1> QED BY <1>1, <1>2 DEF ReadValue

LEMMA BeginApplyType ==
    ASSUME TypeOK, CurOK, NEW t \in Tasks, BeginApply(t)
    PROVE  TypeOK' /\ CurOK'
<1> USE DEF sourceVars, targetVars, stateVars, gateVars, innerVars, historyVars
<1>1. CASE InnerReturns(t, "Failed") /\ (Fault \/ NoFault)
  <2>1. /\ mem' \in States /\ disk' \in States
        /\ stateLock' \in Tasks \cup {None}
    BY DEF TypeOK, BeginApply
  <2>2. pc[t] # "idle" /\ UNCHANGED <<srcVersion, present, content, flight, op,
                                      cur, written, disturbed, owed>>
    BY DEF BeginApply
  <2>3. "Failed" \in Outcomes
    BY DEF Outcomes
  <2> QED BY <1>1, <2>1, <2>2, <2>3, InnerReturnsType
<1>2. CASE LET x == TargetOf[cur[t]] IN
           /\ pc' = [pc EXCEPT ![t] = "write"]
           /\ targetFlight' = [targetFlight EXCEPT ![x] = t]
           /\ rendered' = [rendered EXCEPT
                              ![t] = Render(cur[t], payload[t], content[x])]
           /\ UNCHANGED <<missing, version, payload, outcome>>
           /\ NoFault
  <2>1. cur[t] \in Bindings /\ TargetOf[cur[t]] \in Targets
    BY DEF CurOK, BeginApply
  <2>2. Render(cur[t], payload[t], content[TargetOf[cur[t]]])
           \in [Bindings -> Versions]
    BY <2>1, BlankType DEF TypeOK, Render
  <2>3. rendered' \in [Tasks -> [Bindings -> Versions]]
    BY <1>2, <2>2 DEF TypeOK
  <2>4. /\ pc' \in [Tasks -> Labels]
        /\ targetFlight' \in [Targets -> Tasks \cup {None}]
    BY <1>2, <2>1 DEF TypeOK, Labels
  <2>5. TypeOK'
    BY <1>2, <2>3, <2>4 DEF TypeOK, BeginApply, NoFault
  <2>6. CurOK'
    BY <1>2 DEF TypeOK, CurOK, BeginApply
  <2> QED BY <2>5, <2>6
<1> QED BY <1>1, <1>2 DEF BeginApply

LEMMA WriteTargetType ==
    ASSUME TypeOK, CurOK, NEW t \in Tasks, WriteTarget(t)
    PROVE  TypeOK' /\ CurOK'
<1> USE DEF sourceVars, targetVars, stateVars, gateVars, innerVars, historyVars
<1>1. CASE Fault /\ InnerReturns(t, "Failed")
           /\ UNCHANGED <<targetVars, written>>
  <2>1. /\ mem' \in States /\ disk' \in States
        /\ stateLock' \in Tasks \cup {None}
    BY DEF TypeOK, WriteTarget
  <2>2. pc[t] # "idle" /\ UNCHANGED <<srcVersion, present, content, flight, op,
                                      cur, written, disturbed, owed>>
    BY <1>1 DEF WriteTarget
  <2>3. "Failed" \in Outcomes
    BY DEF Outcomes
  <2> QED BY <1>1, <2>1, <2>2, <2>3, InnerReturnsType
<1>2. CASE LET b == cur[t]
               x == TargetOf[b]
           IN  /\ pc' = [pc EXCEPT ![t] = "commit"]
               /\ content' = [content EXCEPT ![x] = rendered[t]]
               /\ present' = present \cup {x}
               /\ written' = [written EXCEPT ![b] = payload[t]]
               /\ UNCHANGED <<innerVars, targetFlight>>
               /\ NoFault
  <2>1. cur[t] \in Bindings /\ TargetOf[cur[t]] \in Targets
    BY DEF CurOK, WriteTarget
  <2>2. content' \in [Targets -> [Bindings -> Versions]]
    BY <1>2 DEF TypeOK
  <2>3. /\ pc' \in [Tasks -> Labels] /\ written' \in [Bindings -> Versions]
        /\ present' \in SUBSET Targets
    BY <1>2, <2>1 DEF TypeOK, Labels
  <2>4. TypeOK'
    BY <1>2, <2>2, <2>3 DEF TypeOK, WriteTarget, NoFault
  <2>5. CurOK'
    BY <1>2 DEF TypeOK, CurOK, WriteTarget
  <2> QED BY <2>4, <2>5
<1> QED BY <1>1, <1>2 DEF WriteTarget

LEMMA CommitAppliedType ==
    ASSUME TypeOK, CurOK, NEW t \in Tasks, CommitApplied(t)
    PROVE  TypeOK' /\ CurOK'
<1> USE DEF sourceVars, targetVars, stateVars, gateVars, innerVars, historyVars
<1>1. CASE Fault /\ InnerReturns(t, "Failed") /\ UNCHANGED <<stateVars, owed>>
  <2>1. /\ mem' \in States /\ disk' \in States
        /\ stateLock' \in Tasks \cup {None}
    BY <1>1 DEF TypeOK
  <2>2. pc[t] # "idle" /\ UNCHANGED <<srcVersion, present, content, flight, op,
                                      cur, written, disturbed, owed>>
    BY <1>1 DEF CommitApplied
  <2>3. "Failed" \in Outcomes
    BY DEF Outcomes
  <2> QED BY <1>1, <2>1, <2>2, <2>3, InnerReturnsType
<1>2. CASE LET b == cur[t] IN
           /\ pc' = [pc EXCEPT ![t] = "publishApplied"]
           /\ Persist(t, [mem EXCEPT !.applied[b] = version[t]])
           /\ owed' = IF NeedsRestart(b) THEN owed \cup {b} ELSE owed
           /\ UNCHANGED <<innerVars, targetFlight>>
           /\ NoFault
  <2>1. [mem EXCEPT !.applied[cur[t]] = version[t]] \in States
    BY DEF TypeOK, States
  <2>2. mem' \in States /\ disk' \in States /\ stateLock' \in Tasks \cup {None}
    BY <1>2, <2>1, PersistType
  <2>3. pc' \in [Tasks -> Labels] /\ owed' \in SUBSET Docker
    BY <1>2 DEF TypeOK, NeedsRestart, Labels
  <2>4. TypeOK'
    BY <1>2, <2>2, <2>3 DEF TypeOK, CommitApplied, NoFault
  <2>5. CurOK'
    BY <1>2 DEF TypeOK, CurOK, CommitApplied
  <2> QED BY <2>4, <2>5
<1> QED BY <1>1, <1>2 DEF CommitApplied, AppliedVersion

LEMMA PublishAppliedType ==
    ASSUME TypeOK, CurOK, NEW t \in Tasks, PublishApplied(t)
    PROVE  TypeOK' /\ CurOK'
<1> USE DEF sourceVars, targetVars, stateVars, gateVars, innerVars, historyVars
<1>1. PICK o \in Outcomes : InnerReturns(t, o)
  BY DEF PublishApplied, Outcomes
<1>2. mem' \in States /\ disk' \in States /\ stateLock' \in Tasks \cup {None}
  BY PublishType DEF PublishApplied
<1>3. pc[t] # "idle" /\ UNCHANGED <<srcVersion, present, content, flight, op,
                                    cur, written, disturbed, owed>>
  BY DEF PublishApplied
<1>4. NoFault
  BY DEF PublishApplied, NoFault
<1> QED BY <1>1, <1>2, <1>3, <1>4, InnerReturnsType

LEMMA RecordStatusType ==
    ASSUME TypeOK, CurOK, NEW t \in Tasks, RecordStatus(t)
    PROVE  TypeOK' /\ CurOK'
<1> USE DEF sourceVars, targetVars, stateVars, gateVars, innerVars, historyVars
<1> DEFINE off == IF outcome[t] = "Disabled" THEN {cur[t]} ELSE {}
           next == [mem EXCEPT !.status[cur[t]] = outcome[t],
                               !.disabled = @ \cup off]
<1>1. CASE Fault /\ Return(t) /\ UNCHANGED stateVars
  <2>1. /\ mem' \in States /\ disk' \in States
        /\ stateLock' \in Tasks \cup {None}
        /\ owed' \in SUBSET Docker
    BY <1>1 DEF TypeOK, RecordStatus
  <2>2. UNCHANGED <<srcVersion, present, content, targetFlight, missing,
                    version, payload, rendered, written, disturbed>>
    BY DEF RecordStatus
  <2> QED BY <1>1, <2>1, <2>2, ReturnType
<1>2. CASE /\ pc' = [pc EXCEPT ![t] = "publishStatus"]
           /\ Persist(t, next)
           /\ UNCHANGED <<op, cur, outcome, flight>>
           /\ NoFault
  <2>1. off \in SUBSET Bindings
    BY DEF CurOK, RecordStatus
  <2>2. next \in States
    BY <2>1 DEF TypeOK, States
  <2>3. mem' \in States /\ disk' \in States /\ stateLock' \in Tasks \cup {None}
    <3> HIDE DEF next
    <3> QED BY <1>2, <2>2, PersistType
  <2>4. TypeOK'
    BY <1>2, <2>3 DEF TypeOK, RecordStatus, NoFault, Labels
  <2>5. CurOK'
    BY <1>2 DEF TypeOK, CurOK, RecordStatus
  <2> QED BY <2>4, <2>5
<1> QED BY <1>1, <1>2 DEF RecordStatus

LEMMA EnableBindingType ==
    ASSUME TypeOK, CurOK, NEW t \in Tasks, EnableBinding(t)
    PROVE  TypeOK' /\ CurOK'
<1> USE DEF sourceVars, targetVars, stateVars, gateVars, innerVars, historyVars
<1> DEFINE next == [mem EXCEPT !.disabled = @ \ {cur[t]}]
<1>1. CASE Return(t) /\ UNCHANGED stateVars /\ (Fault \/ NoFault)
  <2>1. /\ mem' \in States /\ disk' \in States
        /\ stateLock' \in Tasks \cup {None}
        /\ owed' \in SUBSET Docker
    BY <1>1 DEF TypeOK, EnableBinding
  <2>2. UNCHANGED <<srcVersion, present, content, targetFlight, missing,
                    version, payload, rendered, written, disturbed>>
    BY DEF EnableBinding
  <2> QED BY <1>1, <2>1, <2>2, ReturnType
<1>2. CASE /\ pc' = [pc EXCEPT ![t] = "publishStatus"]
           /\ Persist(t, next)
           /\ UNCHANGED <<op, cur, outcome, flight>>
           /\ NoFault
  <2>1. next \in States
    BY DEF TypeOK, States
  <2>2. mem' \in States /\ disk' \in States /\ stateLock' \in Tasks \cup {None}
    <3> HIDE DEF next
    <3> QED BY <1>2, <2>1, PersistType
  <2>3. TypeOK'
    BY <1>2, <2>2 DEF TypeOK, CurOK, EnableBinding, NoFault, Labels
  <2>4. CurOK'
    BY <1>2 DEF TypeOK, CurOK, EnableBinding
  <2> QED BY <2>3, <2>4
<1> QED BY <1>1, <1>2 DEF EnableBinding

LEMMA AcknowledgeRestartType ==
    ASSUME TypeOK, CurOK, NEW t \in Tasks, AcknowledgeRestart(t)
    PROVE  TypeOK' /\ CurOK'
<1> USE DEF sourceVars, targetVars, stateVars, gateVars, innerVars, historyVars
<1> DEFINE next == [mem EXCEPT !.status[cur[t]] = "Unchanged"]
<1>1. CASE Return(t) /\ UNCHANGED <<stateVars, owed>> /\ (Fault \/ NoFault)
  <2>1. /\ mem' \in States /\ disk' \in States
        /\ stateLock' \in Tasks \cup {None}
        /\ owed' \in SUBSET Docker
    BY <1>1 DEF TypeOK, AcknowledgeRestart
  <2>2. UNCHANGED <<srcVersion, present, content, targetFlight, missing,
                    version, payload, rendered, written, disturbed>>
    BY DEF AcknowledgeRestart
  <2> QED BY <1>1, <2>1, <2>2, ReturnType
<1>2. CASE /\ pc' = [pc EXCEPT ![t] = "publishStatus"]
           /\ Persist(t, next)
           /\ owed' = owed \ {cur[t]}
           /\ UNCHANGED <<op, cur, outcome, flight>>
           /\ NoFault
  <2>1. next \in States
    BY DEF TypeOK, States, Outcomes
  <2>2. mem' \in States /\ disk' \in States /\ stateLock' \in Tasks \cup {None}
    <3> HIDE DEF next
    <3> QED BY <1>2, <2>1, PersistType
  <2>3. TypeOK'
    BY <1>2, <2>2 DEF TypeOK, AcknowledgeRestart, NoFault, Labels
  <2>4. CurOK'
    BY <1>2 DEF TypeOK, CurOK, AcknowledgeRestart
  <2> QED BY <2>3, <2>4
<1> QED BY <1>1, <1>2 DEF AcknowledgeRestart

LEMMA FreshEngineType ==
    ASSUME TypeOK, FreshEngine, disk' \in States,
           UNCHANGED <<srcVersion, present, content, written, disturbed>>,
           owed' \in SUBSET Docker, Fault
    PROVE  TypeOK' /\ CurOK'
<1>1. /\ missing' \in [Tasks -> BOOLEAN]
      /\ version' \in [Tasks -> Versions]
      /\ payload' \in [Tasks -> Versions]
      /\ rendered' \in [Tasks -> [Bindings -> Versions]]
  BY BlankType DEF FreshEngine, Versions
<1>2. TypeOK'
  BY <1>1, FaultType DEF TypeOK, FreshEngine, Labels, Outcomes
<1>3. CurOK'
  BY DEF CurOK, FreshEngine
<1> QED BY <1>2, <1>3

LEMMA EnvironmentType ==
    ASSUME TypeOK, CurOK, Environment
    PROVE  TypeOK' /\ CurOK'
<1> USE DEF sourceVars, targetVars, stateVars, gateVars, innerVars, historyVars
<1>1. CASE \E b \in Bindings : Rotate(b)
  BY <1>1 DEF Rotate, TypeOK, CurOK, Versions
<1>2. ASSUME NEW x \in Targets, RemoveTarget(x) \/ OverwriteTarget(x)
      PROVE  TypeOK' /\ CurOK'
  <2>1. PICK there \in SUBSET Targets : Disturb(x, there)
    BY <1>2 DEF RemoveTarget, OverwriteTarget, TypeOK
  <2>2. content' \in [Targets -> [Bindings -> Versions]]
    BY <2>1, BlankType DEF Disturb, TypeOK
  <2>3. TypeOK'
    BY <2>1, <2>2, FaultType DEF Disturb, TypeOK
  <2>4. CurOK'
    BY <2>1 DEF Disturb, CurOK
  <2> QED BY <2>3, <2>4
<1>3. CASE Crash
  <2>1. disk' \in States /\ owed' \in SUBSET Docker
    BY <1>3 DEF Crash, TypeOK
  <2> QED BY <1>3, <2>1, FreshEngineType DEF Crash
<1>4. ASSUME NEW changed \in SUBSET Bindings, Reconfigure(changed)
      PROVE  TypeOK' /\ CurOK'
  <2>1. disk' \in States
    BY <1>4 DEF Reconfigure, TypeOK, States, Versions, Outcomes
  <2>2. owed' \in SUBSET Docker
    BY <1>4 DEF Reconfigure, TypeOK
  <2> QED BY <1>4, <2>1, <2>2, FreshEngineType DEF Reconfigure
<1> QED BY <1>1, <1>2, <1>3, <1>4 DEF Environment

LEMMA NextType ==
    ASSUME TypeOK, CurOK, [Next]_vars
    PROVE  TypeOK' /\ CurOK'
<1>1. CASE Calls
  BY <1>1, CallType DEF Calls
<1>2. ASSUME NEW t \in Tasks, Step(t) PROVE TypeOK' /\ CurOK'
  BY <1>2, GateType, ProbeType, ReadVersionType, ReadValueType, BeginApplyType,
     WriteTargetType, CommitAppliedType, PublishAppliedType, RecordStatusType,
     EnableBindingType, AcknowledgeRestartType
     DEF Step, SyncStep
<1>3. CASE Environment
  BY <1>3, EnvironmentType
<1>4. CASE UNCHANGED vars
  BY <1>4 DEF vars, TypeOK, CurOK, sourceVars, targetVars, stateVars, gateVars,
              innerVars, historyVars
<1> QED BY <1>1, <1>2, <1>3, <1>4 DEF Next
\* Every reachable state of the engine is well typed: in particular a task that
\* is not idle works for a configured binding, and no version ever exceeds the
\* newest one of the source.
THEOREM TypeCorrect == Spec => [](TypeOK /\ CurOK)
<1>1. Init => TypeOK /\ CurOK
  BY InitType
<1>2. TypeOK /\ CurOK /\ [Next]_vars => (TypeOK /\ CurOK)'
  BY NextType
<1> QED BY <1>1, <1>2, PTL DEF Spec
=============================================================================
