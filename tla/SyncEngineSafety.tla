--------------------------- MODULE SyncEngineSafety ---------------------------
(***************************************************************************)
(* Safety theorems about the engine, for any number of bindings, clients   *)
(* and targets and any bounds, and that it implements SecretDelivery.      *)
(***************************************************************************)
EXTENDS SyncEngineRefinement, SyncEngineProofs

USE NamesAssumption, ConfigAssumption, BoundsAssumption

-----------------------------------------------------------------------------
(* The gates.  SingleFlight and TargetSerialized speak of two tasks; what  *)
(* is inductive is that a task past a gate is the one the gate names.      *)

GateInv ==
    \A t \in Tasks :
        /\ Active(t) => flight[cur[t]] = t
        /\ Applying(t) => targetFlight[TargetOf[cur[t]]] = t

LEMMA GateInnerReturns ==
    ASSUME TypeOK, CurOK, GateInv, NEW t \in Tasks, NEW o, InnerReturns(t, o),
           Active(t), UNCHANGED <<cur, flight>>
    PROVE  GateInv'
<1> SUFFICES ASSUME NEW u \in Tasks
             PROVE  /\ Active(u)' => flight'[cur'[u]] = u
                    /\ Applying(u)' => targetFlight'[TargetOf[cur'[u]]] = u
  BY DEF GateInv
<1>1. pc' = [pc EXCEPT ![t] = "record"]
  BY DEF InnerReturns
<1>2. Active(u)' => flight'[cur'[u]] = u
  BY <1>1 DEF TypeOK, GateInv, Active
<1>3. ASSUME Applying(u)' PROVE targetFlight'[TargetOf[cur'[u]]] = u
  <2>1. u # t /\ Applying(u)
    BY <1>1, <1>3 DEF TypeOK, Applying
  <2>2. cur[u] \in Bindings /\ TargetOf[cur[u]] \in Targets
    BY <2>1 DEF CurOK, Applying
  <2>3. targetFlight[TargetOf[cur[u]]] = u
    BY <2>1 DEF GateInv
  <2> QED BY <2>1, <2>2, <2>3 DEF InnerReturns
<1> QED BY <1>2, <1>3

LEMMA GateReturn ==
    ASSUME TypeOK, CurOK, GateInv, NEW t \in Tasks, Return(t),
           Active(t), UNCHANGED targetFlight
    PROVE  GateInv'
  BY DEF TypeOK, CurOK, GateInv, Return, Active, Applying

LEMMA GateAdvance ==
    ASSUME TypeOK, CurOK, GateInv, NEW t \in Tasks,
           NEW to, pc' = [pc EXCEPT ![t] = to],
           Active(t), to \in {"write", "commit", "publishApplied"} => Applying(t),
           UNCHANGED <<cur, flight, targetFlight>>
    PROVE  GateInv'
  BY DEF TypeOK, CurOK, GateInv, Active, Applying

LEMMA GateEnter ==
    ASSUME TypeOK, CurOK, GateInv, NEW t \in Tasks, EnterFlight(t)
    PROVE  GateInv'
<1> USE DEF sourceVars, targetVars, stateVars, gateVars, innerVars, historyVars
<1> SUFFICES ASSUME NEW u \in Tasks
             PROVE  /\ Active(u)' => flight'[cur'[u]] = u
                    /\ Applying(u)' => targetFlight'[TargetOf[cur'[u]]] = u
  BY DEF GateInv
<1>1. /\ pc[t] = "waitFlight" /\ pc' = [pc EXCEPT ![t] = "entered"]
      /\ flight[cur[t]] = None /\ flight' = [flight EXCEPT ![cur[t]] = t]
      /\ UNCHANGED <<cur, targetFlight>> /\ cur[t] \in Bindings
  BY DEF EnterFlight, Transition, FlightFree, CurOK
<1>2. CASE u = t
  BY <1>1, <1>2 DEF TypeOK, Active, Applying
<1>3. CASE u # t
  <2>1. pc'[u] = pc[u]
    BY <1>1, <1>3 DEF TypeOK
  <2>2. ASSUME Active(u) PROVE flight'[cur[u]] = u
    <3>1. flight[cur[u]] = u /\ u # None /\ cur[u] \in Bindings
      BY <2>2 DEF CurOK, GateInv, Active, Tasks
    <3>2. cur[u] # cur[t]
      BY <1>1, <3>1
    <3> QED BY <1>1, <3>1, <3>2 DEF TypeOK
  <2> QED BY <1>1, <2>1, <2>2 DEF GateInv, Active, Applying
<1> QED BY <1>2, <1>3

LEMMA GateBeginApply ==
    ASSUME TypeOK, CurOK, GateInv, NEW t \in Tasks, BeginApply(t)
    PROVE  GateInv'
<1> USE DEF sourceVars, targetVars, stateVars, gateVars, innerVars, historyVars
<1>1. CASE InnerReturns(t, "Failed")
  BY <1>1, GateInnerReturns DEF BeginApply, Active
<1>2. CASE /\ pc' = [pc EXCEPT ![t] = "write"]
           /\ targetFlight' = [targetFlight EXCEPT ![TargetOf[cur[t]]] = t]
  <2> SUFFICES ASSUME NEW u \in Tasks
               PROVE  /\ Active(u)' => flight'[cur'[u]] = u
                      /\ Applying(u)' => targetFlight'[TargetOf[cur'[u]]] = u
    BY DEF GateInv
  <2>1. /\ pc[t] = "waitTarget" /\ UNCHANGED <<cur, flight>>
        /\ targetFlight[TargetOf[cur[t]]] = None
    BY DEF BeginApply, TargetFree
  <2>2. cur[t] \in Bindings /\ TargetOf[cur[t]] \in Targets
    BY <2>1 DEF CurOK
  <2>3. CASE u = t
    BY <1>2, <2>1, <2>2, <2>3 DEF TypeOK, GateInv, Active, Applying
  <2>4. CASE u # t
    <3>1. pc'[u] = pc[u]
      BY <1>2, <2>4 DEF TypeOK
    <3>2. ASSUME Applying(u) PROVE targetFlight'[TargetOf[cur[u]]] = u
      <4>1. targetFlight[TargetOf[cur[u]]] = u /\ u # None
        BY <3>2 DEF GateInv, Tasks
      <4>2. TargetOf[cur[u]] # TargetOf[cur[t]]
        BY <2>1, <4>1
      <4>3. TargetOf[cur[u]] \in Targets
        BY <3>2 DEF CurOK, Applying
      <4> QED BY <1>2, <4>1, <4>2, <4>3 DEF TypeOK
    <3> QED BY <2>1, <3>1, <3>2 DEF GateInv, Active, Applying
  <2> QED BY <2>3, <2>4
<1> QED BY <1>1, <1>2 DEF BeginApply

LEMMA GateStep ==
    ASSUME TypeOK, CurOK, GateInv, NEW t \in Tasks, Step(t)
    PROVE  GateInv'
<1> USE DEF sourceVars, targetVars, stateVars, gateVars, innerVars, historyVars
<1>1. CASE SkipDisabled(t)
  BY <1>1, GateReturn DEF SkipDisabled, Active
<1>2. CASE Probe(t)
  BY <1>2, GateInnerReturns, GateAdvance DEF Probe, Active
<1>3. CASE ReadVersion(t)
  BY <1>3, GateInnerReturns, GateAdvance DEF ReadVersion, Active
<1>4. CASE ReadValue(t)
  BY <1>4, GateInnerReturns, GateAdvance DEF ReadValue, Active
<1>5. CASE WriteTarget(t)
  BY <1>5, GateInnerReturns, GateAdvance DEF WriteTarget, Active, Applying
<1>6. CASE CommitApplied(t)
  BY <1>6, GateInnerReturns, GateAdvance DEF CommitApplied, Active, Applying
<1>7. CASE PublishApplied(t)
  BY <1>7, GateInnerReturns DEF PublishApplied, Active
<1>8. CASE RecordStatus(t)
  BY <1>8, GateReturn, GateAdvance DEF RecordStatus, Active
<1>9. CASE EnableBinding(t)
  BY <1>9, GateReturn, GateAdvance DEF EnableBinding, Active
<1>10. CASE AcknowledgeRestart(t)
  BY <1>10, GateReturn, GateAdvance DEF AcknowledgeRestart, Active
<1>11. CASE PublishStatus(t)
  BY <1>11, GateAdvance DEF PublishStatus, Transition, Active
<1>12. CASE AppendEvent(t)
  BY <1>12, GateReturn DEF AppendEvent, Active
<1> QED
  BY <1>1, <1>2, <1>3, <1>4, <1>5, <1>6, <1>7, <1>8, <1>9, <1>10, <1>11, <1>12,
     GateEnter, GateBeginApply DEF Step, SyncStep

LEMMA GateNext ==
    ASSUME TypeOK, CurOK, GateInv, [Next]_vars
    PROVE  GateInv'
<1> USE DEF sourceVars, targetVars, stateVars, gateVars, innerVars, historyVars
<1>1. ASSUME NEW t \in Tasks, NEW b \in Bindings, NEW o, Call(t, b, o)
      PROVE  GateInv'
  BY <1>1 DEF Call, Transition, TypeOK, GateInv, Active, Applying
<1>2. CASE Calls
  BY <1>1, <1>2 DEF Calls, TriggerSync, RequestEnable, RequestAck
<1>3. CASE Environment
  <2>1. CASE FreshEngine
    BY <2>1 DEF FreshEngine, GateInv, Active, Applying
  <2>2. CASE UNCHANGED <<gateVars, pc, cur>>
    BY <2>2 DEF GateInv, Active, Applying
  <2> QED
    BY <1>3, <2>1, <2>2 DEF Environment, Rotate, RemoveTarget, OverwriteTarget,
                            Disturb, Crash, Reconfigure
<1>4. CASE UNCHANGED vars
  BY <1>4 DEF vars, GateInv, Active, Applying
<1> QED BY <1>2, <1>3, <1>4, GateStep DEF Next

\* Whoever is past a gate holds it.
LEMMA GatesHeld == Spec => [](TypeOK /\ CurOK /\ GateInv)
<1>1. Init => TypeOK /\ CurOK /\ GateInv
  BY InitType DEF Init, GateInv, Active, Applying
<1>2. TypeOK /\ CurOK /\ GateInv /\ [Next]_vars => (TypeOK /\ CurOK /\ GateInv)'
  BY NextType, GateNext
<1> QED BY <1>1, <1>2, PTL DEF Spec

\* At most one call is active for a binding (requirement 4), whatever number of
\* bindings and callers there is.
THEOREM SyncsDoNotOverlap == Spec => []SingleFlight
<1>1. TypeOK /\ CurOK /\ GateInv => SingleFlight
  BY DEF GateInv, SingleFlight
<1> QED BY <1>1, GatesHeld, PTL

\* At most one call renders and writes a target, whatever number of bindings
\* share it.
THEOREM TargetsAreSerialized == Spec => []TargetSerialized
<1>1. TypeOK /\ CurOK /\ GateInv => TargetSerialized
  BY DEF GateInv, TargetSerialized
<1> QED BY <1>1, GatesHeld, PTL

-----------------------------------------------------------------------------
(* What a step of a task amounts to.  The invariants below tell a step     *)
(* that brings a call nearer to its target from one that does not.         *)

\* Everything the world, the files and the gates show stays as it was.
Settled == UNCHANGED <<srcVersion, content, written, disturbed>>

\* The call enters, ends, or does its bookkeeping: it delivers nothing, and of
\* the saved state it changes no applied version.
Aside(t) ==
    /\ pc'[t] \in {"idle", "entered", "record", "publishStatus", "event"}
    /\ Settled
    /\ \/ UNCHANGED disk
       \/ /\ MutexFree
          /\ ~Delivering(t) /\ Active(t)
          /\ disk'.applied = mem.applied
          /\ \/ disk'.disabled \in {mem.disabled, mem.disabled \cup {cur[t]}}
             \/ EnableBinding(t) /\ disk'.disabled = mem.disabled \ {cur[t]}

Admitted(t) ==
    /\ pc'[t] = "version"
    /\ MutexFree /\ cur[t] \notin mem.disabled
    /\ Settled /\ UNCHANGED <<cur, disk>>

Compared(t) ==
    /\ pc[t] = "version" /\ pc'[t] = "value"
    /\ MutexFree /\ ~Current(t)
    /\ version'[t] = srcVersion[cur[t]]
    /\ Settled /\ UNCHANGED <<cur, disk, missing>>

Fetched(t) ==
    /\ pc[t] = "value" /\ pc'[t] = "waitTarget"
    /\ payload'[t] = version[t]
    /\ Settled /\ UNCHANGED <<cur, disk, missing, version>>

Rendered(t) ==
    /\ pc[t] = "waitTarget" /\ pc'[t] = "write"
    /\ rendered'[t] = Render(cur[t], payload[t], content[TargetOf[cur[t]]])
    /\ Settled /\ UNCHANGED <<cur, disk, missing, version, payload>>

Wrote(t) ==
    /\ pc[t] = "write" /\ pc'[t] = "commit"
    /\ content' = [content EXCEPT ![TargetOf[cur[t]]] = rendered[t]]
    /\ written' = [written EXCEPT ![cur[t]] = payload[t]]
    /\ UNCHANGED <<srcVersion, disturbed, cur, disk, missing, version, payload>>

Recorded(t) ==
    /\ pc[t] = "commit" /\ pc'[t] = "publishApplied"
    /\ MutexFree
    /\ disk'.applied = [mem.applied EXCEPT ![cur[t]] = version[t]]
    /\ disk'.disabled = mem.disabled
    /\ Settled /\ UNCHANGED cur

Shape(t) ==
    \/ Aside(t) \/ Admitted(t) \/ Compared(t) \/ Fetched(t) \/ Rendered(t)
    \/ Wrote(t) \/ Recorded(t)

\* A step that ends sync_inner or the call and leaves state.json alone.
LEMMA AsideShape ==
    ASSUME TypeOK, NEW t \in Tasks, Settled, UNCHANGED disk,
           Return(t) \/ (\E o \in Outcomes : InnerReturns(t, o))
    PROVE  Shape(t)
  BY DEF TypeOK, Return, InnerReturns, Aside, Shape

LEMMA DeliveryShape ==
    ASSUME TypeOK, CurOK, NEW t \in Tasks,
           \/ Probe(t) \/ ReadVersion(t) \/ ReadValue(t) \/ BeginApply(t)
           \/ WriteTarget(t) \/ CommitApplied(t) \/ PublishApplied(t)
    PROVE  Shape(t)
<1> USE DEF sourceVars, targetVars, stateVars, gateVars, innerVars, historyVars
<1>1. CASE Probe(t)
  <2>1. Settled /\ UNCHANGED <<disk, cur>> /\ MutexFree /\ cur[t] \notin mem.disabled
    BY <1>1 DEF Probe, Settled, Disabled
  <2>2. CASE \E o \in Outcomes : InnerReturns(t, o)
    BY <2>1, <2>2, AsideShape
  <2>3. CASE pc' = [pc EXCEPT ![t] = "version"]
    BY <2>1, <2>3 DEF TypeOK, Admitted, Shape
  <2> QED BY <1>1, <2>2, <2>3 DEF Probe, Outcomes
<1>2. CASE ReadVersion(t)
  <2>1. Settled /\ UNCHANGED <<disk, cur>> /\ MutexFree /\ pc[t] = "version"
    BY <1>2 DEF ReadVersion, Settled
  <2>2. CASE \E o \in Outcomes : InnerReturns(t, o)
    BY <2>1, <2>2, AsideShape
  <2>3. CASE /\ ~Current(t)
             /\ pc' = [pc EXCEPT ![t] = "value"]
             /\ version' = [version EXCEPT ![t] = srcVersion[cur[t]]]
             /\ UNCHANGED missing
    BY <2>1, <2>3 DEF TypeOK, Compared, Shape
  <2> QED BY <1>2, <2>2, <2>3 DEF ReadVersion, UpToDate, Outcomes
<1>3. CASE ReadValue(t)
  <2>1. Settled /\ UNCHANGED <<disk, cur>> /\ pc[t] = "value"
    BY <1>3 DEF ReadValue, Settled
  <2>2. CASE \E o \in Outcomes : InnerReturns(t, o)
    BY <2>1, <2>2, AsideShape
  <2>3. CASE /\ pc' = [pc EXCEPT ![t] = "waitTarget"]
             /\ payload' = [payload EXCEPT ![t] = version[t]]
             /\ UNCHANGED <<missing, version>>
    BY <2>1, <2>3 DEF TypeOK, Fetched, Shape
  <2> QED BY <1>3, <2>2, <2>3 DEF ReadValue, Outcomes
<1>4. CASE BeginApply(t)
  <2>1. Settled /\ UNCHANGED <<disk, cur>> /\ pc[t] = "waitTarget"
    BY <1>4 DEF BeginApply, Settled
  <2>2. CASE \E o \in Outcomes : InnerReturns(t, o)
    BY <2>1, <2>2, AsideShape
  <2>3. CASE /\ pc' = [pc EXCEPT ![t] = "write"]
             /\ rendered' = [rendered EXCEPT ![t] =
                    Render(cur[t], payload[t], content[TargetOf[cur[t]]])]
             /\ UNCHANGED <<missing, version, payload>>
    BY <2>1, <2>3 DEF TypeOK, Rendered, Shape
  <2> QED BY <1>4, <2>2, <2>3 DEF BeginApply, Outcomes
<1>5. CASE WriteTarget(t)
  <2>1. UNCHANGED <<disk, cur, srcVersion, disturbed>> /\ pc[t] = "write"
    BY <1>5 DEF WriteTarget
  <2>2. CASE /\ \E o \in Outcomes : InnerReturns(t, o)
             /\ UNCHANGED <<content, written>>
    BY <2>1, <2>2, AsideShape DEF Settled
  <2>3. CASE /\ pc' = [pc EXCEPT ![t] = "commit"]
             /\ content' = [content EXCEPT ![TargetOf[cur[t]]] = rendered[t]]
             /\ written' = [written EXCEPT ![cur[t]] = payload[t]]
             /\ UNCHANGED <<missing, version, payload>>
    BY <2>1, <2>3 DEF TypeOK, Wrote, Shape
  <2> QED BY <1>5, <2>2, <2>3 DEF WriteTarget, Outcomes
<1>6. CASE CommitApplied(t)
  <2>1. Settled /\ UNCHANGED cur /\ MutexFree /\ pc[t] = "commit"
    BY <1>6 DEF CommitApplied, Settled
  <2>2. CASE (\E o \in Outcomes : InnerReturns(t, o)) /\ UNCHANGED disk
    BY <2>1, <2>2, AsideShape
  <2>3. CASE /\ pc' = [pc EXCEPT ![t] = "publishApplied"]
             /\ disk' = [mem EXCEPT !.applied[cur[t]] = version[t]]
    <3>1. /\ disk'.applied = [mem.applied EXCEPT ![cur[t]] = version[t]]
          /\ disk'.disabled = mem.disabled
      BY <2>3 DEF TypeOK, States
    <3> QED BY <2>1, <2>3, <3>1 DEF TypeOK, Recorded, Shape
  <2> QED BY <1>6, <2>2, <2>3 DEF CommitApplied, Persist, AppliedVersion, Outcomes
<1>7. CASE PublishApplied(t)
  <2>1. Settled /\ UNCHANGED disk
    BY <1>7 DEF PublishApplied, Publish, Settled
  <2>2. \E o \in Outcomes : InnerReturns(t, o)
    BY <1>7 DEF PublishApplied, Outcomes
  <2> QED BY <2>1, <2>2, AsideShape
<1> QED BY <1>1, <1>2, <1>3, <1>4, <1>5, <1>6, <1>7

LEMMA RecordShape ==
    ASSUME TypeOK, CurOK, NEW t \in Tasks,
           \/ EnterFlight(t) \/ SkipDisabled(t) \/ RecordStatus(t)
           \/ EnableBinding(t) \/ AcknowledgeRestart(t) \/ PublishStatus(t)
           \/ AppendEvent(t)
    PROVE  Shape(t)
<1> USE DEF sourceVars, targetVars, stateVars, gateVars, innerVars, historyVars
<1>1. Settled
  BY DEF Settled, EnterFlight, SkipDisabled, RecordStatus, EnableBinding,
         AcknowledgeRestart, PublishStatus, AppendEvent
<1>2. CASE EnterFlight(t) \/ PublishStatus(t)
  BY <1>1, <1>2 DEF TypeOK, EnterFlight, PublishStatus, Publish, Transition,
                    Aside, Shape
<1>3. CASE SkipDisabled(t) \/ AppendEvent(t)
  BY <1>1, <1>3, AsideShape DEF SkipDisabled, AppendEvent
<1>4. CASE RecordStatus(t)
  <2>1. CASE Return(t) /\ UNCHANGED stateVars
    BY <1>1, <2>1, AsideShape
  <2>2. CASE /\ pc' = [pc EXCEPT ![t] = "publishStatus"]
             /\ Persist(t, [mem EXCEPT !.status[cur[t]] = outcome[t],
                               !.disabled = @ \cup IF outcome[t] = "Disabled"
                                                   THEN {cur[t]} ELSE {}])
    <3>1. /\ disk'.applied = mem.applied
          /\ disk'.disabled \in {mem.disabled, mem.disabled \cup {cur[t]}}
      BY <2>2 DEF TypeOK, States, Persist
    <3> QED BY <1>1, <1>4, <2>2, <3>1 DEF TypeOK, RecordStatus, Delivering,
               Applying, Active, Aside, Shape
  <2> QED BY <1>4, <2>1, <2>2 DEF RecordStatus
<1>5. CASE EnableBinding(t)
  <2>1. CASE Return(t) /\ UNCHANGED stateVars
    BY <1>1, <2>1, AsideShape
  <2>2. CASE /\ pc' = [pc EXCEPT ![t] = "publishStatus"]
             /\ Persist(t, [mem EXCEPT !.disabled = @ \ {cur[t]}])
    <3>1. /\ disk'.applied = mem.applied
          /\ disk'.disabled = mem.disabled \ {cur[t]}
      BY <2>2 DEF TypeOK, States, Persist
    <3>2. pc[t] = "entered"
      BY <1>5 DEF EnableBinding
    <3> QED BY <1>1, <1>5, <2>2, <3>1, <3>2 DEF TypeOK, Persist, Delivering,
               Applying, Active, Aside, Shape
  <2> QED BY <1>5, <2>1, <2>2 DEF EnableBinding
<1>6. CASE AcknowledgeRestart(t)
  <2>1. CASE Return(t) /\ UNCHANGED stateVars
    BY <1>1, <2>1, AsideShape
  <2>2. CASE /\ pc' = [pc EXCEPT ![t] = "publishStatus"]
             /\ Persist(t, [mem EXCEPT !.status[cur[t]] = "Unchanged"])
    <3>1. /\ disk'.applied = mem.applied
          /\ disk'.disabled = mem.disabled
      BY <2>2 DEF TypeOK, States, Persist
    <3> QED BY <1>1, <1>6, <2>2, <3>1 DEF TypeOK, AcknowledgeRestart, Delivering,
               Applying, Active, Aside, Shape
  <2> QED BY <1>6, <2>1, <2>2 DEF AcknowledgeRestart
<1> QED BY <1>2, <1>3, <1>4, <1>5, <1>6

LEMMA StepShape ==
    ASSUME TypeOK, CurOK, NEW t \in Tasks, Step(t)
    PROVE  Shape(t)
  BY DeliveryShape, RecordShape DEF Step, SyncStep

\* A step of one task leaves what another has in hand alone.
LEMMA OthersKeep ==
    ASSUME TypeOK, CurOK, NEW t \in Tasks, Step(t), NEW u \in Tasks, u # t
    PROVE  /\ pc'[u] = pc[u] /\ cur'[u] = cur[u]
           /\ missing'[u] = missing[u] /\ version'[u] = version[u]
           /\ payload'[u] = payload[u] /\ rendered'[u] = rendered[u]
<1> USE DEF sourceVars, targetVars, stateVars, gateVars, innerVars, historyVars
<1> DEFINE Kept == /\ pc'[u] = pc[u] /\ cur'[u] = cur[u]
                   /\ missing'[u] = missing[u] /\ version'[u] = version[u]
                   /\ payload'[u] = payload[u] /\ rendered'[u] = rendered[u]
<1>1. ASSUME Return(t), UNCHANGED <<missing, version, payload, rendered>>
      PROVE  Kept
  BY <1>1 DEF TypeOK, Return
<1>2. ASSUME NEW o, InnerReturns(t, o), UNCHANGED cur
      PROVE  Kept
  BY <1>2 DEF TypeOK, InnerReturns
<1>3. ASSUME NEW to, pc' = [pc EXCEPT ![t] = to], UNCHANGED cur,
             \/ UNCHANGED <<missing, version, payload, rendered>>
             \/ /\ UNCHANGED <<version, payload, rendered>>
                /\ missing' = [missing EXCEPT ![t] = missing'[t]]
             \/ /\ UNCHANGED <<missing, payload, rendered>>
                /\ version' = [version EXCEPT ![t] = version'[t]]
             \/ /\ UNCHANGED <<missing, version, rendered>>
                /\ payload' = [payload EXCEPT ![t] = payload'[t]]
             \/ /\ UNCHANGED <<missing, version, payload>>
                /\ rendered' = [rendered EXCEPT ![t] = rendered'[t]]
      PROVE  Kept
  BY <1>3 DEF TypeOK
<1> SUFFICES Kept
  OBVIOUS
<1> HIDE DEF Kept
<1>4. CASE EnterFlight(t) \/ SkipDisabled(t) \/ PublishStatus(t) \/ AppendEvent(t)
  BY <1>1, <1>3, <1>4 DEF EnterFlight, SkipDisabled, PublishStatus, AppendEvent,
                          Transition
<1>5. CASE Probe(t)
  BY <1>2, <1>3, <1>5 DEF Probe, TypeOK
<1>6. CASE ReadVersion(t)
  BY <1>2, <1>3, <1>6 DEF ReadVersion, TypeOK
<1>7. CASE ReadValue(t)
  BY <1>2, <1>3, <1>7 DEF ReadValue, TypeOK
<1>8. CASE BeginApply(t)
  BY <1>2, <1>3, <1>8 DEF BeginApply, TypeOK
<1>9. CASE WriteTarget(t)
  BY <1>2, <1>3, <1>9 DEF WriteTarget
<1>10. CASE CommitApplied(t)
  BY <1>2, <1>3, <1>10 DEF CommitApplied
<1>11. CASE PublishApplied(t)
  BY <1>2, <1>11 DEF PublishApplied
<1>12. CASE RecordStatus(t)
  BY <1>1, <1>3, <1>12 DEF RecordStatus
<1>13. CASE EnableBinding(t)
  BY <1>1, <1>3, <1>13 DEF EnableBinding
<1>14. CASE AcknowledgeRestart(t)
  BY <1>1, <1>3, <1>14 DEF AcknowledgeRestart
<1> QED
  BY <1>4, <1>5, <1>6, <1>7, <1>8, <1>9, <1>10, <1>11, <1>12, <1>13, <1>14
     DEF Step, SyncStep

\* What the outside world does: it changes the source or a file, or it starts a
\* fresh engine, in which every task is idle.
LEMMA WorldShape ==
    ASSUME TypeOK, Environment
    PROVE  /\ UNCHANGED written
           /\ \A b \in Bindings : srcVersion[b] <= srcVersion'[b]
           /\ \/ UNCHANGED <<stateVars, pc, cur, innerVars>>
              \/ /\ \A t \in Tasks : pc'[t] = "idle"
                 /\ mem' = disk'
                 /\ UNCHANGED <<content, disturbed>>
                 /\ \A b \in Bindings : disk'.applied[b] \in {0, disk.applied[b]}
<1> USE DEF sourceVars, targetVars, stateVars, gateVars, innerVars, historyVars
<1>1. CASE \E b \in Bindings : Rotate(b)
  BY <1>1 DEF Rotate, TypeOK, Versions
<1>2. CASE \E x \in Targets : RemoveTarget(x) \/ OverwriteTarget(x)
  BY <1>2 DEF RemoveTarget, OverwriteTarget, Disturb, TypeOK, Versions
<1>3. CASE Crash
  BY <1>3 DEF Crash, FreshEngine, TypeOK, Versions, States
<1>4. ASSUME NEW changed \in SUBSET Bindings, Reconfigure(changed)
      PROVE  /\ UNCHANGED <<written, srcVersion, content, disturbed>>
             /\ \A t \in Tasks : pc'[t] = "idle"
             /\ mem' = disk'
             /\ \A b \in Bindings : disk'.applied[b] \in {0, disk.applied[b]}
  BY <1>4 DEF Reconfigure, FreshEngine
<1>5. \A b \in Bindings : srcVersion[b] <= srcVersion[b]
  BY DEF TypeOK, Versions
<1> QED BY <1>1, <1>2, <1>3, <1>4, <1>5 DEF Environment

\* What a new call does.
LEMMA CallShape ==
    ASSUME TypeOK, Calls
    PROVE  /\ UNCHANGED <<srcVersion, content, written, disturbed, mem, disk,
                          stateLock, innerVars>>
           /\ \E t \in Tasks : /\ ~Active(t) /\ ~Active(t)'
                               /\ \A u \in Tasks \ {t} :
                                     pc'[u] = pc[u] /\ cur'[u] = cur[u]
<1> USE DEF sourceVars, targetVars, stateVars, gateVars, innerVars, historyVars
<1>1. PICK t \in Tasks, b \in Bindings, o \in {"sync", "enable", "ack"} :
          Call(t, b, o)
  BY DEF Calls, TriggerSync, RequestEnable, RequestAck
<1> QED BY <1>1 DEF Call, Transition, TypeOK, Active

-----------------------------------------------------------------------------
(* Memory and state.json.                                                  *)

LEMMA MemoryNext ==
    ASSUME TypeOK, CurOK, MemoryIsDisk, [Next]_vars
    PROVE  MemoryIsDisk'
<1> USE DEF sourceVars, targetVars, stateVars, gateVars, innerVars, historyVars
<1>1. ASSUME NEW t \in Tasks, Step(t) PROVE MemoryIsDisk'
  <2>1. \/ UNCHANGED stateVars
        \/ Publish(t)
        \/ \E next : Persist(t, next)
    BY <1>1 DEF Step, SyncStep, EnterFlight, SkipDisabled, Probe, ReadVersion,
                ReadValue, BeginApply, WriteTarget, CommitApplied, PublishApplied,
                RecordStatus, EnableBinding, AcknowledgeRestart, PublishStatus,
                AppendEvent
  <2>2. t # None
    BY DEF Tasks
  <2> QED BY <2>1, <2>2 DEF MemoryIsDisk, Publish, Persist
<1>2. CASE Calls
  BY <1>2, CallShape DEF MemoryIsDisk
<1>3. CASE Environment
  BY <1>3, WorldShape DEF MemoryIsDisk
<1>4. CASE UNCHANGED vars
  BY <1>4 DEF vars, MemoryIsDisk
<1> QED BY <1>1, <1>2, <1>3, <1>4 DEF Next

Base == TypeOK /\ CurOK /\ GateInv /\ MemoryIsDisk

LEMMA BaseNext == ASSUME Base, [Next]_vars PROVE Base'
  BY NextType, GateNext, MemoryNext DEF Base

LEMMA BaseHolds == Spec => []Base
<1>1. Init => Base
  BY InitType DEF Init, Base, GateInv, Active, Applying, MemoryIsDisk
<1>2. Base /\ [Next]_vars => Base'
  BY BaseNext
<1> QED BY <1>1, <1>2, PTL DEF Spec

\* Whenever the state mutex is free, memory and state.json agree, whatever
\* calls failed or were cut off by a crash.
THEOREM MemoryMatchesDisk == Spec => []MemoryIsDisk
<1>1. Base => MemoryIsDisk
  BY DEF Base
<1> QED BY <1>1, BaseHolds, PTL

-----------------------------------------------------------------------------
(* Versions.  AppliedWasWritten speaks of what is recorded and written; to *)
(* keep it, a call must hold a version between the two and the source's.   *)

Holding(t) == pc[t] \in {"value", "waitTarget", "write", "commit"}

VersionInv ==
    /\ \A b \in Bindings : /\ written[b] <= srcVersion[b]
                           /\ disk.applied[b] <= written[b]
                           /\ mem.applied[b] <= written[b]
    /\ \A t \in Tasks :
          Holding(t) =>
              /\ written[cur[t]] <= version[t]
              /\ version[t] <= srcVersion[cur[t]]
              /\ pc[t] # "value" => payload[t] = version[t]
              /\ pc[t] = "commit" => written[cur[t]] = version[t]

\* Memory takes its value from memory or from state.json.
LEMMA MemoryStep ==
    ASSUME NEW t \in Tasks, Step(t)
    PROVE  mem' \in {mem, disk}
<1> USE DEF sourceVars, targetVars, stateVars, gateVars, innerVars, historyVars
<1> QED
  BY DEF Step, SyncStep, EnterFlight, SkipDisabled, Probe, ReadVersion,
         ReadValue, BeginApply, WriteTarget, CommitApplied, PublishApplied,
         RecordStatus, EnableBinding, AcknowledgeRestart, PublishStatus,
         AppendEvent, Publish, Persist

\* The values the orderings speak of are numbers.
LEMMA Numbers ==
    ASSUME TypeOK
    PROVE  /\ \A b \in Bindings : /\ written[b] \in Nat /\ srcVersion[b] \in Nat
                                  /\ disk.applied[b] \in Nat
                                  /\ mem.applied[b] \in Nat
           /\ \A t \in Tasks : version[t] \in Nat /\ payload[t] \in Nat
  BY DEF TypeOK, States, Versions

\* Two tasks past the gate work for different bindings.
LEMMA Apart ==
    ASSUME Base, NEW t \in Tasks, NEW u \in Tasks, u # t, Active(t), Active(u)
    PROVE  cur[u] # cur[t] /\ cur[u] \in Bindings /\ cur[t] \in Bindings
  BY DEF Base, GateInv, CurOK, Active

\* A write never takes a binding back, and never beyond its source.
LEMMA WrittenStep ==
    ASSUME Base, VersionInv, NEW t \in Tasks, Step(t)
    PROVE  /\ UNCHANGED srcVersion
           /\ \A b \in Bindings : /\ written[b] <= written'[b]
                                  /\ written'[b] <= srcVersion'[b]
<1>1. Shape(t)
  BY StepShape DEF Base
<1>2. CASE Wrote(t)
  <2>1. /\ cur[t] \in Bindings /\ payload[t] = version[t]
        /\ written[cur[t]] <= payload[t] /\ payload[t] <= srcVersion[cur[t]]
    BY <1>2 DEF Wrote, VersionInv, Holding, Base, CurOK
  <2> QED BY <1>2, <2>1, Numbers DEF Wrote, VersionInv, Base, TypeOK
<1>3. CASE Settled
  BY <1>3, Numbers DEF Settled, VersionInv, Base
<1> QED
  BY <1>1, <1>2, <1>3 DEF Shape, Aside, Admitted, Compared, Fetched, Rendered,
                          Recorded

\* What is recorded was written.
LEMMA AppliedStep ==
    ASSUME Base, VersionInv, NEW t \in Tasks, Step(t), NEW b \in Bindings
    PROVE  disk'.applied[b] <= written'[b] /\ mem'.applied[b] <= written'[b]
<1>1. Shape(t)
  BY StepShape DEF Base
<1>2. disk'.applied[b] <= written[b]
  <2>1. CASE Recorded(t)
    <3>1. /\ version[t] = written[cur[t]]
          /\ disk'.applied = [mem.applied EXCEPT ![cur[t]] = version[t]]
      BY <2>1 DEF Recorded, VersionInv, Holding
    <3>2. mem.applied \in [Bindings -> Versions]
      BY DEF Base, TypeOK, States
    <3> QED BY <3>1, <3>2, Numbers DEF VersionInv, Base
  <2>2. CASE disk'.applied \in {mem.applied, disk.applied}
    BY <2>2 DEF VersionInv
  <2> QED
    BY <1>1, <2>1, <2>2 DEF Shape, Aside, Admitted, Compared, Fetched, Rendered,
                            Wrote
<1>3. mem'.applied[b] <= written[b]
  BY MemoryStep DEF VersionInv
<1>4. written[b] <= written'[b]
  BY WrittenStep
<1>5. /\ TypeOK' /\ written[b] \in Nat /\ written'[b] \in Nat
      /\ disk'.applied[b] \in Nat /\ mem'.applied[b] \in Nat
  <2>1. TypeOK'
    BY NextType DEF Base, Next
  <2> QED BY <2>1 DEF Base, TypeOK, States, Versions
<1> QED BY <1>2, <1>3, <1>4, <1>5

\* What the stepping task holds.
LEMMA HoldingOwn ==
    ASSUME Base, VersionInv, NEW t \in Tasks, Step(t), Holding(t)'
    PROVE  /\ written'[cur'[t]] <= version'[t]
           /\ version'[t] <= srcVersion'[cur'[t]]
           /\ pc'[t] # "value" => payload'[t] = version'[t]
           /\ pc'[t] = "commit" => written'[cur'[t]] = version'[t]
<1>1. Compared(t) \/ Fetched(t) \/ Rendered(t) \/ Wrote(t)
  BY StepShape DEF Base, Shape, Aside, Admitted, Recorded, Holding
<1>2. cur[t] \in Bindings
  BY <1>1 DEF Base, CurOK, Compared, Fetched, Rendered, Wrote
<1>3. CASE Compared(t)
  BY <1>2, <1>3, Numbers DEF Compared, Settled, VersionInv, Base
<1>4. CASE Fetched(t)
  BY <1>2, <1>4 DEF Fetched, Settled, VersionInv, Holding
<1>5. CASE Rendered(t)
  BY <1>2, <1>5 DEF Rendered, Settled, VersionInv, Holding
<1>6. CASE Wrote(t)
  BY <1>2, <1>6, Numbers DEF Wrote, VersionInv, Holding, Base, TypeOK
<1> QED BY <1>1, <1>3, <1>4, <1>5, <1>6

\* What another task holds: only a task past the same gate could disturb it.
LEMMA HoldingOther ==
    ASSUME Base, VersionInv, NEW t \in Tasks, Step(t),
           NEW u \in Tasks, u # t, Holding(u)'
    PROVE  /\ written'[cur'[u]] <= version'[u]
           /\ version'[u] <= srcVersion'[cur'[u]]
           /\ pc'[u] # "value" => payload'[u] = version'[u]
           /\ pc'[u] = "commit" => written'[cur'[u]] = version'[u]
<1>1. /\ pc'[u] = pc[u] /\ cur'[u] = cur[u]
      /\ version'[u] = version[u] /\ payload'[u] = payload[u]
  BY OthersKeep DEF Base
<1>2. Holding(u) /\ UNCHANGED srcVersion
  BY <1>1, WrittenStep DEF Holding
<1>3. written'[cur[u]] = written[cur[u]]
  <2>1. CASE Wrote(t)
    <3>1. cur[u] # cur[t] /\ cur[u] \in Bindings
      BY <1>2, <2>1, Apart DEF Wrote, Holding, Active
    <3> QED BY <2>1, <3>1 DEF Wrote, Base, TypeOK
  <2>2. CASE UNCHANGED written
    BY <2>2
  <2> QED
    BY <2>1, <2>2, StepShape DEF Base, Shape, Settled, Aside, Admitted, Compared,
                                 Fetched, Rendered, Recorded
<1> QED BY <1>1, <1>2, <1>3 DEF VersionInv, Holding

LEMMA VersionNext ==
    ASSUME Base, VersionInv, [Next]_vars
    PROVE  VersionInv'
<1> USE DEF sourceVars, targetVars, stateVars, gateVars, innerVars, historyVars
<1>1. ASSUME NEW t \in Tasks, Step(t) PROVE VersionInv'
  <2>1. \A b \in Bindings : /\ written'[b] <= srcVersion'[b]
                            /\ disk'.applied[b] <= written'[b]
                            /\ mem'.applied[b] <= written'[b]
    BY <1>1, WrittenStep, AppliedStep
  <2>2. \A u \in Tasks :
          Holding(u)' =>
              /\ written'[cur'[u]] <= version'[u]
              /\ version'[u] <= srcVersion'[cur'[u]]
              /\ pc'[u] # "value" => payload'[u] = version'[u]
              /\ pc'[u] = "commit" => written'[cur'[u]] = version'[u]
    BY <1>1, HoldingOwn, HoldingOther
  <2> QED BY <2>1, <2>2 DEF VersionInv
<1>2. CASE Calls
  BY <1>2, CallShape DEF Base, VersionInv, Holding, Active
<1>3. CASE Environment
  <2>1. /\ UNCHANGED written
        /\ \A b \in Bindings : srcVersion[b] <= srcVersion'[b]
    BY <1>3, WorldShape DEF Base
  <2>2. TypeOK /\ TypeOK'
    BY NextType DEF Base
  <2>3. \A b \in Bindings : written'[b] <= srcVersion'[b]
    BY <2>1, <2>2 DEF VersionInv, TypeOK, Versions
  <2>4. CASE UNCHANGED <<stateVars, pc, cur, innerVars>>
    <3>1. \A t \in Tasks : Holding(t) => cur[t] \in Bindings
      BY DEF Base, CurOK, Holding
    <3>2. \A t \in Tasks : Holding(t) => version[t] <= srcVersion'[cur[t]]
      BY <2>1, <2>2, <3>1 DEF VersionInv, TypeOK, Versions
    <3> QED BY <2>1, <2>3, <2>4, <3>2 DEF VersionInv, Holding
  <2>5. CASE /\ \A t \in Tasks : pc'[t] = "idle"
             /\ mem' = disk'
             /\ \A b \in Bindings : disk'.applied[b] \in {0, disk.applied[b]}
    <3>1. \A b \in Bindings : disk'.applied[b] <= written'[b]
      BY <2>1, <2>5, Numbers DEF VersionInv, Base
    <3> QED BY <2>3, <2>5, <3>1 DEF VersionInv, Holding
  <2> QED BY <1>3, <2>4, <2>5, WorldShape DEF Base
<1>4. CASE UNCHANGED vars
  BY <1>4 DEF vars, VersionInv, Holding
<1> QED BY <1>1, <1>2, <1>3, <1>4 DEF Next

LEMMA VersionsHold == Spec => [](Base /\ VersionInv)
<1>1. Init => VersionInv
  BY DEF Init, VersionInv, Holding, Blank, EmptyState
<1>2. Base /\ VersionInv /\ [Next]_vars => VersionInv'
  BY VersionNext
<1> QED BY <1>1, <1>2, BaseHolds, PTL DEF Spec

\* S06: no version is ever recorded as applied, in memory or in state.json,
\* that a sync has not written to the target before.
THEOREM RecordsFollowWrites == Spec => []AppliedWasWritten
<1>1. VersionInv => AppliedWasWritten
  BY DEF VersionInv, AppliedWasWritten
<1> QED BY <1>1, VersionsHold, PTL

\* No sync writes an older version over a newer one, however long it waited.
THEOREM WritesGoForward == Spec => WritesNeverRegress
<1>1. ASSUME Base, VersionInv, [Next]_vars
      PROVE  \A b \in Bindings : written'[b] >= written[b]
  <2>1. ASSUME NEW t \in Tasks, Step(t)
        PROVE  \A b \in Bindings : written[b] <= written'[b]
    BY <1>1, <2>1, WrittenStep
  <2>2. CASE UNCHANGED written
    BY <1>1, <2>2, Numbers DEF Base
  <2>3. TypeOK /\ TypeOK'
    BY <1>1, NextType DEF Base
  <2>4. \A b \in Bindings : written[b] <= written'[b]
    BY <1>1, <2>1, <2>2, CallShape, WorldShape DEF Base, Next, vars, historyVars
  <2> QED BY <2>3, <2>4 DEF TypeOK, Versions
<1>2. Base /\ VersionInv /\ [Next]_vars
        => [\A b \in Bindings : written'[b] >= written[b]]_vars
  BY <1>1
<1> QED BY <1>2, VersionsHold, PTL DEF Spec, WritesNeverRegress

\* The recorded version of a binding goes back only when its configuration
\* changes.
THEOREM RecordsGoForward == Spec => AppliedNeverRegresses
<1> USE DEF sourceVars, targetVars, stateVars, gateVars, innerVars, historyVars
<1> DEFINE Changed(b) ==
        \E changed \in SUBSET Bindings : b \in changed /\ Reconfigure(changed)
<1>1. ASSUME Base, VersionInv, [Next]_vars, NEW b \in Bindings
      PROVE  disk'.applied[b] >= disk.applied[b] \/ Changed(b)
  <2>1. disk.applied[b] \in Nat /\ disk.applied[b] >= disk.applied[b]
    BY <1>1, Numbers DEF Base
  <2>2. ASSUME NEW t \in Tasks, Step(t)
        PROVE  disk'.applied[b] >= disk.applied[b]
    <3>1. CASE Recorded(t)
      <4>1. mem = disk /\ version[t] = written[cur[t]]
        BY <1>1, <3>1 DEF Recorded, Base, MemoryIsDisk, MutexFree, VersionInv,
                          Holding
      <4>2. mem.applied \in [Bindings -> Versions]
        BY <1>1 DEF Base, TypeOK, States
      <4>3. disk.applied[b] <= written[b] /\ written[b] \in Nat
        BY <1>1, Numbers DEF VersionInv, Base
      <4> QED BY <2>1, <3>1, <4>1, <4>2, <4>3 DEF Recorded
    <3>2. CASE Aside(t)
      BY <1>1, <2>1, <3>2 DEF Aside, Base, MemoryIsDisk, MutexFree
    <3>3. CASE UNCHANGED disk
      BY <2>1, <3>3
    <3> QED
      BY <1>1, <2>2, <3>1, <3>2, <3>3, StepShape
         DEF Base, Shape, Admitted, Compared, Fetched, Rendered, Wrote
  <2>3. CASE UNCHANGED disk
    BY <2>1, <2>3
  <2>4. ASSUME NEW changed \in SUBSET Bindings, Reconfigure(changed)
        PROVE  disk'.applied[b] >= disk.applied[b] \/ Changed(b)
    BY <2>1, <2>4 DEF Reconfigure
  <2> QED
    BY <1>1, <2>2, <2>3, <2>4, CallShape
       DEF Base, Next, vars, Environment, Rotate, RemoveTarget, OverwriteTarget,
           Disturb, Crash
<1>2. Base /\ VersionInv /\ [Next]_vars
        => [\A b \in Bindings :
               disk'.applied[b] >= disk.applied[b] \/ Changed(b)]_vars
  BY <1>1
<1> QED BY <1>2, VersionsHold, PTL DEF Spec, AppliedNeverRegresses

-----------------------------------------------------------------------------
(* Content.  Between rendering a target and replacing it, a call knows the *)
(* last written version of every binding that shares the target.           *)

ContentInv ==
    \A b \in Bindings :
        Undestroyed(b) /\ TargetOf[b] \notin disturbed =>
            /\ content[TargetOf[b]][b] = written[b]
            /\ \A t \in Tasks :
                  pc[t] = "write" /\ TargetOf[cur[t]] = TargetOf[b] =>
                      rendered[t][b] = IF b = cur[t] THEN payload[t] ELSE written[b]

LEMMA ContentOwn ==
    ASSUME Base, ContentInv, NEW t \in Tasks, Rendered(t),
           NEW b \in Bindings, Undestroyed(b), TargetOf[b] \notin disturbed,
           TargetOf[cur[t]] = TargetOf[b]
    PROVE  rendered'[t][b] = IF b = cur[t] THEN payload[t] ELSE written[b]
<1>1. /\ cur[t] \in Bindings
      /\ rendered'[t] = Render(cur[t], payload[t], content[TargetOf[b]])
  BY DEF Rendered, Base, CurOK
<1>2. content[TargetOf[b]] \in [Bindings -> Versions]
  BY DEF Base, TypeOK
<1>3. content[TargetOf[b]][b] = written[b]
  BY DEF ContentInv
<1>4. CASE b = cur[t]
  BY <1>1, <1>2, <1>4 DEF Render, Blank
<1>5. CASE b # cur[t]
  <2>1. Style[cur[t]] # "whole"
    BY <1>1, <1>5 DEF Undestroyed
  <2> QED BY <1>1, <1>2, <1>3, <1>5, <2>1 DEF Render
<1> QED BY <1>4, <1>5

LEMMA ContentWrote ==
    ASSUME Base, ContentInv, NEW t \in Tasks, Step(t), Wrote(t),
           NEW b \in Bindings, Undestroyed(b), TargetOf[b] \notin disturbed
    PROVE  /\ content'[TargetOf[b]][b] = written'[b]
           /\ \A u \in Tasks :
                 ~(pc'[u] = "write" /\ TargetOf[cur'[u]] = TargetOf[cur[t]])
<1>1. cur[t] \in Bindings /\ pc[t] = "write" /\ TargetOf[b] \in Targets
  BY DEF Base, CurOK, Wrote
<1>2. content'[TargetOf[b]][b] = written'[b]
  <2>1. CASE TargetOf[b] = TargetOf[cur[t]]
    <3>1. content'[TargetOf[b]][b] = rendered[t][b]
      BY <1>1, <2>1 DEF Wrote, Base, TypeOK
    <3>2. rendered[t][b] = IF b = cur[t] THEN payload[t] ELSE written[b]
      BY <1>1, <2>1 DEF ContentInv
    <3> QED BY <1>1, <3>1, <3>2 DEF Wrote, Base, TypeOK
  <2>2. CASE TargetOf[b] # TargetOf[cur[t]]
    BY <1>1, <2>2 DEF Wrote, Base, TypeOK, ContentInv
  <2> QED BY <2>1, <2>2
<1>3. ASSUME NEW u \in Tasks, pc'[u] = "write",
             TargetOf[cur'[u]] = TargetOf[cur[t]]
      PROVE  FALSE
  <2>1. u # t
    BY <1>3 DEF Wrote
  <2>2. pc[u] = "write" /\ cur'[u] = cur[u]
    BY <1>3, <2>1, OthersKeep DEF Base
  <2> QED BY <1>1, <1>3, <2>1, <2>2 DEF Base, GateInv, Applying
<1> QED BY <1>2, <1>3

LEMMA ContentStep ==
    ASSUME Base, ContentInv, NEW t \in Tasks, Step(t)
    PROVE  ContentInv'
<1>1. Shape(t)
  BY StepShape DEF Base
<1>2. SUFFICES ASSUME NEW b \in Bindings, Undestroyed(b),
                      TargetOf[b] \notin disturbed'
               PROVE  /\ content'[TargetOf[b]][b] = written'[b]
                      /\ \A u \in Tasks :
                            pc'[u] = "write" /\ TargetOf[cur'[u]] = TargetOf[b] =>
                               rendered'[u][b] = IF b = cur'[u] THEN payload'[u]
                                                                ELSE written'[b]
  BY DEF ContentInv, Undestroyed
<1>3. TargetOf[b] \notin disturbed
  BY <1>1, <1>2 DEF Shape, Aside, Admitted, Compared, Fetched, Rendered, Wrote,
                    Recorded, Settled
<1>4. content'[TargetOf[b]][b] = written'[b]
  BY <1>1, <1>2, <1>3, ContentWrote DEF ContentInv, Shape, Aside, Admitted,
     Compared, Fetched, Rendered, Recorded, Settled
<1>5. ASSUME NEW u \in Tasks, pc'[u] = "write", TargetOf[cur'[u]] = TargetOf[b]
      PROVE  rendered'[u][b] = IF b = cur'[u] THEN payload'[u] ELSE written'[b]
  <2>1. CASE u = t
    <3>1. Rendered(t)
      BY <1>1, <1>5, <2>1 DEF Shape, Aside, Admitted, Compared, Fetched, Wrote,
                              Recorded
    <3>2. UNCHANGED <<cur, payload, written>>
      BY <3>1 DEF Rendered, Settled
    <3> QED BY <1>2, <1>3, <1>5, <2>1, <3>1, <3>2, ContentOwn
  <2>2. CASE u # t
    <3>1. /\ pc[u] = "write" /\ cur'[u] = cur[u]
          /\ payload'[u] = payload[u] /\ rendered'[u] = rendered[u]
      BY <1>5, <2>2, OthersKeep DEF Base
    <3>2. written'[b] = written[b]
      <4>1. CASE Wrote(t)
        <5>1. TargetOf[b] # TargetOf[cur[t]]
          BY <1>2, <1>3, <1>5, <4>1, ContentWrote
        <5> QED BY <4>1, <5>1 DEF Wrote, Base, TypeOK
      <4>2. CASE Settled
        BY <4>2 DEF Settled
      <4> QED
        BY <1>1, <4>1, <4>2 DEF Shape, Aside, Admitted, Compared, Fetched,
                                Rendered, Recorded
    <3> QED BY <1>2, <1>3, <1>5, <3>1, <3>2 DEF ContentInv
  <2> QED BY <2>1, <2>2
<1> QED BY <1>4, <1>5

LEMMA ContentNext ==
    ASSUME Base, ContentInv, [Next]_vars
    PROVE  ContentInv'
<1> USE DEF sourceVars, targetVars, stateVars, gateVars, innerVars, historyVars
<1>1. CASE Calls
  <2>1. UNCHANGED <<content, written, disturbed, rendered, payload>>
    BY <1>1, CallShape DEF Base
  <2>2. \A t \in Tasks : pc'[t] = "write" => pc[t] = "write" /\ cur'[t] = cur[t]
    BY <1>1, CallShape DEF Base, Active
  <2> QED BY <2>1, <2>2 DEF ContentInv, Undestroyed
<1>2. CASE Environment
  <2>1. ASSUME NEW x \in Targets, RemoveTarget(x) \/ OverwriteTarget(x)
        PROVE  ContentInv'
    <3>1. PICK there : Disturb(x, there)
      BY <2>1 DEF RemoveTarget, OverwriteTarget
    <3>2. \A b \in Bindings : TargetOf[b] \notin disturbed' =>
              /\ TargetOf[b] \notin disturbed
              /\ content'[TargetOf[b]] = content[TargetOf[b]]
      BY <3>1 DEF Disturb, Base, TypeOK
    <3>3. UNCHANGED <<written, pc, cur, rendered, payload>>
      BY <3>1 DEF Disturb
    <3> QED BY <3>2, <3>3 DEF ContentInv, Undestroyed
  <2>2. CASE /\ UNCHANGED <<content, written, disturbed>>
             /\ \/ \A t \in Tasks : pc'[t] = "idle"
                \/ UNCHANGED <<pc, cur, rendered, payload>>
    BY <2>2 DEF ContentInv, Undestroyed
  <2> QED
    BY <1>2, <2>1, <2>2 DEF Environment, Rotate, Crash, Reconfigure, FreshEngine
<1>3. CASE UNCHANGED vars
  BY <1>3 DEF vars, ContentInv, Undestroyed
<1> QED BY <1>1, <1>2, <1>3, ContentStep DEF Next

\* No lost update: as long as nobody else touches it, a target holds for each
\* binding the last version a sync of it wrote, however many bindings share it
\* and however their syncs interleave.
THEOREM NoUpdateIsLost == Spec => []NoLostUpdate
<1>1. Init => ContentInv
  BY DEF Init, ContentInv, Blank
<1>2. Base /\ ContentInv /\ [Next]_vars => ContentInv'
  BY ContentNext
<1>3. ContentInv => NoLostUpdate
  BY DEF ContentInv, NoLostUpdate
<1> QED BY <1>1, <1>2, <1>3, BaseHolds, PTL DEF Spec

-----------------------------------------------------------------------------
(* What a call on its way to a target rests on.                            *)

LEMMA OnDemandNext ==
    ASSUME Base, PayloadOnDemand, [Next]_vars
    PROVE  PayloadOnDemand'
<1> USE DEF sourceVars, targetVars, stateVars, gateVars, innerVars, historyVars
<1>1. ASSUME NEW t \in Tasks, Step(t), NEW u \in Tasks, Holding(u)'
      PROVE  missing'[u] \/ version'[u] # disk'.applied[cur'[u]]
  <2>1. Shape(t)
    BY <1>1, StepShape DEF Base
  <2>2. CASE u = t
    <3>1. Compared(t) \/ Fetched(t) \/ Rendered(t) \/ Wrote(t)
      BY <1>1, <2>1, <2>2 DEF Shape, Aside, Admitted, Recorded, Holding
    <3>2. CASE Compared(t)
      BY <2>2, <3>2 DEF Compared, Current, Base, MemoryIsDisk, MutexFree
    <3>3. CASE Fetched(t) \/ Rendered(t) \/ Wrote(t)
      BY <2>2, <3>3 DEF Fetched, Rendered, Wrote, PayloadOnDemand
    <3> QED BY <3>1, <3>2, <3>3
  <2>3. CASE u # t
    <3>1. /\ pc'[u] = pc[u] /\ cur'[u] = cur[u]
          /\ missing'[u] = missing[u] /\ version'[u] = version[u]
      BY <1>1, <2>3, OthersKeep DEF Base
    <3>2. disk'.applied[cur[u]] = disk.applied[cur[u]]
      <4>1. CASE Recorded(t)
        <5>1. cur[u] # cur[t] /\ cur[u] \in Bindings
          BY <1>1, <2>3, <3>1, <4>1, Apart DEF Recorded, Holding, Active
        <5>2. mem = disk /\ mem.applied \in [Bindings -> Versions]
          BY <4>1 DEF Recorded, Base, MemoryIsDisk, MutexFree, TypeOK, States
        <5> QED BY <4>1, <5>1, <5>2 DEF Recorded
      <4>2. CASE Aside(t)
        BY <4>2 DEF Aside, Base, MemoryIsDisk, MutexFree
      <4>3. CASE UNCHANGED disk
        BY <4>3
      <4> QED
        BY <2>1, <4>1, <4>2, <4>3 DEF Shape, Admitted, Compared, Fetched,
                                      Rendered, Wrote
    <3> QED BY <1>1, <3>1, <3>2 DEF PayloadOnDemand, Holding
  <2> QED BY <2>2, <2>3
<1>2. CASE Calls
  BY <1>2, CallShape DEF Base, PayloadOnDemand, Active
<1>3. CASE Environment
  BY <1>3, WorldShape DEF Base, PayloadOnDemand
<1>4. CASE UNCHANGED vars
  BY <1>4 DEF vars, PayloadOnDemand
<1> QED BY <1>1, <1>2, <1>3, <1>4 DEF Next, PayloadOnDemand, Holding

\* F05: a payload travels only for a version that is not recorded, or for a
\* target that was gone.
THEOREM PayloadsAreNeeded == Spec => []PayloadOnDemand
<1>1. Init => PayloadOnDemand
  BY DEF Init, PayloadOnDemand
<1>2. Base /\ PayloadOnDemand /\ [Next]_vars => PayloadOnDemand'
  BY OnDemandNext
<1> QED BY <1>1, <1>2, BaseHolds, PTL DEF Spec

LEMMA DisabledNext ==
    ASSUME Base, DisabledNeverDelivers, [Next]_vars
    PROVE  DisabledNeverDelivers'
<1> USE DEF sourceVars, targetVars, stateVars, gateVars, innerVars, historyVars
<1>1. ASSUME NEW t \in Tasks, Step(t), NEW u \in Tasks, Delivering(u)'
      PROVE  cur'[u] \notin disk'.disabled
  <2>1. Shape(t)
    BY <1>1, StepShape DEF Base
  <2>2. CASE u = t
    <3>1. CASE Admitted(t)
      BY <2>2, <3>1 DEF Admitted, Base, MemoryIsDisk, MutexFree
    <3>2. CASE Recorded(t)
      BY <2>2, <3>2 DEF Recorded, Base, MemoryIsDisk, MutexFree,
                        DisabledNeverDelivers, Delivering, Applying
    <3>3. CASE Compared(t) \/ Fetched(t) \/ Rendered(t) \/ Wrote(t)
      BY <2>2, <3>3 DEF Compared, Fetched, Rendered, Wrote,
                        DisabledNeverDelivers, Delivering, Applying
    <3>4. ~Aside(t)
      BY <1>1, <2>2 DEF Aside, Delivering, Applying
    <3> QED BY <2>1, <3>1, <3>2, <3>3, <3>4 DEF Shape
  <2>3. CASE u # t
    <3>1. pc'[u] = pc[u] /\ cur'[u] = cur[u]
      BY <1>1, <2>3, OthersKeep DEF Base
    <3>2. Delivering(u) /\ Active(u) /\ cur[u] \notin disk.disabled
      BY <1>1, <3>1 DEF Delivering, Applying, Active, DisabledNeverDelivers
    <3>3. cur[u] \notin disk'.disabled
      <4>1. CASE Aside(t) /\ ~UNCHANGED disk
        <5>1. cur[u] # cur[t]
          BY <2>3, <3>2, <4>1, Apart DEF Aside
        <5> QED BY <3>2, <4>1, <5>1 DEF Aside, Base, MemoryIsDisk, MutexFree
      <4>2. CASE Recorded(t)
        BY <3>2, <4>2 DEF Recorded, Base, MemoryIsDisk, MutexFree
      <4>3. CASE UNCHANGED disk
        BY <3>2, <4>3
      <4> QED
        BY <2>1, <4>1, <4>2, <4>3 DEF Shape, Admitted, Compared, Fetched,
                                      Rendered, Wrote
    <3> QED BY <3>1, <3>3
  <2> QED BY <2>2, <2>3
<1>2. CASE Calls
  BY <1>2, CallShape DEF Base, DisabledNeverDelivers, Delivering, Applying, Active
<1>3. CASE Environment
  BY <1>3, WorldShape DEF Base, DisabledNeverDelivers, Delivering, Applying
<1>4. CASE UNCHANGED vars
  BY <1>4 DEF vars, DisabledNeverDelivers, Delivering, Applying
<1> QED BY <1>1, <1>2, <1>3, <1>4 DEF Next, DisabledNeverDelivers

\* A disabled binding is never on its way to its target.
THEOREM DisabledStaysPut == Spec => []DisabledNeverDelivers
<1>1. Init => DisabledNeverDelivers
  BY DEF Init, DisabledNeverDelivers, Delivering, Applying
<1>2. Base /\ DisabledNeverDelivers /\ [Next]_vars => DisabledNeverDelivers'
  BY DisabledNext
<1> QED BY <1>1, <1>2, BaseHolds, PTL DEF Spec

-----------------------------------------------------------------------------
(* Who enables a binding.                                                  *)

\* Only a client's call asks to enable a binding.
EnablerInv == \A t \in Tasks : op[t] = "enable" => t \in Clients

LEMMA EnablerNext ==
    ASSUME TypeOK, EnablerInv, [Next]_vars
    PROVE  EnablerInv'
<1> USE DEF sourceVars, targetVars, stateVars, gateVars, innerVars, historyVars
<1>1. ASSUME NEW t \in Tasks, Step(t) PROVE EnablerInv'
  <2>1. UNCHANGED op \/ Return(t)
    BY <1>1 DEF Step, SyncStep, EnterFlight, SkipDisabled, Probe, ReadVersion,
                ReadValue, BeginApply, WriteTarget, CommitApplied, PublishApplied,
                RecordStatus, EnableBinding, AcknowledgeRestart, PublishStatus,
                AppendEvent
  <2> QED BY <2>1 DEF Return, TypeOK, EnablerInv
<1>2. ASSUME NEW t \in Tasks, NEW b \in Bindings,
             TriggerSync(t, b) \/ RequestEnable(t, b) \/ RequestAck(t, b)
      PROVE  EnablerInv'
  BY <1>2 DEF TriggerSync, RequestEnable, RequestAck, Call, TypeOK, EnablerInv
<1>3. CASE Environment
  BY <1>3 DEF Environment, Rotate, RemoveTarget, OverwriteTarget, Disturb, Crash,
              Reconfigure, FreshEngine, EnablerInv
<1>4. CASE UNCHANGED vars
  BY <1>4 DEF vars, EnablerInv
<1> QED BY <1>1, <1>2, <1>3, <1>4 DEF Next, Calls

\* A disabled binding is enabled by a client's call or a changed configuration
\* and by nothing else: not by another binding's state update, not by a crash.
THEOREM OnlyClientsEnable == Spec => OnlyEnableReenables
<1> USE DEF sourceVars, targetVars, stateVars, gateVars, innerVars, historyVars
<1> DEFINE Enabled(b) ==
        \E t \in Clients : op[t] = "enable" /\ cur[t] = b /\ EnableBinding(t)
    Changed(b) ==
        \E changed \in SUBSET Bindings : b \in changed /\ Reconfigure(changed)
    Kept(b) == b \in disk'.disabled \/ Enabled(b) \/ Changed(b)
<1>1. ASSUME Base, EnablerInv, [Next]_vars, NEW b \in disk.disabled
      PROVE  Kept(b)
  <2>1. ASSUME NEW t \in Tasks, Step(t)
        PROVE  b \in disk'.disabled \/ Enabled(b)
    <3>1. CASE Aside(t) /\ ~UNCHANGED disk
      <4>1. CASE EnableBinding(t) /\ cur[t] = b
        <5>1. op[t] = "enable" /\ t \in Clients
          BY <1>1, <4>1 DEF EnableBinding, EnablerInv
        <5> QED BY <4>1, <5>1
      <4>2. CASE ~(EnableBinding(t) /\ cur[t] = b)
        BY <1>1, <3>1, <4>2 DEF Aside, Base, MemoryIsDisk, MutexFree
      <4> QED BY <4>1, <4>2
    <3>2. CASE Recorded(t)
      BY <1>1, <3>2 DEF Recorded, Base, MemoryIsDisk, MutexFree
    <3>3. CASE UNCHANGED disk
      BY <3>3
    <3> QED
      BY <1>1, <2>1, <3>1, <3>2, <3>3, StepShape
         DEF Base, Shape, Admitted, Compared, Fetched, Rendered, Wrote
  <2>2. ASSUME NEW changed \in SUBSET Bindings, Reconfigure(changed)
        PROVE  b \in disk'.disabled \/ Changed(b)
    BY <2>2 DEF Reconfigure
  <2>3. CASE UNCHANGED disk
    BY <2>3
  <2> HIDE DEF Enabled, Changed
  <2> QED
    BY <1>1, <2>1, <2>2, <2>3, CallShape
       DEF Base, Next, vars, Environment, Rotate, RemoveTarget, OverwriteTarget,
           Disturb, Crash
<1>2. Init => EnablerInv
  BY DEF Init, EnablerInv
<1>3. Base /\ EnablerInv /\ [Next]_vars => EnablerInv'
  BY EnablerNext DEF Base
<1>4. Base /\ EnablerInv /\ [Next]_vars => [\A b \in disk.disabled : Kept(b)]_vars
  BY <1>1
<1> QED BY <1>2, <1>3, <1>4, BaseHolds, PTL DEF Spec, OnlyEnableReenables

-----------------------------------------------------------------------------
(* The engine implements SecretDelivery: every step of the engine is a     *)
(* step of the abstract service or changes nothing the service speaks of.  *)

ImpInv == Base /\ VersionInv /\ DisabledNeverDelivers

LEMMA ImplementsInit == Init => Delivery!Init
  BY DEF Init, Delivery!Init, Blank, EmptyState

\* A sync's write delivers the version it holds, which is between the last one
\* written and the source's.
LEMMA WroteDelivers ==
    ASSUME ImpInv, NEW t \in Tasks, Wrote(t)
    PROVE  \E b \in Bindings : Delivery!Deliver(b)
<1>1. /\ cur[t] \in Bindings /\ cur[t] \notin disk.disabled
      /\ payload[t] = version[t]
      /\ written[cur[t]] <= version[t] /\ version[t] <= srcVersion[cur[t]]
  BY DEF ImpInv, Base, CurOK, VersionInv, Holding, DisabledNeverDelivers,
         Delivering, Applying, Wrote
<1>2. payload[t] \in written[cur[t]]..srcVersion[cur[t]]
  BY <1>1, Numbers DEF ImpInv, Base
<1>3. Delivery!Deliver(cur[t])
  BY <1>1, <1>2 DEF Delivery!Deliver, Wrote
<1> QED BY <1>1, <1>3

\* A commit records the version that was written.
LEMMA RecordedRecords ==
    ASSUME ImpInv, NEW t \in Tasks, Recorded(t)
    PROVE  \E b \in Bindings : Delivery!Record(b)
<1>1. /\ cur[t] \in Bindings /\ cur[t] \notin disk.disabled
      /\ version[t] = written[cur[t]] /\ mem = disk
  BY DEF ImpInv, Base, CurOK, VersionInv, Holding, DisabledNeverDelivers,
         Delivering, Applying, Recorded, MemoryIsDisk, MutexFree
<1>2. Delivery!Record(cur[t])
  BY <1>1 DEF Delivery!Record, Recorded, Settled
<1> QED BY <1>1, <1>2

\* Bookkeeping suspends, resumes or changes nothing.
LEMMA AsideSuspends ==
    ASSUME ImpInv, NEW t \in Tasks, Aside(t)
    PROVE  \/ UNCHANGED Delivery!vars
           \/ \E b \in Bindings : Delivery!Suspend(b) \/ Delivery!Resume(b)
<1>1. CASE UNCHANGED disk
  BY <1>1 DEF Aside, Settled, Delivery!vars
<1>2. CASE ~UNCHANGED disk
  <2>1. cur[t] \in Bindings /\ mem = disk
    BY <1>2 DEF Aside, ImpInv, Base, CurOK, Active, MemoryIsDisk, MutexFree
  <2>2. \/ UNCHANGED Delivery!vars
        \/ Delivery!Suspend(cur[t]) \/ Delivery!Resume(cur[t])
    BY <1>2, <2>1 DEF Aside, Settled, Delivery!vars, Delivery!Suspend,
                      Delivery!Resume
  <2> QED BY <2>1, <2>2
<1> QED BY <1>1, <1>2

LEMMA ImplementsNext ==
    ASSUME ImpInv, [Next]_vars
    PROVE  [Delivery!Next]_(Delivery!vars)
<1> USE DEF sourceVars, targetVars, stateVars, gateVars, innerVars, historyVars
<1>1. ASSUME NEW t \in Tasks, Step(t) PROVE [Delivery!Next]_(Delivery!vars)
  <2>1. Shape(t)
    BY <1>1, StepShape DEF ImpInv, Base
  <2>2. CASE Admitted(t) \/ Compared(t) \/ Fetched(t) \/ Rendered(t)
    BY <2>2 DEF Admitted, Compared, Fetched, Rendered, Settled, Delivery!vars
  <2> QED
    BY <2>1, <2>2, WroteDelivers, RecordedRecords, AsideSuspends
       DEF Shape, Delivery!Next
<1>2. CASE Calls
  BY <1>2, CallShape DEF ImpInv, Base, Delivery!vars
<1>3. CASE Environment
  <2>1. ASSUME NEW b \in Bindings, Rotate(b) PROVE Delivery!Rotate(b)
    BY <2>1 DEF Rotate, Delivery!Rotate
  <2>2. ASSUME NEW x \in Targets, RemoveTarget(x) \/ OverwriteTarget(x)
        PROVE  UNCHANGED Delivery!vars
    BY <2>2 DEF RemoveTarget, OverwriteTarget, Disturb, Delivery!vars
  <2>3. CASE Crash
    BY <2>3 DEF Crash, Delivery!vars
  <2>4. ASSUME NEW changed \in SUBSET Bindings, Reconfigure(changed)
        PROVE  Delivery!Forget(changed)
    BY <2>4 DEF Reconfigure, Delivery!Forget
  <2> QED BY <1>3, <2>1, <2>2, <2>3, <2>4 DEF Environment, Delivery!Next
<1>4. CASE UNCHANGED vars
  BY <1>4 DEF vars, Delivery!vars
<1> QED BY <1>1, <1>2, <1>3, <1>4 DEF Next

\* The engine, with all its interleavings, failures and crashes, implements the
\* delivery service: versions reach the target in order, none is recorded that
\* was not delivered, and a disabled binding is left alone.
THEOREM EngineImplementsDelivery == Spec => ImplementsDelivery
<1>1. ImpInv /\ [Next]_vars => [Delivery!Next]_(Delivery!vars)
  BY ImplementsNext
<1>2. Spec => []ImpInv
  BY VersionsHold, DisabledStaysPut, PTL DEF ImpInv
<1> QED
  BY <1>1, <1>2, ImplementsInit, PTL DEF Spec, ImplementsDelivery, Delivery!Spec
=============================================================================
