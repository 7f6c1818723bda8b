--------------------------- MODULE LocalVaultProofs ---------------------------
(***************************************************************************)
(* Proofs about LocalVault.                                                *)
(***************************************************************************)
EXTENDS LocalVaultRefinement, FiniteSetTheorems, TLAPS

USE NamesAssumption, BoundsAssumption

\* What a thread has asked for fits where it is in its call.
RequestOK(c) ==
    /\ request[c].op \in Edits =>
          /\ request[c].ids # {}
          /\ IF request[c].op = "remove" THEN request[c].value = None
             ELSE request[c].value \in Values
          /\ request[c].op # "import" => \E i \in Ids : request[c].ids = {i}
    /\ pc[c] \in {"flock", "reload", "persist"} => request[c].op \in Edits
    /\ pc[c] \in {"readAgain", "createNew", "fill", "openNew", "adopt"} =>
          request[c].op \in {"backup", "create", "recover"}

\* A reader that has a version has it for an entry.
GotOK(r) == got[r].version # 0 => got[r].id \in Ids

-----------------------------------------------------------------------------
(* Where the threads are in their calls.                                   *)

EditLabels   == {"flock", "reload", "persist"}
CreateLabels == {"readAgain", "createNew", "fill", "openNew", "adopt"}

CallTypes ==
    /\ pc \in [Editors -> Labels]
    /\ request \in [Editors -> Requests]
    /\ answer \in [Editors -> {"none", "done", "failed"}]
    /\ \A c \in Editors : pc[c] = "idle" <=> request[c] = NoRequest
    /\ \A c \in Editors : RequestOK(c)

DataTypes ==
    /\ shape \in [Paths -> {"absent", "partial", "whole"}]
    /\ disk \in [Paths -> Envelopes]
    /\ access \in [Handles -> {"locked", "open", "idle"}]
    /\ memory \in [Handles -> Envelopes]
    /\ mutex \in [Handles -> Editors \cup {None}]
    /\ writeLock \in Editors \cup {None}
    /\ carried \in [Editors -> Envelopes]
    /\ undo \in [Editors -> [version : 0..MaxVersion, sealed : Payloads \cup {None}]]
    /\ got \in [Readers -> [id : Ids \cup {None}, version : 0..MaxVersion,
                            value : Values \cup {None}]]
    /\ drawn \in 0..MaxVersion /\ salts \in 0..MaxSalt /\ faults \in 0..MaxFaults
    /\ valueOf \in [Versions -> Values \cup {None}]
    /\ \A r \in Readers : GotOK(r)

TypeInv == CallTypes /\ DataTypes

\* A step that changes no call keeps what is said of the calls.
LEMMA SameCalls == ASSUME CallTypes, UNCHANGED callVars PROVE CallTypes'
BY DEF CallTypes, callVars, RequestOK

\* A call that starts, goes on or ends keeps them so.
LEMMA AskTypes ==
    ASSUME CallTypes, NEW c \in Editors, NEW r \in Requests, NEW label, Ask(c, r, label),
           \/ /\ label = "flock" /\ r.op \in Edits /\ r.ids # {}
              /\ IF r.op = "remove" THEN r.value = None ELSE r.value \in Values
              /\ r.op # "import" => \E i \in Ids : r.ids = {i}
           \/ label \in CreateLabels /\ r.op \in {"backup", "create", "recover"}
    PROVE  CallTypes'
<1>1. label \in Labels \ {"idle"} /\ r # NoRequest
  BY DEF Labels, CreateLabels, NoRequest, Edits
<1>2. /\ pc' = [pc EXCEPT ![c] = label]
      /\ request' = [request EXCEPT ![c] = r]
      /\ answer' = answer
  BY DEF Ask, Transition
<1>3. ASSUME NEW d \in Editors
      PROVE  RequestOK(d)' /\ (pc'[d] = "idle" <=> request'[d] = NoRequest)
  <2>1. CASE d = c
    BY <1>1, <1>2, <2>1 DEF CallTypes, RequestOK, CreateLabels, Edits
  <2>2. CASE d # c
    BY <1>2, <2>2 DEF CallTypes, RequestOK
  <2> QED BY <2>1, <2>2
<1> QED BY <1>1, <1>2, <1>3 DEF CallTypes

\* So does a call that goes on.
LEMMA GoOnTypes ==
    ASSUME CallTypes, NEW c \in Editors, NEW from, NEW to, GoOn(c, from, to),
           \/ from \in EditLabels /\ to \in EditLabels
           \/ from \in CreateLabels /\ to \in CreateLabels
    PROVE  CallTypes'
<1>1. to \in Labels \ {"idle"} /\ from \in Labels \ {"idle"}
  BY DEF Labels, CreateLabels, EditLabels
<1>2. /\ pc[c] = from /\ pc' = [pc EXCEPT ![c] = to]
      /\ request' = request /\ answer' = answer
  BY DEF GoOn, Transition
<1>3. ASSUME NEW d \in Editors
      PROVE  RequestOK(d)' /\ (pc'[d] = "idle" <=> request'[d] = NoRequest)
  <2>1. CASE d = c
    BY <1>1, <1>2, <2>1 DEF CallTypes, RequestOK, CreateLabels, EditLabels
  <2>2. CASE d # c
    BY <1>2, <2>2 DEF CallTypes, RequestOK
  <2> QED BY <2>1, <2>2
<1> QED BY <1>1, <1>2, <1>3 DEF CallTypes

\* So does one that has its result.
LEMMA FinishTypes ==
    ASSUME CallTypes, NEW c \in Editors, NEW from \in EditLabels \cup CreateLabels,
           NEW result \in {"done", "failed"}, Finish(c, from, result)
    PROVE  CallTypes'
<1>1. "reply" \in Labels /\ from # "idle" /\ "reply" \notin EditLabels \cup CreateLabels
  BY DEF Labels, CreateLabels, EditLabels
<1>2. /\ pc[c] = from /\ pc' = [pc EXCEPT ![c] = "reply"]
      /\ request' = request /\ answer' = [answer EXCEPT ![c] = result]
  BY DEF Finish, Transition
<1>3. ASSUME NEW d \in Editors
      PROVE  RequestOK(d)' /\ (pc'[d] = "idle" <=> request'[d] = NoRequest)
  <2>1. CASE d = c
    BY <1>1, <1>2, <2>1 DEF CallTypes, RequestOK
  <2>2. CASE d # c
    BY <1>2, <2>2 DEF CallTypes, RequestOK
  <2> QED BY <2>1, <2>2
<1> QED BY <1>1, <1>2, <1>3 DEF CallTypes

\* The requests and the places of the calls stay in step.
LEMMA CallsKeepTypes == ASSUME CallTypes, [Next]_vars PROVE CallTypes'
<1>1. NoRequest \in Requests
  BY DEF NoRequest, Requests
<1>2. ASSUME NEW c \in Editors, Call(c) PROVE CallTypes'
  <2>1. CASE \E i \in Ids : Remove(c, i)
    <3>1. PICK i \in Ids : Remove(c, i)
      BY <2>1
    <3>2. [op |-> "remove", ids |-> {i}, value |-> None] \in Requests
      BY DEF Requests, Edits
    <3> QED BY <3>1, <3>2, AskTypes DEF Remove, BeginEdit, Edits
  <2>2. CASE \E i \in Ids, x \in Values : Put(c, i, x)
    <3>1. PICK i \in Ids, x \in Values : Put(c, i, x)
      BY <2>2
    <3>2. [op |-> "put", ids |-> {i}, value |-> x] \in Requests
      BY DEF Requests, Edits
    <3> QED BY <3>1, <3>2, AskTypes DEF Put, BeginEdit, Edits
  <2>3. CASE \E ids \in (SUBSET Ids) \ {{}}, x \in Values : ImportNew(c, ids, x)
    <3>1. PICK ids \in (SUBSET Ids) \ {{}}, x \in Values : ImportNew(c, ids, x)
      BY <2>3
    <3>2. [op |-> "import", ids |-> ids, value |-> x] \in Requests
      BY DEF Requests, Edits
    <3>3. [op |-> "import", ids |-> ids, value |-> x].ids # {}
      OBVIOUS
    <3> HIDE DEF Requests
    <3> QED BY <3>1, <3>2, <3>3, AskTypes DEF ImportNew, BeginEdit, Edits
  <2>4. CASE Create(c) \/ Backup(c) \/ Recover(c)
    <3>1. \A o \in {"create", "backup", "recover"} : [NoRequest EXCEPT !.op = o] \in Requests
      BY DEF NoRequest, Requests
    <3>2. \A o \in {"create", "backup", "recover"} : [NoRequest EXCEPT !.op = o].op = o
      BY DEF NoRequest
    <3>3. PICK o \in {"create", "backup", "recover"}, label \in CreateLabels :
             Ask(c, [NoRequest EXCEPT !.op = o], label)
      BY <2>4 DEF Create, Backup, Recover, CreateLabels
    <3> QED BY <3>1, <3>2, <3>3, AskTypes
  <2> QED BY <1>2, <2>1, <2>2, <2>3, <2>4 DEF Call
<1>3. ASSUME NEW c \in Editors, EditStep(c) PROVE CallTypes'
  BY <1>3, GoOnTypes, FinishTypes
     DEF EditStep, EditLabels, LockForUpdate, LockFails, ReloadFails, Refuse, Edit,
         Replace, ReplaceFails
<1>4. ASSUME NEW c \in Editors, CreateStep(c) PROVE CallTypes'
  BY <1>4, GoOnTypes, FinishTypes
     DEF CreateStep, CreateLabels, ReadAgain, ReadAgainFails, CreateNew, CreateNewFails,
         Fill, FillFails, OpenNew, OpenNewFails, Adopt
<1>5. ASSUME NEW c \in Editors, Reply(c) PROVE CallTypes'
  BY <1>1, <1>5 DEF Reply, Return, CallTypes, RequestOK, Labels, NoRequest, Edits
<1>6. ASSUME NEW h \in Handles, Crash(h) PROVE CallTypes'
  BY <1>1, <1>6 DEF Crash, CallTypes, RequestOK, Labels, NoRequest, Edits
<1>7. ASSUME UNCHANGED callVars PROVE CallTypes'
  BY <1>7, SameCalls
<1>8. CASE \/ UNCHANGED vars
           \/ \E r \in Readers : GetValue(r) \/ \E i \in Ids : GetVersion(r, i)
           \/ \E h \in Handles : HandleStep(h)
           \/ \E p \in Paths : Lose(p)
  BY <1>7, <1>8 DEF vars, GetValue, GetVersion, Reload, HandleStep, Unlock, Lock, IsUnlocked,
                    Relock, IdleTimeout, ListEntries, Lose
<1> QED BY <1>2, <1>3, <1>4, <1>5, <1>6, <1>8 DEF Next, Step

-----------------------------------------------------------------------------
\* A new vault is a vault.
LEMMA EmptyType == ASSUME NEW s \in 0..MaxSalt PROVE EmptyEnvelope(s) \in Envelopes
BY DEF EmptyEnvelope, Envelopes

\* An edited vault is a vault.
LEMMA EditedType ==
    ASSUME NEW m \in Envelopes, NEW ids \in SUBSET Ids, NEW x,
           NEW f \in [ids -> 0..MaxVersion],
           x \in Values \/ \A i \in ids : f[i] = 0
    PROVE  Edited(m, f, x) \in Envelopes
<1> DEFINE E == [i \in Ids |-> IF i \in DOMAIN f THEN f[i] ELSE m.entries[i]]
           S == [v \in Versions |->
                    IF \E i \in DOMAIN f : f[i] = v
                    THEN [id |-> CHOOSE i \in DOMAIN f : f[i] = v, value |-> x]
                    ELSE IF v \in Superseded(m, f) THEN None ELSE m.sealed[v]]
<1>1. DOMAIN f = ids
  OBVIOUS
<1>2. E \in [Ids -> 0..MaxVersion]
  BY <1>1 DEF Envelopes
<1>3. S \in [Versions -> Payloads \cup {None}]
  <2> SUFFICES ASSUME NEW v \in Versions
               PROVE  S[v] \in Payloads \cup {None}
    OBVIOUS
  <2>1. CASE \E i \in ids : f[i] = v
    <3>1. (CHOOSE i \in ids : f[i] = v) \in Ids
      BY <2>1
    <3>2. x \in Values
      BY <2>1 DEF Versions
    <3> QED BY <1>1, <2>1, <3>1, <3>2 DEF Payloads
  <2>2. CASE ~ \E i \in ids : f[i] = v
    BY <1>1, <2>2 DEF Envelopes
  <2> QED BY <2>1, <2>2
<1>4. Edited(m, f, x) = [m EXCEPT !.entries = E, !.sealed = S]
  BY DEF Edited
<1> HIDE DEF E, S
<1> QED BY <1>2, <1>3, <1>4 DEF Envelopes

\* A rolled back vault is a vault.
LEMMA UndoneType ==
    ASSUME NEW m \in Envelopes, NEW ids \in SUBSET Ids,
           NEW u \in [version : 0..MaxVersion, sealed : Payloads \cup {None}]
    PROVE  Undone(m, ids, u) \in Envelopes
BY DEF Undone, Envelopes

\* What NewVersions offers: a version within the bound for every entry of the
\* request, or 0.
LEMMA NewVersionsType ==
    ASSUME TypeInv, NEW c \in Editors, NEW f \in NewVersions(request[c]),
           request[c].op # "remove" => drawn + Cardinality(request[c].ids) <= MaxVersion
    PROVE  /\ f \in [request[c].ids -> 0..MaxVersion]
           /\ request[c].op = "remove" => \A i \in request[c].ids : f[i] = 0
           /\ request[c].op # "remove" =>
                 /\ \A i \in request[c].ids : f[i] \in (drawn + 1)..(drawn + Cardinality(request[c].ids))
                 /\ \A i, j \in request[c].ids : f[i] = f[j] => i = j
           /\ Cardinality(request[c].ids) \in Nat
<1>1. request[c].ids \in SUBSET Ids /\ drawn \in 0..MaxVersion
  BY DEF TypeInv, DataTypes, CallTypes, Requests
<1>2. Cardinality(request[c].ids) \in Nat
  BY <1>1, FS_Subset, FS_CardinalityType
<1> QED BY <1>1, <1>2 DEF NewVersions, FreshVersions

\* Every reachable state is well typed, every call has the request its steps
\* expect and every version a reader keeps belongs to an entry: no edit, rollback,
\* recovery or crash leaves anything else.
THEOREM VaultTypes == Spec => []TypeInv
<1> USE DEF Paths
<1>1. Init => TypeInv
  <2> SUFFICES ASSUME Init PROVE TypeInv
    OBVIOUS
  <2>1. EmptyEnvelope(0) \in Envelopes
    BY EmptyType
  <2>2. NoRequest \in Requests
    BY DEF NoRequest, Requests
  <2>3. CallTypes
    BY <2>2 DEF Init, CallTypes, RequestOK, NoRequest, Edits, Labels
  <2>4. DataTypes
    BY <2>1 DEF Init, DataTypes, GotOK, NothingRead, NothingToUndo
  <2> QED BY <2>3, <2>4 DEF TypeInv
<1>2. TypeInv /\ [Next]_vars => TypeInv'
  <2> SUFFICES ASSUME TypeInv, [Next]_vars PROVE TypeInv'
    OBVIOUS
  <2> USE DEF TypeInv, DataTypes, GotOK, fileVars
  <2>a. CallTypes'
    BY CallsKeepTypes
  <2>0. EmptyEnvelope(0) \in Envelopes /\ \A s \in 0..MaxSalt : EmptyEnvelope(s) \in Envelopes
    BY EmptyType
  <2>00. NoRequest \in Requests
    BY DEF NoRequest, Requests
  <2>000. CallTypes /\ pc \in [Editors -> Labels] /\ request \in [Editors -> Requests]
    BY DEF CallTypes
  <2>1. ASSUME NEW h \in Handles, HandleStep(h) PROVE DataTypes'
    <3>1. CASE Unlock(h)
      BY <3>1 DEF Unlock
    <3>2. CASE Lock(h) \/ IsUnlocked(h)
      BY <2>0, <3>2 DEF Lock, IsUnlocked, Relock
    <3>3. CASE IdleTimeout(h)
      BY <3>3 DEF IdleTimeout
    <3>4. CASE ListEntries(h)
      <4>1. memory[h].salt \in 0..MaxSalt
        BY DEF Envelopes
      <4> QED BY <2>0, <4>1, <3>4 DEF ListEntries
    <3> QED BY <2>1, <3>1, <3>2, <3>3, <3>4 DEF HandleStep
  <2>2. ASSUME NEW h \in Handles, Crash(h) PROVE DataTypes'
    BY <2>0, <2>00, <2>2 DEF Crash, Fault, NothingRead, NothingToUndo
  <2>3. ASSUME NEW p \in Paths, Lose(p) PROVE DataTypes'
    BY <2>0, <2>3 DEF Lose, Fault
  <2>4. ASSUME NEW r \in Readers, NEW i \in Ids, GetVersion(r, i) PROVE DataTypes'
    BY <2>4 DEF GetVersion, Reload, Envelopes, Callers
  <2>5. ASSUME NEW r \in Readers, GetValue(r) PROVE DataTypes'
    <3> DEFINE e == disk["vault"]
               v == got[r].version
    <3>1. Reload(r) /\ v # 0 /\ got[r].id \in Ids /\ v \in Versions
      BY <2>5 DEF GetValue, Versions
    <3>2. Opens(e) /\ e \in Envelopes
      BY <3>1 DEF Reload, ReloadsAt, OpensAt
    <3>3. e.entries[got[r].id] = v => e.sealed[v] \in Payloads
      BY <3>1, <3>2 DEF Opens, Envelopes
    <3>4. got' \in [Readers -> [id : Ids \cup {None}, version : 0..MaxVersion,
                              value : Values \cup {None}]]
      BY <2>5, <3>3 DEF GetValue, NothingRead, Payloads
    <3>5. \A q \in Readers : GotOK(q)'
      BY <2>5, <3>1 DEF GetValue, NothingRead
    <3>6. memory' \in [Handles -> Envelopes]
      BY <3>1, <3>2 DEF Reload
    <3> QED BY <3>1, <3>4, <3>5, <3>6 DEF Reload
  <2>6. ASSUME NEW c \in Editors, Call(c) PROVE DataTypes'
    <3>1. ASSUME NEW r \in Requests, BeginEdit(c, r), r.op \in Edits, r.ids # {},
                 r.op # "remove" => r.value \in Values,
                 r.op # "import" => \E i \in Ids : r.ids = {i}
          PROVE  DataTypes'
      BY <3>1 DEF BeginEdit, Callers
    <3>2. CASE \E i \in Ids : Remove(c, i)
      <4>1. PICK i \in Ids : Remove(c, i)
        BY <3>2
      <4>2. [op |-> "remove", ids |-> {i}, value |-> None] \in Requests
        BY DEF Requests, Edits
      <4> QED BY <3>1, <4>1, <4>2 DEF Remove, Edits
    <3>3. CASE \E i \in Ids, x \in Values : Put(c, i, x)
      <4>1. PICK i \in Ids, x \in Values : Put(c, i, x)
        BY <3>3
      <4>2. [op |-> "put", ids |-> {i}, value |-> x] \in Requests
        BY DEF Requests, Edits
      <4> QED BY <3>1, <4>1, <4>2 DEF Put, Edits
    <3>4. CASE \E ids \in (SUBSET Ids) \ {{}}, x \in Values : ImportNew(c, ids, x)
      <4>1. PICK ids \in (SUBSET Ids) \ {{}}, x \in Values : ImportNew(c, ids, x)
        BY <3>4
      <4>2. [op |-> "import", ids |-> ids, value |-> x] \in Requests
        BY DEF Requests, Edits
      <4>3. [op |-> "import", ids |-> ids, value |-> x].ids # {}
        OBVIOUS
      <4> QED BY <3>1, <4>1, <4>2, <4>3 DEF ImportNew, Edits
    <3>5. CASE Create(c)
      <4>1. EmptyEnvelope(salts + 1) \in Envelopes /\ salts + 1 \in 0..MaxSalt
        BY <3>5, EmptyType DEF Create
      <4> QED BY <3>5, <4>1 DEF Create
    <3>6. CASE Backup(c)
      BY <3>6 DEF Backup, Callers
    <3>7. CASE Recover(c)
      BY <3>7 DEF Recover
    <3> QED BY <2>6, <3>2, <3>3, <3>4, <3>5, <3>6, <3>7 DEF Call
  <2>7. ASSUME NEW c \in Editors, EditStep(c) PROVE DataTypes'
    <3>1. CASE LockForUpdate(c) \/ LockFails(c)
      BY <3>1 DEF LockForUpdate, LockFails, Fault
    <3>2. CASE ReloadFails(c) \/ Refuse(c)
      BY <3>2 DEF ReloadFails, Refuse
    <3>3. CASE Edit(c)
      <4> DEFINE r == request[c]
                 m == disk["vault"]
      <4>1. PICK f \in NewVersions(r) :
               memory' = [memory EXCEPT ![HandleOf[c]] = Edited(m, f, r.value)]
        BY <3>3 DEF Edit
      <4>2. pc[c] = "reload" /\ r.op \in Edits /\ r \in Requests /\ m \in Envelopes
        BY <3>3, <2>000 DEF CallTypes, RequestOK, Edit, GoOn, Transition
      <4>3. r.op # "remove" => drawn + Cardinality(r.ids) <= MaxVersion
        BY <3>3 DEF Edit
      <4>4. /\ f \in [r.ids -> 0..MaxVersion] /\ Cardinality(r.ids) \in Nat
            /\ r.op = "remove" => \A i \in r.ids : f[i] = 0
        BY <4>1, <4>3, NewVersionsType
      <4>5. Edited(m, f, r.value) \in Envelopes
        BY <4>2, <4>4, <2>000, EditedType DEF Requests, CallTypes, RequestOK
      <4>6. memory' \in [Handles -> Envelopes]
        BY <4>1, <4>5
      <4>7. drawn' \in 0..MaxVersion
        BY <3>3, <4>3, <4>4 DEF Edit
      <4>8. PICK i \in r.ids : undo' = [undo EXCEPT ![c] =
                IF m.entries[i] = 0 THEN NothingToUndo
                ELSE [version |-> m.entries[i], sealed |-> m.sealed[m.entries[i]]]]
        BY <3>3 DEF Edit
      <4>9. i \in Ids
        BY <4>2, <4>8 DEF Requests
      <4>10. undo' \in [Editors -> [version : 0..MaxVersion, sealed : Payloads \cup {None}]]
        BY <4>2, <4>8, <4>9 DEF Envelopes, NothingToUndo, Versions
      <4> HIDE DEF r, m
      <4> QED BY <3>3, <4>6, <4>7, <4>10 DEF Edit
    <3>4. CASE Replace(c)
      <4>1. memory[HandleOf[c]] \in Envelopes
        BY DEF Callers
      <4>2. valueOf' \in [Versions -> Values \cup {None}]
        BY <3>4, <4>1 DEF Replace, Envelopes, Payloads
      <4> QED BY <3>4, <4>1, <4>2 DEF Replace, NothingToUndo
    <3>5. CASE ReplaceFails(c)
      <4>1. Undone(memory[HandleOf[c]], request[c].ids, undo[c]) \in Envelopes
        BY <2>000, UndoneType DEF Callers, Requests
      <4>2. memory' \in [Handles -> Envelopes]
        BY <3>5, <4>1 DEF ReplaceFails
      <4>3. undo' \in [Editors -> [version : 0..MaxVersion, sealed : Payloads \cup {None}]]
        BY <3>5 DEF ReplaceFails, NothingToUndo
      <4> QED BY <3>5, <4>2, <4>3 DEF ReplaceFails, Fault
    <3> QED BY <2>7, <3>1, <3>2, <3>3, <3>4, <3>5 DEF EditStep
  <2>8. ASSUME NEW c \in Editors, CreateStep(c) PROVE DataTypes'
    <3> USE DEF Destination
    <3>1. CASE ReadAgain(c) \/ ReadAgainFails(c)
      BY <3>1 DEF ReadAgain, ReadAgainFails
    <3>2. CASE CreateNew(c) \/ CreateNewFails(c)
      BY <3>2 DEF CreateNew, CreateNewFails
    <3>3. CASE Fill(c)
      BY <3>3 DEF Fill, Written
    <3>4. CASE FillFails(c)
      BY <3>4 DEF FillFails, Written, Fault
    <3>5. CASE OpenNew(c) \/ OpenNewFails(c)
      BY <3>5 DEF OpenNew, OpenNewFails
    <3>6. CASE Adopt(c)
      BY <3>6 DEF Adopt
    <3> QED BY <2>8, <3>1, <3>2, <3>3, <3>4, <3>5, <3>6 DEF CreateStep
  <2>9. ASSUME NEW c \in Editors, Reply(c) PROVE DataTypes'
    BY <2>0, <2>9 DEF Reply, DropMutex, DropWriteLock
  <2>10. ASSUME UNCHANGED vars PROVE DataTypes'
    BY <2>10 DEF vars
  <2>11. DataTypes'
    BY <2>1, <2>2, <2>3, <2>4, <2>5, <2>6, <2>7, <2>8, <2>9, <2>10 DEF Next, Step
  <2> QED BY <2>a, <2>11
<1> QED BY <1>1, <1>2, PTL DEF Spec

\* Every variable has its type in every reachable state.
THEOREM VaultTypeCorrect == Spec => []TypeOK
<1>1. TypeInv => TypeOK
  BY DEF TypeInv, DataTypes, CallTypes, TypeOK
<1> QED BY <1>1, VaultTypes, PTL
=============================================================================
