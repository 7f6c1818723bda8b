--------------------------- MODULE LocalVaultSafety ---------------------------
(***************************************************************************)
(* The safety properties of LocalVault, and that it implements VaultStore, *)
(* proved.                                                                 *)
(***************************************************************************)
EXTENDS LocalVaultProofs

USE NamesAssumption, BoundsAssumption

-----------------------------------------------------------------------------
(* The locks and the files being created.                                  *)

\* A thread that edits has its handle's mutex and, from the reload on, the lock
\* file; the vault it is about to replace is whole.
EditorInv ==
    \A c \in Editors :
        /\ pc[c] \in EditLabels => mutex[HandleOf[c]] = c
        /\ pc[c] \in {"reload", "persist"} => writeLock = c
        /\ pc[c] = "persist" => shape["vault"] = "whole"

\* A file that is being filled is partial, and one thread fills it.
FillInv ==
    /\ \A c \in Editors : pc[c] = "fill" => shape[Destination(c)] = "partial"
    /\ \A c, d \in Editors :
          pc[c] = "fill" /\ pc[d] = "fill" /\ Destination(c) = Destination(d) => c = d

GateInv == EditorInv /\ FillInv

\* Every thread uses a handle.
LEMMA HandleOfType == HandleOf \in [Editors \cup Readers -> Handles]
BY DEF Callers

\* Every step keeps the locks with the threads that need them, and the partial files
\* with the threads that fill them.
LEMMA GatesAreKept == ASSUME TypeInv, GateInv, [Next]_vars PROVE GateInv'
<1> USE DEF Paths, Callers, EditLabels
<1>1. /\ pc \in [Editors -> Labels] /\ request \in [Editors -> Requests]
      /\ mutex \in [Handles -> Editors \cup {None}] /\ writeLock \in Editors \cup {None}
      /\ shape \in [Paths -> {"absent", "partial", "whole"}]
      /\ HandleOf \in [Editors \cup Readers -> Handles]
      /\ None \notin Editors
  BY DEF TypeInv, CallTypes, DataTypes
<1>2. ASSUME UNCHANGED <<shape, mutex, writeLock, pc, request>> PROVE GateInv'
  BY <1>2 DEF GateInv, EditorInv, FillInv, Destination
<1>3. ASSUME NEW c \in Editors, Call(c) PROVE GateInv'
  <2> DEFINE Start(r, label) ==
        /\ Ask(c, r, label) /\ label \in {"flock", "createNew", "readAgain"}
        /\ shape' = shape /\ writeLock' = writeLock
        /\ \/ mutex' = mutex /\ label # "flock"
           \/ mutex[HandleOf[c]] = None /\ mutex' = [mutex EXCEPT ![HandleOf[c]] = c]
  <2>1. ASSUME NEW r, NEW label, Start(r, label) PROVE GateInv'
    <3>1. /\ pc[c] = "idle" /\ pc' = [pc EXCEPT ![c] = label]
          /\ request' = [request EXCEPT ![c] = r]
      BY <2>1 DEF Ask, Transition
    <3>2. \A d \in Editors : d # c => Destination(d)' = Destination(d) /\ pc'[d] = pc[d]
      BY <1>1, <3>1 DEF Destination
    <3>3. pc'[c] = label
      BY <1>1, <3>1
    <3>4. EditorInv'
      BY <1>1, <2>1, <3>2, <3>3 DEF GateInv, EditorInv
    <3>5. FillInv'
      BY <1>1, <2>1, <3>2, <3>3 DEF GateInv, FillInv
    <3> QED BY <3>4, <3>5 DEF GateInv
  <2>2. ASSUME NEW r, BeginEdit(c, r) PROVE GateInv'
    <3>1. Start(r, "flock")
      BY <2>2 DEF BeginEdit, MutexFree, fileVars
    <3> QED BY <2>1, <3>1
  <2>3. CASE \/ \E i \in Ids : Remove(c, i) \/ \E x \in Values : Put(c, i, x)
             \/ \E ids \in (SUBSET Ids) \ {{}}, x \in Values : ImportNew(c, ids, x)
    BY <2>2, <2>3 DEF Remove, Put, ImportNew
  <2>4. CASE Create(c)
    <3>1. Start([NoRequest EXCEPT !.op = "create"], "createNew")
      BY <2>4 DEF Create, fileVars
    <3> QED BY <2>1, <3>1
  <2>5. CASE Backup(c)
    <3>1. Start([NoRequest EXCEPT !.op = "backup"], "createNew")
      BY <2>5 DEF Backup, MutexFree, fileVars
    <3> QED BY <2>1, <3>1
  <2>6. CASE Recover(c)
    <3>1. Start([NoRequest EXCEPT !.op = "recover"], "readAgain")
      BY <2>6 DEF Recover, fileVars
    <3> QED BY <2>1, <3>1
  <2> QED BY <1>3, <2>3, <2>4, <2>5, <2>6 DEF Call
<1>4. ASSUME NEW c \in Editors, EditStep(c) PROVE GateInv'
  <2>1. /\ request' = request /\ mutex' = mutex
        /\ \A d \in Editors : d # c => pc'[d] = pc[d]
        /\ pc'[c] # "fill"
        /\ pc'[c] \in EditLabels => mutex[HandleOf[c]] = c
    BY <1>1, <1>4 DEF EditStep, LockForUpdate, LockFails, ReloadFails, Refuse, Edit, Replace,
       ReplaceFails, GoOn, Finish, Transition, GateInv, EditorInv
  <2>2. \A d \in Editors : Destination(d)' = Destination(d)
    BY <2>1 DEF Destination
  <2>3. CASE LockForUpdate(c)
    BY <1>1, <2>1, <2>2, <2>3 DEF LockForUpdate, GoOn, Transition, WriteLockFree, fileVars,
       GateInv, EditorInv, FillInv
  <2>4. CASE Edit(c)
    <3>1. /\ pc[c] = "reload" /\ pc'[c] = "persist" /\ shape' = shape /\ writeLock' = writeLock
          /\ shape["vault"] = "whole"
      BY <1>1, <2>4 DEF Edit, GoOn, Transition, ReloadsAt, OpensAt, fileVars
    <3> QED BY <1>1, <2>1, <2>2, <3>1 DEF GateInv, EditorInv, FillInv
  <2>5. CASE Replace(c)
    <3>1. /\ pc[c] = "persist" /\ pc'[c] = "reply" /\ writeLock' = writeLock
          /\ shape' = shape
      BY <1>1, <2>5 DEF Replace, Finish, Transition, GateInv, EditorInv
    <3> QED BY <1>1, <2>1, <2>2, <3>1 DEF GateInv, EditorInv, FillInv
  <2>6. CASE LockFails(c) \/ ReloadFails(c) \/ Refuse(c) \/ ReplaceFails(c)
    <3>1. pc'[c] = "reply" /\ writeLock' = writeLock /\ shape' = shape
      BY <1>1, <2>6 DEF LockFails, ReloadFails, Refuse, ReplaceFails, Finish, Transition, fileVars
    <3> QED BY <1>1, <2>1, <2>2, <3>1 DEF GateInv, EditorInv, FillInv
  <2> QED BY <1>4, <2>3, <2>4, <2>5, <2>6 DEF EditStep
<1>5. ASSUME NEW c \in Editors, CreateStep(c) PROVE GateInv'
  <2>1. /\ request' = request /\ mutex' = mutex /\ writeLock' = writeLock
        /\ \A d \in Editors : d # c => pc'[d] = pc[d]
        /\ pc'[c] \notin EditLabels
    BY <1>1, <1>5 DEF CreateStep, ReadAgain, ReadAgainFails, CreateNew, CreateNewFails, Fill,
       FillFails, OpenNew, OpenNewFails, Adopt, GoOn, Finish, Transition
  <2>2. \A d \in Editors : Destination(d)' = Destination(d) /\ Destination(d) \in Paths
    BY <2>1 DEF Destination
  <2>3. CASE CreateNew(c)
    <3>1. /\ shape[Destination(c)] = "absent"
          /\ shape' = [shape EXCEPT ![Destination(c)] = "partial"]
      BY <2>3 DEF CreateNew, Vacant
    <3> QED BY <1>1, <2>1, <2>2, <3>1 DEF GateInv, EditorInv, FillInv
  <2>4. CASE Fill(c) \/ FillFails(c)
    <3>1. /\ pc[c] = "fill" /\ pc'[c] # "fill"
          /\ \/ shape' = [shape EXCEPT ![Destination(c)] = "whole"]
             \/ shape' = shape
      BY <1>1, <2>4 DEF Fill, FillFails, Written, GoOn, Finish, Transition, fileVars
    <3> QED BY <1>1, <2>1, <2>2, <3>1 DEF GateInv, EditorInv, FillInv
  <2>5. CASE ~(CreateNew(c) \/ Fill(c) \/ FillFails(c))
    <3>1. shape' = shape /\ pc'[c] # "fill"
      BY <1>1, <1>5, <2>5 DEF CreateStep, ReadAgain, ReadAgainFails, CreateNewFails, OpenNew,
         OpenNewFails, Adopt, GoOn, Finish, Transition, fileVars
    <3> QED BY <1>1, <2>1, <2>2, <3>1 DEF GateInv, EditorInv, FillInv
  <2> QED BY <2>3, <2>4, <2>5
<1>6. ASSUME NEW c \in Editors, Reply(c) PROVE GateInv'
  <2>1. /\ pc[c] = "reply" /\ pc' = [pc EXCEPT ![c] = "idle"]
        /\ request' = [request EXCEPT ![c] = NoRequest]
        /\ mutex' = [h \in Handles |-> IF mutex[h] = c THEN None ELSE mutex[h]]
        /\ writeLock' = IF writeLock = c THEN None ELSE writeLock
        /\ shape' = shape
    BY <1>6 DEF Reply, Return, DropMutex, DropWriteLock, fileVars
  <2>2. \A d \in Editors : d # c => Destination(d)' = Destination(d) /\ pc'[d] = pc[d]
    BY <1>1, <2>1 DEF Destination
  <2>3. pc'[c] = "idle"
    BY <1>1, <2>1
  <2> QED BY <1>1, <2>1, <2>2, <2>3 DEF GateInv, EditorInv, FillInv
<1>7. ASSUME NEW h \in Handles, Crash(h) PROVE GateInv'
  <2> DEFINE dead == {c \in Editors : HandleOf[c] = h}
  <2>1. /\ pc' = [c \in Editors |-> IF c \in dead THEN "idle" ELSE pc[c]]
        /\ request' = [c \in Editors |-> IF c \in dead THEN NoRequest ELSE request[c]]
        /\ mutex' = [mutex EXCEPT ![h] = None]
        /\ writeLock' = IF writeLock \in dead THEN None ELSE writeLock
        /\ shape' = shape
    BY <1>7 DEF Crash, fileVars
  <2>2. \A d \in Editors : \/ pc'[d] = "idle"
                           \/ /\ HandleOf[d] # h /\ pc'[d] = pc[d] /\ d \notin dead
                              /\ Destination(d)' = Destination(d)
    BY <1>1, <2>1 DEF Destination
  <2>3. \A d \in Editors : HandleOf[d] # h =>
           /\ mutex'[HandleOf[d]] = mutex[HandleOf[d]]
           /\ writeLock = d => writeLock' = d
    BY <1>1, <2>1
  <2>4. EditorInv'
    BY <2>1, <2>2, <2>3 DEF GateInv, EditorInv
  <2>5. FillInv'
    BY <2>1, <2>2 DEF GateInv, FillInv
  <2> QED BY <2>4, <2>5 DEF GateInv
<1>8. ASSUME NEW p \in Paths, Lose(p) PROVE GateInv'
  <2>1. /\ pc' = pc /\ request' = request /\ mutex' = mutex /\ writeLock' = writeLock
        /\ shape' = [shape EXCEPT ![p] = "absent"]
        /\ \A c \in Editors : pc[c] \in {"persist", "fill"} => Destination(c) # p
    BY <1>8 DEF Lose, callVars
  <2>2. \A c \in Editors : Destination(c)' = Destination(c)
    BY <2>1 DEF Destination
  <2>3. \A c \in Editors : pc[c] = "persist" => Destination(c) = "vault"
    BY DEF TypeInv, CallTypes, RequestOK, Edits, Destination
  <2>4. EditorInv'
    BY <1>1, <2>1, <2>2, <2>3 DEF GateInv, EditorInv
  <2>5. FillInv'
    BY <1>1, <2>1, <2>2 DEF GateInv, FillInv
  <2> QED BY <2>4, <2>5 DEF GateInv
<1>9. CASE \/ UNCHANGED vars
           \/ \E r \in Readers : GetValue(r) \/ \E i \in Ids : GetVersion(r, i)
           \/ \E h \in Handles : HandleStep(h)
  BY <1>2, <1>9 DEF vars, fileVars, callVars, GetValue, GetVersion, Reload, HandleStep, Unlock,
                    Lock, IsUnlocked, Relock, IdleTimeout, ListEntries
<1> QED BY <1>3, <1>4, <1>5, <1>6, <1>7, <1>8, <1>9 DEF Next, Step

-----------------------------------------------------------------------------
(* Vaults: sound, and with the values their versions were saved with.      *)

GoodFor(e, w) ==
    /\ Sound(e)
    /\ \A v \in Versions : e.sealed[v] # None => e.sealed[v].value = w[v]

Good(e) == GoodFor(e, valueOf)

\* What Good says of a vault, in the words of the properties.
LEMMA GoodIsAsSaved == ASSUME NEW e, Good(e) PROVE Sound(e) /\ AsSaved(e)
BY DEF Good, GoodFor, AsSaved

\* A vault without entries is good.
LEMMA EmptyGood == ASSUME NEW s, NEW w PROVE GoodFor(EmptyEnvelope(s), w)
BY DEF GoodFor, Sound, EmptyEnvelope, Versions

\* A vault stays good when versions it does not have get their values.
LEMMA GoodStays ==
    ASSUME NEW e \in Envelopes, NEW w, NEW z, GoodFor(e, w),
           \A v \in Versions : w[v] # None => z[v] = w[v]
    PROVE  GoodFor(e, z)
<1>1. \A v \in Versions : e.sealed[v] # None => e.sealed[v].value \in Values
  BY DEF Envelopes, Payloads
<1> QED BY <1>1 DEF GoodFor, Callers

\* Soundness is what verify_all checks: as many payloads as entries, each in its place.
LEMMA SoundVerifies == ASSUME NEW e \in Envelopes, Sound(e) PROVE VerifiesAll(e)
<1> DEFINE listed == {i \in Ids : e.entries[i] # 0}
           kept == {v \in Versions : e.sealed[v] # None}
           g == [i \in listed |-> e.entries[i]]
<1>1. \A i \in listed : e.entries[i] \in Versions
  BY DEF Envelopes, Versions
<1>2. g \in [listed -> kept]
  BY <1>1 DEF Sound
<1>3. ASSUME NEW v \in kept PROVE \E i \in listed : g[i] = v
  <2>1. e.sealed[v].id \in Ids /\ e.entries[e.sealed[v].id] = v /\ v # 0
    BY DEF Sound, Envelopes, Payloads, Versions
  <2> QED BY <2>1
<1>4. \A i, j \in listed : g[i] = g[j] => i = j
  BY DEF Sound
<1>5. IsFiniteSet(listed)
  BY FS_Subset
<1>6. g \in Surjection(listed, kept) /\ g \in Injection(listed, kept)
  BY <1>2, <1>3, <1>4 DEF Surjection, Injection, IsInjective
<1>7. Cardinality(listed) = Cardinality(kept)
  BY <1>5, <1>6, FS_Surjection
<1> QED BY <1>7 DEF VerifiesAll, Opens, Sound

\* What an edit of d may give the entries of r: nothing, or a version each that no
\* vault was saved with.
Fits(f, d, r, w) ==
    /\ Allowed(d, r)
    /\ r.op \in Edits
    /\ r.op # "import" => \E i \in Ids : r.ids = {i}
    /\ \/ r.op = "remove" /\ \A i \in r.ids : f[i] = 0
       \/ /\ r.op # "remove" /\ r.value \in Values
          /\ \A i \in r.ids : f[i] \in Versions /\ w[f[i]] = None
          /\ \A i, j \in r.ids : f[i] = f[j] => i = j

\* The old version and payload of one entry.
OldOf(d, i) ==
    IF d.entries[i] = 0 THEN NothingToUndo
    ELSE [version |-> d.entries[i], sealed |-> d.sealed[d.entries[i]]]

\* An edit of a good vault has a payload for each version it gives, and otherwise
\* those that it did not drop.
LEMMA EditedSealed ==
    ASSUME NEW d \in Envelopes, NEW r \in Requests, NEW f \in [r.ids -> 0..MaxVersion],
           NEW w, Fits(f, d, r, w)
    PROVE  LET e == Edited(d, f, r.value) IN
           /\ \A i \in Ids : e.entries[i] = IF i \in r.ids THEN f[i] ELSE d.entries[i]
           /\ \A i \in r.ids : f[i] # 0 => e.sealed[f[i]] = [id |-> i, value |-> r.value]
           /\ \A v \in Versions : (\A i \in r.ids : f[i] # v) =>
                 e.sealed[v] = IF \E i \in r.ids : d.entries[i] = v THEN None ELSE d.sealed[v]
           /\ e.salt = d.salt
<1> DEFINE E == [i \in Ids |-> IF i \in DOMAIN f THEN f[i] ELSE d.entries[i]]
           S == [v \in Versions |->
                    IF \E i \in DOMAIN f : f[i] = v
                    THEN [id |-> CHOOSE i \in DOMAIN f : f[i] = v, value |-> r.value]
                    ELSE IF v \in Superseded(d, f) THEN None ELSE d.sealed[v]]
           e == [d EXCEPT !.entries = E, !.sealed = S]
<1>1. DOMAIN f = r.ids /\ r.ids \subseteq Ids
  BY DEF Requests
<1>2. e = Edited(d, f, r.value)
  BY DEF Edited
<1>3. e.entries = E /\ e.sealed = S /\ e.salt = d.salt
  BY DEF Envelopes
<1>4. ASSUME NEW i \in r.ids, f[i] # 0 PROVE S[f[i]] = [id |-> i, value |-> r.value]
  <2>1. f[i] \in Versions
    BY <1>4 DEF Versions
  <2>2. \A j \in r.ids : f[j] = f[i] => j = i
    BY <1>4 DEF Fits
  <2>3. (CHOOSE j \in DOMAIN f : f[j] = f[i]) = i
    BY <1>1, <2>2
  <2> QED BY <1>1, <2>1, <2>3
<1>5. ASSUME NEW v \in Versions, \A i \in r.ids : f[i] # v
      PROVE  S[v] = IF \E i \in r.ids : d.entries[i] = v THEN None ELSE d.sealed[v]
  BY <1>1, <1>5 DEF Superseded
<1>6. \A i \in Ids : E[i] = IF i \in r.ids THEN f[i] ELSE d.entries[i]
  BY <1>1
<1> HIDE DEF E, S, e
<1> QED BY <1>2, <1>3, <1>4, <1>5, <1>6

\* Once it is saved, an edit of a good vault is a good vault.
LEMMA EditedGood ==
    ASSUME NEW d \in Envelopes, NEW r \in Requests, NEW f \in [r.ids -> 0..MaxVersion],
           NEW w, NEW z, Fits(f, d, r, w), GoodFor(d, w),
           \A v \in Versions : w[v] # None => z[v] = w[v],
           \A v \in Versions : w[v] = None /\ Edited(d, f, r.value).sealed[v] # None =>
               z[v] = Edited(d, f, r.value).sealed[v].value
    PROVE  GoodFor(Edited(d, f, r.value), z)
<1> DEFINE e == Edited(d, f, r.value)
<1>1. /\ \A i \in Ids : e.entries[i] = IF i \in r.ids THEN f[i] ELSE d.entries[i]
      /\ \A i \in r.ids : f[i] # 0 => e.sealed[f[i]] = [id |-> i, value |-> r.value]
      /\ \A v \in Versions : (\A i \in r.ids : f[i] # v) =>
            e.sealed[v] = IF \E i \in r.ids : d.entries[i] = v THEN None ELSE d.sealed[v]
  BY EditedSealed
<1>2. r.ids \subseteq Ids /\ d.entries \in [Ids -> 0..MaxVersion]
  BY DEF Requests, Envelopes
<1>3. \A v \in Versions : d.sealed[v] # None =>
         /\ d.sealed[v] \in Payloads /\ d.sealed[v].id \in Ids /\ d.sealed[v].value \in Values
         /\ w[v] # None /\ z[v] = w[v]
  BY DEF GoodFor, Envelopes, Payloads, Callers
<1>4. \A i \in r.ids : f[i] # 0 =>
         f[i] \in Versions /\ w[f[i]] = None /\ d.sealed[f[i]] = None /\ r.value \in Values
  BY <1>3 DEF Fits
<1>5. \A i \in Ids : d.entries[i] # 0 => d.entries[i] \in Versions
  BY <1>2 DEF Versions
<1> HIDE DEF e
<1>6. ASSUME NEW i \in Ids, e.entries[i] # 0
      PROVE  e.sealed[e.entries[i]] # None /\ e.sealed[e.entries[i]].id = i
  <2>1. CASE i \in r.ids
    <3>1. e.sealed[f[i]] = [id |-> i, value |-> r.value] /\ e.entries[i] = f[i]
      BY <1>1, <1>6, <2>1
    <3>2. e.sealed[f[i]] \in Payloads
      BY <1>1, <1>4, <1>6, <2>1, <3>1 DEF Payloads
    <3> QED BY <3>1, <3>2
  <2>2. CASE i \notin r.ids
    <3> DEFINE v == d.entries[i]
    <3>1. e.entries[i] = v /\ v \in Versions
      BY <1>1, <1>5, <1>6, <2>2
    <3>2. d.sealed[v] # None /\ d.sealed[v].id = i
      BY <3>1, <1>6 DEF GoodFor, Sound
    <3>3. \A j \in r.ids : f[j] # v
      BY <1>4, <3>1, <3>2 DEF Versions
    <3>4. \A j \in r.ids : d.entries[j] # v
      BY <1>2, <2>2, <3>1, <3>2 DEF GoodFor, Sound, Versions
    <3> QED BY <1>1, <3>1, <3>2, <3>3, <3>4
  <2> QED BY <2>1, <2>2
<1>7. ASSUME NEW v \in Versions, e.sealed[v] # None
      PROVE  e.entries[e.sealed[v].id] = v /\ e.sealed[v].value = z[v]
  <2>1. CASE \E i \in r.ids : f[i] = v
    <3>1. PICK i \in r.ids : f[i] = v
      BY <2>1
    <3>2. v # 0
      BY DEF Versions
    <3>3. e.sealed[v] = [id |-> i, value |-> r.value] /\ w[v] = None
      BY <1>1, <1>4, <3>1, <3>2
    <3>4. e.entries[i] = v
      BY <1>1, <1>2, <3>1
    <3>5. z[v] = e.sealed[v].value
      BY <3>3, <1>7 DEF e
    <3> QED BY <3>3, <3>4, <3>5
  <2>2. CASE ~ \E i \in r.ids : f[i] = v
    <3>1. e.sealed[v] = d.sealed[v] /\ d.sealed[v] # None /\ \A i \in r.ids : d.entries[i] # v
      BY <1>1, <1>7, <2>2
    <3>2. /\ d.sealed[v].id \in Ids /\ d.entries[d.sealed[v].id] = v
          /\ d.sealed[v].value = w[v] /\ z[v] = w[v]
      BY <1>3, <3>1 DEF GoodFor, Sound
    <3> QED BY <1>1, <3>1, <3>2
  <2> QED BY <2>1, <2>2
<1>8. GoodFor(e, z)
  BY <1>6, <1>7 DEF GoodFor, Sound
<1> QED BY <1>8 DEF e

\* The rollback of an edit of a good vault is that vault.
LEMMA UndoneIsOld ==
    ASSUME NEW d \in Envelopes, NEW r \in Requests, NEW f \in [r.ids -> 0..MaxVersion],
           NEW w, Fits(f, d, r, w), GoodFor(d, w), NEW i \in r.ids
    PROVE  Undone(Edited(d, f, r.value), r.ids, OldOf(d, i)) = d
<1> DEFINE e == Edited(d, f, r.value)
           u == OldOf(d, i)
           E == [j \in Ids |-> IF j \in r.ids THEN u.version ELSE e.entries[j]]
           S == [v \in Versions |->
                    IF v = u.version THEN u.sealed
                    ELSE IF \E j \in r.ids : e.entries[j] = v THEN None ELSE e.sealed[v]]
<1>1. /\ \A j \in Ids : e.entries[j] = IF j \in r.ids THEN f[j] ELSE d.entries[j]
      /\ \A v \in Versions : (\A j \in r.ids : f[j] # v) =>
            e.sealed[v] = IF \E j \in r.ids : d.entries[j] = v THEN None ELSE d.sealed[v]
      /\ e.salt = d.salt
  BY EditedSealed
<1>2. r.ids \subseteq Ids /\ d.entries \in [Ids -> 0..MaxVersion]
  BY DEF Requests, Envelopes
<1>3. \A j \in r.ids : d.entries[j] = d.entries[i]
  BY <1>2 DEF Fits, Allowed, Edits
<1>4. u.version = d.entries[i] /\ (u.version # 0 => u.sealed = d.sealed[d.entries[i]])
  BY DEF OldOf, NothingToUndo
<1> HIDE DEF e, u
<1>5. E = d.entries
  BY <1>1, <1>2, <1>3, <1>4
<1>6. ASSUME NEW v \in Versions PROVE S[v] = d.sealed[v]
  <2>1. v # 0
    BY DEF Versions
  <2>2. CASE v = u.version
    BY <1>4, <2>1, <2>2
  <2>3. CASE v # u.version /\ \E j \in r.ids : f[j] = v
    <3>1. w[v] = None
      BY <2>1, <2>3 DEF Fits
    <3>2. d.sealed[v] = None
      BY <3>1 DEF GoodFor, Envelopes, Payloads, Callers
    <3> QED BY <1>1, <1>2, <2>3, <3>2
  <2>4. CASE v # u.version /\ ~ \E j \in r.ids : f[j] = v
    BY <1>1, <1>2, <1>3, <1>4, <2>4
  <2> QED BY <2>2, <2>3, <2>4
<1>7. S = d.sealed
  BY <1>6 DEF Envelopes
<1>8. Undone(e, r.ids, u) = [e EXCEPT !.entries = E, !.sealed = S]
  BY DEF Undone
<1>9. Edited(d, f, r.value) = [d EXCEPT !.entries = Edited(d, f, r.value).entries,
                                         !.sealed = Edited(d, f, r.value).sealed]
  BY DEF Edited, Envelopes
<1>10. [e EXCEPT !.entries = d.entries, !.sealed = d.sealed] = d
  BY <1>9 DEF e, Envelopes
<1> QED BY <1>5, <1>7, <1>8, <1>10 DEF e, u

-----------------------------------------------------------------------------
(* What is on the disk and in memory.                                      *)

\* A thread that is about to replace the vault has in memory what is on the disk
\* with its edit, and what it takes to roll the edit back.
Pending(c) ==
    \E f \in [request[c].ids -> 0..MaxVersion], i \in request[c].ids :
        /\ Fits(f, disk["vault"], request[c], valueOf)
        /\ \A j \in request[c].ids : f[j] <= drawn
        /\ memory[HandleOf[c]] = Edited(disk["vault"], f, request[c].value)
        /\ undo[c] = OldOf(disk["vault"], i)

DiskInv  == \A p \in Paths : Good(disk[p])
CarryInv == \A c \in Editors : Good(carried[c])
MemoryInv ==
    \A h \in Handles :
        Good(memory[h]) \/ \E c \in Editors : HandleOf[c] = h /\ pc[c] = "persist"
PendingInv == \A c \in Editors : pc[c] = "persist" => Pending(c)
DrawnInv == \A v \in Versions : valueOf[v] # None => v <= drawn
GotInv ==
    \A r \in Readers : got[r].value # None =>
        got[r].version \in Versions /\ got[r].value = valueOf[got[r].version]

DataInv == DiskInv /\ CarryInv /\ MemoryInv /\ PendingInv /\ DrawnInv /\ GotInv

\* A step that leaves alone the edits under way, and brings nothing into memory,
\* into a file or to a reader that was not saved.
Aside ==
    /\ UNCHANGED <<valueOf, drawn>>
    /\ \A p \in Paths : GoodFor(disk'[p], valueOf)
    /\ \A c \in Editors : GoodFor(carried'[c], valueOf)
    /\ \A h \in Handles :
          \/ GoodFor(memory'[h], valueOf)
          \/ /\ memory'[h] = memory[h]
             /\ \A c \in Editors : HandleOf[c] = h /\ pc[c] = "persist" => pc'[c] = "persist"
    /\ \A c \in Editors : pc'[c] = "persist" =>
          /\ pc[c] = "persist" /\ request'[c] = request[c] /\ undo'[c] = undo[c]
          /\ memory'[HandleOf[c]] = memory[HandleOf[c]]
          /\ disk'["vault"] = disk["vault"]
    /\ \A r \in Readers : got'[r].value # None =>
          got'[r].version \in Versions /\ got'[r].value = valueOf[got'[r].version]

\* A step aside keeps the invariant about the data.
LEMMA AsideKeepsData == ASSUME DataInv, Aside PROVE DataInv'
<1>1. valueOf' = valueOf /\ drawn' = drawn
  BY DEF Aside
<1>2. DiskInv' /\ CarryInv' /\ DrawnInv' /\ GotInv'
  BY <1>1 DEF Aside, DataInv, DiskInv, CarryInv, DrawnInv, GotInv, Good
<1>3. MemoryInv'
  BY <1>1 DEF Aside, DataInv, MemoryInv, Good
<1>4. ASSUME NEW c \in Editors, pc'[c] = "persist" PROVE Pending(c)'
  <2>1. /\ Pending(c) /\ request'[c] = request[c] /\ undo'[c] = undo[c]
        /\ memory'[HandleOf[c]] = memory[HandleOf[c]] /\ disk'["vault"] = disk["vault"]
    BY <1>4 DEF Aside, DataInv, PendingInv
  <2> QED BY <1>1, <2>1 DEF Pending
<1> QED BY <1>2, <1>3, <1>4 DEF DataInv, PendingInv

\* A step that touches no edit: it changes the vault in memory only of a handle
\* whose mutex is free, or not at all.
LEMMA QuietAside ==
    ASSUME TypeInv, GateInv, DataInv, UNCHANGED <<pc, request, undo, disk, valueOf, drawn>>,
           \A c \in Editors : GoodFor(carried'[c], valueOf),
           NEW h \in Handles,
           memory' = memory \/ (mutex[h] = None /\ \E e : memory' = [memory EXCEPT ![h] = e]
                                /\ GoodFor(e, valueOf)),
           \A r \in Readers : got'[r].value # None =>
               got'[r].version \in Versions /\ got'[r].value = valueOf[got'[r].version]
    PROVE  Aside
<1>1. memory \in [Handles -> Envelopes] /\ None \notin Editors
  BY DEF TypeInv, DataTypes, Callers
<1>2. \A c \in Editors : pc[c] = "persist" => mutex[HandleOf[c]] = c
  BY DEF GateInv, EditorInv, EditLabels
<1>3. \A c \in Editors : pc[c] = "persist" => memory'[HandleOf[c]] = memory[HandleOf[c]]
  BY <1>1, <1>2, HandleOfType
<1>4. \A k \in Handles : GoodFor(memory'[k], valueOf) \/ memory'[k] = memory[k]
  BY <1>1
<1> QED BY <1>3, <1>4 DEF Aside, DataInv, DiskInv, Good

\* A reader is given a value only from a vault whose values are right.
LEMMA ReadsAside ==
    ASSUME TypeInv, GateInv, DataInv, NEW r \in Readers,
           GetValue(r) \/ \E i \in Ids : GetVersion(r, i)
    PROVE  Aside
<1> DEFINE d == disk["vault"]
<1>1. Reload(r) /\ Good(d) /\ d \in Envelopes /\ HandleOf[r] \in Handles
  BY HandleOfType DEF GetValue, GetVersion, DataInv, DiskInv, Paths, TypeInv, DataTypes
<1>2. got \in [Readers -> [id : Ids \cup {None}, version : 0..MaxVersion,
                           value : Values \cup {None}]]
  BY DEF TypeInv, DataTypes
<1>3. \A q \in Readers : got'[q].value # None =>
         got'[q].version \in Versions /\ got'[q].value = valueOf[got'[q].version]
  <2>1. CASE GetValue(r)
    <3> DEFINE v == got[r].version
    <3>1. v \in Versions /\ got[r].id \in Ids
      BY <1>2, <2>1 DEF GetValue, Versions, TypeInv, DataTypes, GotOK
    <3>2. CASE d.entries[got[r].id] = v
      <4>1. d.sealed[v] # None /\ d.sealed[v].value = valueOf[v]
        BY <1>1, <3>1, <3>2 DEF Good, GoodFor, Sound, Versions
      <4> QED BY <1>2, <2>1, <3>1, <4>1 DEF GetValue, DataInv, GotInv, NothingRead
    <3>3. CASE d.entries[got[r].id] # v
      BY <1>2, <2>1, <3>3 DEF GetValue, DataInv, GotInv, NothingRead
    <3> QED BY <3>2, <3>3
  <2>2. CASE \E i \in Ids : GetVersion(r, i)
    BY <1>2, <2>2 DEF GetVersion, DataInv, GotInv
  <2> QED BY <2>1, <2>2
<1>4. UNCHANGED <<pc, request, undo, disk, valueOf, drawn, carried>>
  BY <1>1 DEF Reload, fileVars, callVars
<1>5. \A c \in Editors : GoodFor(carried'[c], valueOf)
  BY <1>4 DEF DataInv, CarryInv, Good
<1>6. mutex[HandleOf[r]] = None /\ memory' = [memory EXCEPT ![HandleOf[r]] = d]
  BY <1>1 DEF Reload, MutexFree
<1> QED BY <1>1, <1>3, <1>4, <1>5, <1>6, QuietAside DEF Good

\* Unlocking, locking and listing bring into memory only what is on the disk.
LEMMA HandlesAside ==
    ASSUME TypeInv, GateInv, DataInv, NEW h \in Handles, HandleStep(h)
    PROVE  Aside
<1>1. /\ UNCHANGED <<pc, request, undo, disk, valueOf, drawn, carried, got>>
      /\ mutex[h] = None
  BY DEF HandleStep, Unlock, Lock, IsUnlocked, Relock, IdleTimeout, ListEntries, fileVars,
         callVars, MutexFree
<1>2. /\ GoodFor(disk["vault"], valueOf)
      /\ GoodFor(EmptyEnvelope(0), valueOf) /\ GoodFor(EmptyEnvelope(memory[h].salt), valueOf)
  BY EmptyGood DEF DataInv, DiskInv, Good, Paths
<1>3. memory' = memory \/ \E e : memory' = [memory EXCEPT ![h] = e] /\ GoodFor(e, valueOf)
  BY <1>2 DEF HandleStep, Unlock, Lock, IsUnlocked, Relock, IdleTimeout, ListEntries
<1>4. \A c \in Editors : GoodFor(carried'[c], valueOf)
  BY <1>1 DEF DataInv, CarryInv, Good
<1>5. \A q \in Readers : got'[q].value # None =>
         got'[q].version \in Versions /\ got'[q].value = valueOf[got'[q].version]
  BY <1>1 DEF DataInv, GotInv
<1> QED BY <1>1, <1>3, <1>4, <1>5, QuietAside

\* What holds of a step of a thread that neither edits nor replaces the vault: it
\* is not about to replace it, before or after, and brings a saved vault at most.
LEMMA ThreadAside ==
    ASSUME TypeInv, GateInv, DataInv, NEW c \in Editors,
           UNCHANGED <<valueOf, drawn, got>>,
           \A d \in Editors : d # c =>
               pc'[d] = pc[d] /\ request'[d] = request[d] /\ undo'[d] = undo[d],
           pc'[c] # "persist",
           \A d \in Editors : carried'[d] = carried[d] \/ GoodFor(carried'[d], valueOf),
           \A p \in Paths : disk'[p] = disk[p] \/ GoodFor(disk'[p], valueOf),
           disk'["vault"] = disk["vault"] \/ shape["vault"] # "whole",
           \/ memory' = memory /\ pc[c] # "persist"
           \/ \E e : /\ memory' = [memory EXCEPT ![HandleOf[c]] = e]
                     /\ GoodFor(e, valueOf)
                     /\ mutex[HandleOf[c]] \in {None, c}
    PROVE  Aside
<1>1. memory \in [Handles -> Envelopes] /\ None \notin Editors
  BY DEF TypeInv, DataTypes, Callers
<1>2. \A d \in Editors : pc[d] = "persist" => mutex[HandleOf[d]] = d /\ shape["vault"] = "whole"
  BY DEF GateInv, EditorInv, EditLabels
<1>3. \A d \in Editors : pc'[d] = "persist" => d # c /\ pc[d] = "persist"
  OBVIOUS
<1>4. \A d \in Editors : pc'[d] = "persist" => memory'[HandleOf[d]] = memory[HandleOf[d]]
  BY <1>1, <1>2, <1>3, HandleOfType
<1>5. \A h \in Handles :
         \/ GoodFor(memory'[h], valueOf)
         \/ /\ memory'[h] = memory[h]
            /\ \A d \in Editors : HandleOf[d] = h /\ pc[d] = "persist" => pc'[d] = "persist"
  BY <1>1, HandleOfType
<1>6. \A d \in Editors : pc'[d] = "persist" =>
         /\ pc[d] = "persist" /\ request'[d] = request[d] /\ undo'[d] = undo[d]
         /\ disk'["vault"] = disk["vault"]
  BY <1>2, <1>3
<1>7. /\ \A p \in Paths : GoodFor(disk'[p], valueOf)
      /\ \A d \in Editors : GoodFor(carried'[d], valueOf)
      /\ \A r \in Readers : got'[r].value # None =>
            got'[r].version \in Versions /\ got'[r].value = valueOf[got'[r].version]
  BY DEF DataInv, DiskInv, CarryInv, GotInv, Good
<1> QED BY <1>4, <1>5, <1>6, <1>7 DEF Aside

\* Of the steps of an edit, all but the edit itself and the replacement go aside; the
\* rollback brings back what is on the disk.
LEMMA EditsAside ==
    ASSUME TypeInv, GateInv, DataInv, NEW c \in Editors,
           EditStep(c), ~Edit(c), ~Replace(c)
    PROVE  Aside
<1> USE DEF TypeInv, CallTypes, DataTypes
<1>1. GoodFor(disk["vault"], valueOf)
  BY DEF DataInv, DiskInv, Good, Paths
<1>2. mutex[HandleOf[c]] = c
  BY DEF EditStep, LockForUpdate, LockFails, ReloadFails, Refuse, ReplaceFails, GoOn, Finish,
         Transition, GateInv, EditorInv, EditLabels
<1>3. CASE LockForUpdate(c) \/ LockFails(c) \/ ReloadFails(c)
  BY <1>3, ThreadAside DEF LockForUpdate, LockFails, ReloadFails, GoOn, Finish, Transition, fileVars
<1>4. CASE Refuse(c)
  BY <1>1, <1>2, <1>4, ThreadAside DEF Refuse, Finish, Transition, fileVars
<1>5. CASE ReplaceFails(c)
  <2>1. pc[c] = "persist" /\ request[c] \in Requests /\ disk["vault"] \in Envelopes
    BY <1>5 DEF ReplaceFails, Finish, Transition, Paths
  <2>2. PICK f \in [request[c].ids -> 0..MaxVersion], i \in request[c].ids :
           /\ Fits(f, disk["vault"], request[c], valueOf)
           /\ memory[HandleOf[c]] = Edited(disk["vault"], f, request[c].value)
           /\ undo[c] = OldOf(disk["vault"], i)
    BY <2>1 DEF DataInv, PendingInv, Pending
  <2>3. Undone(memory[HandleOf[c]], request[c].ids, undo[c]) = disk["vault"]
    BY <1>1, <2>1, <2>2, UndoneIsOld
  <2>4. memory' = [memory EXCEPT ![HandleOf[c]] = disk["vault"]]
    BY <1>5, <2>3, HandleOfType DEF ReplaceFails
  <2>5. /\ UNCHANGED <<disk, carried, request, got, drawn, valueOf>>
        /\ pc'[c] # "persist"
        /\ \A d \in Editors : d # c => pc'[d] = pc[d] /\ undo'[d] = undo[d]
    BY <1>5 DEF ReplaceFails, Finish, Transition, fileVars
  <2> QED BY <1>1, <1>2, <2>4, <2>5, ThreadAside
<1> QED BY <1>3, <1>4, <1>5 DEF EditStep

\* Creating, backing up and recovering write and adopt only vaults that were saved,
\* and write no file that is whole.
LEMMA CreatesAside ==
    ASSUME TypeInv, GateInv, DataInv, NEW c \in Editors, CreateStep(c)
    PROVE  Aside
<1> USE DEF TypeInv, CallTypes, DataTypes
<1>1. /\ \A p \in Paths : GoodFor(disk[p], valueOf)
      /\ \A d \in Editors : GoodFor(carried[d], valueOf)
  BY DEF DataInv, DiskInv, CarryInv, Good
<1>2. Destination(c) \in Paths /\ "vault" \in Paths /\ "backup" \in Paths
  BY DEF Destination, Paths
<1>3. CASE ReadAgain(c) \/ ReadAgainFails(c)
  BY <1>1, <1>2, <1>3, ThreadAside DEF ReadAgain, ReadAgainFails, GoOn, Finish, Transition, fileVars
<1>4. CASE CreateNew(c) \/ CreateNewFails(c)
  BY <1>4, ThreadAside DEF CreateNew, CreateNewFails, GoOn, Finish, Transition, fileVars
<1>5. CASE Fill(c) \/ FillFails(c)
  <2>1. /\ pc[c] = "fill" /\ pc'[c] # "persist" /\ request' = request
        /\ \A d \in Editors : d # c => pc'[d] = pc[d]
        /\ UNCHANGED <<memory, carried, undo, got, drawn, valueOf>>
    BY <1>5 DEF Fill, FillFails, GoOn, Finish, Transition
  <2>2. disk' = disk \/ disk' = [disk EXCEPT ![Destination(c)] = carried[c]]
    BY <1>5 DEF Fill, FillFails, Written, fileVars
  <2>3. shape[Destination(c)] = "partial"
    BY <2>1 DEF GateInv, FillInv
  <2>4. disk'["vault"] = disk["vault"] \/ shape["vault"] # "whole"
    BY <1>2, <2>2, <2>3
  <2>5. \A p \in Paths : disk'[p] = disk[p] \/ GoodFor(disk'[p], valueOf)
    BY <1>1, <2>2
  <2> QED BY <2>1, <2>4, <2>5, ThreadAside
<1>6. CASE OpenNew(c) \/ OpenNewFails(c)
  BY <1>1, <1>2, <1>6, ThreadAside DEF OpenNew, OpenNewFails, GoOn, Finish, Transition, fileVars
<1>7. CASE Adopt(c)
  <2>1. /\ UNCHANGED <<disk, carried, request, undo, got, drawn, valueOf>>
        /\ pc'[c] # "persist" /\ mutex[HandleOf[c]] = None
        /\ \A d \in Editors : d # c => pc'[d] = pc[d]
        /\ memory' = [memory EXCEPT ![HandleOf[c]] = carried[c]]
    BY <1>7 DEF Adopt, MutexFree, Finish, Transition, fileVars
  <2> QED BY <1>1, <2>1, ThreadAside
<1> QED BY <1>3, <1>4, <1>5, <1>6, <1>7 DEF CreateStep

\* A call starts with what is on the disk, or with an empty vault.
LEMMA CallsAside ==
    ASSUME TypeInv, GateInv, DataInv, NEW c \in Editors, Call(c)
    PROVE  Aside
<1> USE DEF TypeInv, CallTypes, DataTypes
<1>1. \A p \in Paths : GoodFor(disk[p], valueOf)
  BY DEF DataInv, DiskInv, Good
<1>2. "vault" \in Paths /\ "backup" \in Paths /\ GoodFor(EmptyEnvelope(salts + 1), valueOf)
  BY EmptyGood DEF Paths
<1>3. ASSUME NEW r, BeginEdit(c, r) PROVE Aside
  BY <1>3, ThreadAside DEF BeginEdit, Ask, Transition, fileVars
<1>4. CASE \/ \E i \in Ids : Remove(c, i) \/ \E x \in Values : Put(c, i, x)
           \/ \E ids \in (SUBSET Ids) \ {{}}, x \in Values : ImportNew(c, ids, x)
  BY <1>3, <1>4 DEF Remove, Put, ImportNew
<1>5. CASE Create(c) \/ Backup(c) \/ Recover(c)
  <2>1. /\ UNCHANGED <<disk, memory, undo, got, drawn, valueOf>>
        /\ pc[c] # "persist" /\ pc'[c] # "persist"
        /\ \A d \in Editors : d # c =>
              pc'[d] = pc[d] /\ request'[d] = request[d] /\ carried'[d] = carried[d]
    BY <1>5 DEF Create, Backup, Recover, Ask, Transition, fileVars
  <2>2. carried'[c] \in {disk["vault"], disk["backup"], EmptyEnvelope(salts + 1)}
    BY <1>5 DEF Create, Backup, Recover
  <2> QED BY <1>1, <1>2, <2>1, <2>2, ThreadAside
<1> QED BY <1>4, <1>5 DEF Call

\* Returning, dying and losing a file leave nothing new.
LEMMA OthersAside ==
    ASSUME TypeInv, GateInv, DataInv,
           \/ \E c \in Editors : Reply(c)
           \/ \E h \in Handles : Crash(h)
           \/ \E p \in Paths : Lose(p)
           \/ UNCHANGED vars
    PROVE  Aside
<1> USE DEF TypeInv, CallTypes, DataTypes
<1>1. /\ \A p \in Paths : GoodFor(disk[p], valueOf)
      /\ \A d \in Editors : GoodFor(carried[d], valueOf)
      /\ GoodFor(EmptyEnvelope(0), valueOf)
  BY EmptyGood DEF DataInv, DiskInv, CarryInv, Good
<1>2. \A r \in Readers : got[r].value # None =>
         got[r].version \in Versions /\ got[r].value = valueOf[got[r].version]
  BY DEF DataInv, GotInv
<1>3. ASSUME NEW c \in Editors, Reply(c) PROVE Aside
  BY <1>1, <1>3, ThreadAside DEF Reply, Return, fileVars
<1>4. ASSUME NEW h \in Handles, Crash(h) PROVE Aside
  <2>1. /\ memory' = [memory EXCEPT ![h] = EmptyEnvelope(0)]
        /\ disk' = disk /\ valueOf' = valueOf /\ drawn' = drawn
        /\ \A d \in Editors : HandleOf[d] = h =>
              pc'[d] = "idle" /\ carried'[d] = EmptyEnvelope(0)
        /\ \A d \in Editors : HandleOf[d] # h =>
              /\ pc'[d] = pc[d] /\ request'[d] = request[d] /\ undo'[d] = undo[d]
              /\ carried'[d] = carried[d]
        /\ \A r \in Readers : got'[r] = got[r] \/ got'[r] = NothingRead
    BY <1>4 DEF Crash, fileVars
  <2>2. \A k \in Handles : IF k = h THEN GoodFor(memory'[k], valueOf) ELSE memory'[k] = memory[k]
    BY <1>1, <2>1
  <2>3. \A r \in Readers : got'[r].value # None =>
           got'[r].version \in Versions /\ got'[r].value = valueOf[got'[r].version]
    BY <1>2, <2>1 DEF NothingRead
  <2>4. \A d \in Editors : pc'[d] = "persist" =>
           /\ pc[d] = "persist" /\ request'[d] = request[d] /\ undo'[d] = undo[d]
           /\ memory'[HandleOf[d]] = memory[HandleOf[d]]
    BY <2>1, <2>2, HandleOfType
  <2> QED BY <1>1, <2>1, <2>2, <2>3, <2>4 DEF Aside
<1>5. ASSUME NEW p \in Paths, Lose(p) PROVE Aside
  <2>1. \A c \in Editors : pc[c] = "persist" => p # "vault"
    BY <1>5 DEF Lose, Destination, RequestOK, Edits
  <2>2. /\ disk' = [disk EXCEPT ![p] = EmptyEnvelope(0)]
        /\ UNCHANGED <<memory, pc, request, carried, undo, got, drawn, valueOf>>
    BY <1>5 DEF Lose, callVars
  <2>3. "vault" \in Paths
    BY DEF Paths
  <2> QED BY <1>1, <1>2, <2>1, <2>2, <2>3 DEF Aside, DataInv, MemoryInv, Good
<1>6. ASSUME UNCHANGED vars PROVE Aside
  <2>1. UNCHANGED <<memory, disk, pc, request, carried, undo, got, drawn, valueOf>>
    BY <1>6 DEF vars, fileVars, callVars
  <2> QED BY <1>1, <1>2, <2>1 DEF Aside
<1> QED BY <1>3, <1>4, <1>5, <1>6

\* The only thread that has the lock file is the only one that replaces the vault.
LEMMA OneReplaces ==
    ASSUME GateInv, NEW c \in Editors, pc[c] \in {"reload", "persist"},
           NEW d \in Editors, pc[d] = "persist"
    PROVE  d = c
BY DEF GateInv, EditorInv

\* An edit of the vault that was just read leaves a pending edit in memory.
LEMMA EditKeepsData ==
    ASSUME TypeInv, GateInv, DataInv, NEW c \in Editors, Edit(c)
    PROVE  DataInv'
<1> DEFINE r == request[c]
           d == disk["vault"]
           h == HandleOf[c]
<1>1. /\ memory \in [Handles -> Envelopes] /\ undo \in [Editors -> [version : 0..MaxVersion,
                                                       sealed : Payloads \cup {None}]]
      /\ pc \in [Editors -> Labels] /\ h \in Handles /\ d \in Envelopes /\ r \in Requests
      /\ drawn \in Nat
  BY HandleOfType DEF TypeInv, CallTypes, DataTypes, Paths
<1>2. /\ pc[c] = "reload" /\ pc' = [pc EXCEPT ![c] = "persist"]
      /\ UNCHANGED <<request, disk, carried, got, valueOf>>
      /\ Allowed(d, r) /\ (r.op # "remove" => drawn + Cardinality(r.ids) <= MaxVersion)
      /\ drawn' = IF r.op = "remove" THEN drawn ELSE drawn + Cardinality(r.ids)
  BY DEF Edit, GoOn, Transition, fileVars
<1>3. PICK f \in NewVersions(r) : memory' = [memory EXCEPT ![h] = Edited(d, f, r.value)]
  BY DEF Edit
<1>4. PICK i \in r.ids : undo' = [undo EXCEPT ![c] = OldOf(d, i)]
  BY DEF Edit, OldOf
<1>5. /\ f \in [r.ids -> 0..MaxVersion]
      /\ r.op = "remove" => \A j \in r.ids : f[j] = 0
      /\ r.op # "remove" =>
            /\ \A j \in r.ids : f[j] \in (drawn + 1)..(drawn + Cardinality(r.ids))
            /\ \A j, k \in r.ids : f[j] = f[k] => j = k
      /\ Cardinality(r.ids) \in Nat
  BY <1>2, NewVersionsType
<1>6. RequestOK(c)
  BY DEF TypeInv, CallTypes
<1>7. Fits(f, d, r, valueOf)
  <2>1. \A j \in r.ids : r.op # "remove" => f[j] \in Versions /\ valueOf[f[j]] = None
    BY <1>1, <1>2, <1>5 DEF Versions, DataInv, DrawnInv
  <2> QED BY <1>2, <1>5, <1>6, <2>1 DEF Fits, RequestOK
<1>8. drawn' \in Nat /\ drawn <= drawn' /\ \A j \in r.ids : f[j] <= drawn'
  BY <1>1, <1>2, <1>5
<1>9. memory'[h] = Edited(d, f, r.value) /\ undo'[c] = OldOf(d, i) /\ pc'[c] = "persist"
  BY <1>1, <1>2, <1>3, <1>4
<1>10. Pending(c)'
  <2> HIDE DEF r, d, h
  <2>1. r' = r /\ d' = d /\ h' = h /\ valueOf' = valueOf
    BY <1>2 DEF r, d, h
  <2>2. \E g \in [r.ids -> 0..MaxVersion], k \in r.ids :
           /\ Fits(g, d, r, valueOf)
           /\ \A j \in r.ids : g[j] <= drawn'
           /\ memory'[h] = Edited(d, g, r.value)
           /\ undo'[c] = OldOf(d, k)
    BY <1>5, <1>7, <1>8, <1>9
  <2> QED BY <2>1, <2>2 DEF Pending, r, d, h
<1>11. \A b \in Editors : pc'[b] = "persist" => b = c
  BY <1>2, OneReplaces
<1>12. PendingInv'
  BY <1>10, <1>11 DEF PendingInv
<1>13. MemoryInv'
  <2> SUFFICES ASSUME NEW k \in Handles, k # h PROVE Good(memory[k])'
    BY <1>9 DEF MemoryInv
  <2>1. memory'[k] = memory[k]
    BY <1>1, <1>3
  <2>2. ~ \E b \in Editors : HandleOf[b] = k /\ pc[b] = "persist"
    BY <1>2, OneReplaces
  <2> QED BY <1>2, <2>1, <2>2 DEF DataInv, MemoryInv, Good
<1>14. DiskInv' /\ CarryInv' /\ GotInv'
  BY <1>2 DEF DataInv, DiskInv, CarryInv, GotInv, Good
<1>15. DrawnInv'
  BY <1>1, <1>2, <1>8 DEF DataInv, DrawnInv, Versions
<1> QED BY <1>12, <1>13, <1>14, <1>15 DEF DataInv

\* A replacement saves the pending edit, and gives its new versions their values.
LEMMA ReplaceKeepsData ==
    ASSUME TypeInv, GateInv, DataInv, NEW c \in Editors, Replace(c)
    PROVE  DataInv'
<1> DEFINE r == request[c]
           d == disk["vault"]
           h == HandleOf[c]
           m == memory[h]
<1>1. /\ memory \in [Handles -> Envelopes] /\ disk \in [Paths -> Envelopes]
      /\ carried \in [Editors -> Envelopes]
      /\ pc \in [Editors -> Labels] /\ h \in Handles /\ d \in Envelopes /\ r \in Requests
      /\ drawn \in Nat /\ m \in Envelopes /\ "vault" \in Paths
  BY HandleOfType DEF TypeInv, CallTypes, DataTypes, Paths
<1>2. /\ pc[c] = "persist" /\ pc' = [pc EXCEPT ![c] = "reply"]
      /\ UNCHANGED <<request, memory, carried, got, drawn>>
      /\ disk' = [disk EXCEPT !["vault"] = m]
      /\ valueOf' = [v \in Versions |->
            IF valueOf[v] = None /\ m.sealed[v] # None THEN m.sealed[v].value ELSE valueOf[v]]
  BY DEF Replace, Finish, Transition
<1>3. PICK f \in [r.ids -> 0..MaxVersion] :
         /\ Fits(f, d, r, valueOf)
         /\ \A j \in r.ids : f[j] <= drawn
         /\ m = Edited(d, f, r.value)
  BY <1>2 DEF DataInv, PendingInv, Pending
<1>4. GoodFor(d, valueOf)
  BY <1>1 DEF DataInv, DiskInv, Good
<1>5. \A v \in Versions : valueOf[v] # None => valueOf'[v] = valueOf[v]
  BY <1>2
<1>6. GoodFor(m, valueOf')
  <2>1. \A v \in Versions : valueOf[v] = None /\ Edited(d, f, r.value).sealed[v] # None =>
           valueOf'[v] = Edited(d, f, r.value).sealed[v].value
    BY <1>2, <1>3
  <2> HIDE DEF d, r, h, m
  <2>2. PICK w, z : w = valueOf /\ z = valueOf'
    OBVIOUS
  <2>3. /\ \A v \in Versions : w[v] # None => z[v] = w[v]
        /\ \A v \in Versions : w[v] = None /\ Edited(d, f, r.value).sealed[v] # None =>
              z[v] = Edited(d, f, r.value).sealed[v].value
    BY <1>5, <2>1, <2>2
  <2>4. GoodFor(d, w) /\ Fits(f, d, r, w)
    BY <1>3, <1>4, <2>2
  <2>5. GoodFor(Edited(d, f, r.value), z)
    <3>1. d \in Envelopes /\ r \in Requests
      BY <1>1
    <3>2. f \in [r.ids -> 0..MaxVersion]
      OBVIOUS
    <3> QED BY <2>3, <2>4, <3>1, <3>2, EditedGood
  <2> QED BY <1>3, <2>2, <2>5
<1>7. \A e \in Envelopes : GoodFor(e, valueOf) => GoodFor(e, valueOf')
  BY <1>5, GoodStays
<1>8. \A k \in Handles : GoodFor(memory[k], valueOf')
  <2> SUFFICES ASSUME NEW k \in Handles, k # h PROVE GoodFor(memory[k], valueOf')
    BY <1>6
  <2>1. ~ \E b \in Editors : HandleOf[b] = k /\ pc[b] = "persist"
    BY <1>2, OneReplaces
  <2> QED BY <1>1, <1>7, <2>1 DEF DataInv, MemoryInv, Good
<1>9. MemoryInv'
  BY <1>2, <1>8 DEF MemoryInv, Good
<1>10. DiskInv'
  BY <1>1, <1>2, <1>6, <1>7 DEF DataInv, DiskInv, Good
<1>11. CarryInv'
  BY <1>1, <1>2, <1>7 DEF DataInv, CarryInv, Good
<1>12. PendingInv'
  <2>1. \A b \in Editors : pc'[b] # "persist"
    BY <1>1, <1>2, OneReplaces
  <2> QED BY <2>1 DEF PendingInv
<1>13. DrawnInv'
  <2> SUFFICES ASSUME NEW v \in Versions, valueOf[v] = None, m.sealed[v] # None
               PROVE  v <= drawn
    BY <1>2 DEF DataInv, DrawnInv
  <2>1. d.sealed[v] = None
    BY <1>1, <1>4 DEF GoodFor, Envelopes, Payloads, Callers
  <2>2. \E j \in r.ids : f[j] = v
    <3> HIDE DEF d, r, m
    <3> QED BY <1>1, <1>3, <2>1, EditedSealed
  <2> QED BY <1>3, <2>2
<1>14. GotInv'
  BY <1>2, <1>5 DEF DataInv, GotInv
<1> QED BY <1>9, <1>10, <1>11, <1>12, <1>13, <1>14 DEF DataInv

\* Every step keeps the invariant about the data.
LEMMA DataIsKept == ASSUME TypeInv, GateInv, DataInv, [Next]_vars PROVE DataInv'
<1>1. ASSUME NEW c \in Editors, Step(c) PROVE DataInv'
  <2>1. CASE Edit(c)
    BY <2>1, EditKeepsData
  <2>2. CASE Replace(c)
    BY <2>2, ReplaceKeepsData
  <2>3. CASE ~Edit(c) /\ ~Replace(c)
    BY <1>1, <2>3, EditsAside, CreatesAside, OthersAside, AsideKeepsData DEF Step
  <2> QED BY <2>1, <2>2, <2>3
<1>2. CASE \/ \E c \in Editors : Call(c)
           \/ \E r \in Readers : GetValue(r) \/ \E i \in Ids : GetVersion(r, i)
           \/ \E h \in Handles : HandleStep(h) \/ Crash(h)
           \/ \E p \in Paths : Lose(p)
           \/ UNCHANGED vars
  BY <1>2, CallsAside, ReadsAside, HandlesAside, OthersAside, AsideKeepsData
<1> QED BY <1>1, <1>2 DEF Next

-----------------------------------------------------------------------------
\* The locks are held where they are needed, and everything saved or remembered is
\* a vault as it was saved, or one that a thread with both locks is about to save.
VaultInv == TypeInv /\ GateInv /\ DataInv

\* The invariant holds: of the file, of memory, of every edit that is under way.
THEOREM VaultInvariant == Spec => []VaultInv
<1>1. Init /\ TypeInv => GateInv /\ DataInv
  <2> SUFFICES ASSUME Init, TypeInv PROVE GateInv /\ DataInv
    OBVIOUS
  <2>1. Good(EmptyEnvelope(0))
    BY EmptyGood DEF Good
  <2>2. GateInv
    BY DEF Init, GateInv, EditorInv, FillInv, EditLabels
  <2>3. DataInv
    BY <2>1 DEF Init, DataInv, DiskInv, CarryInv, MemoryInv, PendingInv, DrawnInv, GotInv,
       NothingRead
  <2> QED BY <2>2, <2>3
<1>2. TypeInv /\ GateInv /\ DataInv /\ [Next]_vars => GateInv' /\ DataInv'
  BY GatesAreKept, DataIsKept
<1> QED BY <1>1, <1>2, VaultTypes, PTL DEF Spec, VaultInv

\* No sequence of edits, failed edits, failed creations and crashes leaves a whole
\* file that open_manifest or verify_all would reject.
THEOREM FilesStaySound == Spec => []FilesAreSound
<1>1. VaultInv => FilesAreSound
  BY SoundVerifies DEF VaultInv, TypeInv, DataTypes, DataInv, DiskInv, Good, GoodFor, FilesAreSound
<1> QED BY <1>1, VaultInvariant, PTL

\* An unlocked vault that nobody is editing has only entries that were saved: every
\* failed put, remove or import_new was rolled back completely.
THEOREM MemoryStaysSaved == Spec => []MemoryWasSaved
<1>1. VaultInv => MemoryWasSaved
  <2> SUFFICES ASSUME VaultInv, NEW h \in Handles,
                      MutexFree(h) \/ pc[mutex[h]] \in {"flock", "reply"}
               PROVE  Sound(memory[h]) /\ AsSaved(memory[h])
    BY DEF MemoryWasSaved
  <2>1. \A c \in Editors : HandleOf[c] = h => pc[c] # "persist"
    BY DEF VaultInv, GateInv, EditorInv, EditLabels, MutexFree, Callers
  <2> QED BY <2>1, GoodIsAsSaved DEF VaultInv, DataInv, MemoryInv
<1> QED BY <1>1, VaultInvariant, PTL

\* A sync is given the value that its version was saved with.
THEOREM ReadsStayTrue == Spec => []ReadsAreTrue
<1>1. VaultInv => ReadsAreTrue
  BY DEF VaultInv, DataInv, GotInv, ReadsAreTrue
<1> QED BY <1>1, VaultInvariant, PTL

-----------------------------------------------------------------------------
(* Files are created only where there is none.                             *)

\* No step writes a whole backup.
LEMMA BackupStays ==
    ASSUME TypeInv, GateInv, [Next]_vars, shape["backup"] = "whole"
    PROVE  \/ shape'["backup"] = "whole" /\ disk'["backup"] = disk["backup"]
           \/ shape'["backup"] = "absent"
<1> USE DEF TypeInv, DataTypes, Paths
<1>1. ASSUME NEW c \in Editors, Replace(c) PROVE UNCHANGED <<shape["backup"], disk["backup"]>>
  BY <1>1 DEF Replace
<1>2. ASSUME NEW c \in Editors, CreateNew(c) PROVE UNCHANGED <<shape["backup"], disk["backup"]>>
  BY <1>2 DEF CreateNew, Vacant
<1>3. ASSUME NEW c \in Editors, Fill(c) \/ FillFails(c)
      PROVE  UNCHANGED <<shape["backup"], disk["backup"]>>
  <2>1. pc[c] = "fill"
    BY <1>3 DEF Fill, FillFails, GoOn, Finish, Transition
  <2>2. Destination(c) # "backup"
    BY <2>1 DEF GateInv, FillInv
  <2> QED BY <1>3, <2>2 DEF Fill, FillFails, Written, fileVars
<1>4. ASSUME NEW p \in Paths, Lose(p)
      PROVE  \/ shape'["backup"] = "absent"
             \/ UNCHANGED <<shape["backup"], disk["backup"]>>
  BY <1>4 DEF Lose
<1>5. ASSUME NEW c \in Editors, Step(c),
             ~(Replace(c) \/ CreateNew(c) \/ Fill(c) \/ FillFails(c))
      PROVE  UNCHANGED fileVars
  BY <1>5 DEF Step, EditStep, CreateStep, LockForUpdate, LockFails, ReloadFails, Refuse, Edit,
     ReplaceFails, ReadAgain, ReadAgainFails, CreateNewFails, OpenNew, OpenNewFails, Adopt, Reply
<1>6. ASSUME \/ \E c \in Editors : Call(c)
             \/ \E r \in Readers : GetValue(r) \/ \E i \in Ids : GetVersion(r, i)
             \/ \E h \in Handles : HandleStep(h) \/ Crash(h)
             \/ UNCHANGED vars
      PROVE  UNCHANGED fileVars
  BY <1>6 DEF Call, Put, Remove, ImportNew, BeginEdit, Create, Backup, Recover, GetValue,
     GetVersion, Reload, HandleStep, Unlock, Lock, IsUnlocked, Relock, IdleTimeout, ListEntries,
     Crash, vars
<1> QED BY <1>1, <1>2, <1>3, <1>4, <1>5, <1>6 DEF Next, fileVars

\* A backup is overwritten by nothing: not by another backup, a recovery or an edit.
THEOREM BackupsAreKept == Spec => BackupsStay
<1>1. VaultInv /\ [Next]_vars =>
         [shape["backup"] = "whole" =>
             \/ shape'["backup"] = "whole" /\ disk'["backup"] = disk["backup"]
             \/ shape'["backup"] = "absent"]_vars
  BY BackupStays DEF VaultInv
<1> QED BY <1>1, VaultInvariant, PTL DEF Spec, BackupsStay

-----------------------------------------------------------------------------
(* The vault implements VaultStore.                                        *)

\* A call that returns has a result.
AnswerInv == \A c \in Editors : pc[c] = "reply" => answer[c] \in {"done", "failed"}

\* Every step keeps it so.
LEMMA AnswersAreKept == ASSUME TypeInv, AnswerInv, [Next]_vars PROVE AnswerInv'
<1> USE DEF TypeInv, CallTypes, AnswerInv
<1>1. ASSUME NEW c \in Editors, Call(c) PROVE AnswerInv'
  BY <1>1 DEF Call, Put, Remove, ImportNew, BeginEdit, Create, Backup, Recover, Ask, Transition
<1>2. ASSUME NEW c \in Editors, EditStep(c) PROVE AnswerInv'
  BY <1>2 DEF EditStep, LockForUpdate, LockFails, ReloadFails, Refuse, Edit, Replace,
     ReplaceFails, GoOn, Finish, Transition
<1>3. ASSUME NEW c \in Editors, CreateStep(c) PROVE AnswerInv'
  BY <1>3 DEF CreateStep, ReadAgain, ReadAgainFails, CreateNew, CreateNewFails, Fill, FillFails,
     OpenNew, OpenNewFails, Adopt, GoOn, Finish, Transition
<1>4. ASSUME NEW c \in Editors, Reply(c) PROVE AnswerInv'
  BY <1>4 DEF Reply, Return
<1>5. ASSUME NEW h \in Handles, Crash(h) PROVE AnswerInv'
  BY <1>5 DEF Crash
<1>6. CASE \/ \E r \in Readers : GetValue(r) \/ \E i \in Ids : GetVersion(r, i)
           \/ \E h \in Handles : HandleStep(h)
           \/ \E p \in Paths : Lose(p)
           \/ UNCHANGED vars
  BY <1>6 DEF GetValue, GetVersion, Reload, HandleStep, Unlock, Lock, IsUnlocked, Relock,
     IdleTimeout, ListEntries, Lose, vars, callVars
<1> QED BY <1>1, <1>2, <1>3, <1>4, <1>5, <1>6 DEF Next, Step

StoreInv == VaultInv /\ AnswerInv

\* What the mapping makes of the calls.
AskedNow == [c \in Editors |-> IF Editing(c) THEN request[c] ELSE NoRequest]
PhaseNow == [c \in Editors |-> IF ~Editing(c) THEN "none"
                               ELSE IF pc[c] = "reply" THEN answer[c]
                               ELSE "asked"]
FileNow  == <<shape["vault"], SecretsOf(disk["vault"])>>

\* The store stands still when the vault file and the calls do, as far as it sees them.
LEMMA NothingNow ==
    ASSUME UNCHANGED <<FileNow, AskedNow, PhaseNow>> PROVE UNCHANGED Store!vars
<1>1. AskedNow' = AskedNow /\ PhaseNow' = PhaseNow
  OBVIOUS
<1>2. /\ shape'["vault"] = shape["vault"]
      /\ SecretsOf(disk["vault"])' = SecretsOf(disk["vault"])
  BY DEF FileNow
<1> QED BY <1>1, <1>2 DEF Store!vars, AskedNow, PhaseNow

\* The step of one thread changes what the mapping makes of its own call only.
LEMMA OneCall ==
    ASSUME NEW c \in Editors,
           \A d \in Editors : d # c =>
               request'[d] = request[d] /\ pc'[d] = pc[d] /\ answer'[d] = answer[d]
    PROVE  /\ AskedNow' = [AskedNow EXCEPT ![c] = AskedNow'[c]]
           /\ PhaseNow' = [PhaseNow EXCEPT ![c] = PhaseNow'[c]]
           /\ AskedNow'[c] = AskedNow[c] => AskedNow' = AskedNow
           /\ PhaseNow'[c] = PhaseNow[c] => PhaseNow' = PhaseNow
BY DEF AskedNow, PhaseNow, Editing

\* The secrets are the same as long as the files are.
LEMMA SameFile == ASSUME UNCHANGED fileVars PROVE UNCHANGED FileNow
BY DEF FileNow, fileVars

\* The secrets of a saved edit are those of the vault it was made on, changed as asked.
LEMMA EditedSecrets ==
    ASSUME NEW d \in Envelopes, NEW r \in Requests, NEW f \in [r.ids -> 0..MaxVersion],
           NEW w, Fits(f, d, r, w), GoodFor(d, w), r.op = "remove" => r.value = None
    PROVE  SecretsOf(Edited(d, f, r.value)) =
               [i \in Ids |-> IF i \in r.ids THEN r.value ELSE SecretsOf(d)[i]]
<1> DEFINE e == Edited(d, f, r.value)
<1>1. /\ \A i \in Ids : e.entries[i] = IF i \in r.ids THEN f[i] ELSE d.entries[i]
      /\ \A i \in r.ids : f[i] # 0 => e.sealed[f[i]] = [id |-> i, value |-> r.value]
      /\ \A v \in Versions : (\A i \in r.ids : f[i] # v) =>
            e.sealed[v] = IF \E i \in r.ids : d.entries[i] = v THEN None ELSE d.sealed[v]
  BY EditedSealed
<1>2. r.ids \subseteq Ids /\ d.entries \in [Ids -> 0..MaxVersion]
  BY DEF Requests, Envelopes
<1> HIDE DEF e
<1>3. ASSUME NEW i \in r.ids
      PROVE  (IF e.entries[i] = 0 THEN None ELSE e.sealed[e.entries[i]].value) = r.value
  <2>1. e.entries[i] = f[i]
    BY <1>1, <1>2
  <2>2. CASE r.op = "remove"
    BY <2>1, <2>2 DEF Fits
  <2>3. CASE r.op # "remove"
    <3>1. f[i] # 0
      BY <2>3 DEF Fits, Versions
    <3>2. e.sealed[f[i]] = [id |-> i, value |-> r.value]
      BY <1>1, <3>1
    <3>3. e.sealed[f[i]].value = r.value
      BY <3>2
    <3> QED BY <2>1, <3>1, <3>3
  <2> QED BY <2>2, <2>3
<1>4. ASSUME NEW i \in Ids, i \notin r.ids
      PROVE  (IF e.entries[i] = 0 THEN None ELSE e.sealed[e.entries[i]].value) = SecretsOf(d)[i]
  <2> DEFINE v == d.entries[i]
  <2>1. e.entries[i] = v
    BY <1>1, <1>4
  <2>2. CASE v = 0
    BY <2>1, <2>2 DEF SecretsOf
  <2>3. CASE v # 0
    <3>1. v \in Versions /\ d.sealed[v] # None /\ d.sealed[v].id = i /\ d.sealed[v] \in Payloads
      BY <1>2, <2>3 DEF GoodFor, Sound, Versions, Envelopes
    <3>2. w[v] # None
      BY <3>1 DEF GoodFor, Payloads, Callers
    <3>3. \A j \in r.ids : f[j] # v
      BY <2>3, <3>2 DEF Fits
    <3>4. \A j \in r.ids : d.entries[j] # v
      BY <1>2, <1>4, <2>3, <3>1 DEF GoodFor, Sound
    <3>5. e.sealed[v] = d.sealed[v]
      BY <1>1, <3>1, <3>3, <3>4
    <3> QED BY <2>1, <2>3, <3>5 DEF SecretsOf
  <2> QED BY <2>2, <2>3
<1> QED BY <1>3, <1>4 DEF SecretsOf, e

\* A sound vault has a value for each entry.
LEMMA SecretsType ==
    ASSUME NEW e \in Envelopes, Sound(e)
    PROVE  SecretsOf(e) \in [Ids -> Values \cup {None}]
BY DEF SecretsOf, Sound, Envelopes, Payloads, Versions

\* The vault starts as the store does.
LEMMA StoreInit == Init => Store!Init
<1> SUFFICES ASSUME Init PROVE Store!Init
  OBVIOUS
<1>1. \A c \in Editors : ~Editing(c)
  BY DEF Init, Editing, NoRequest, Edits
<1>2. SecretsOf(disk["vault"]) = [i \in Ids |-> None]
  BY DEF Init, SecretsOf, EmptyEnvelope, Paths
<1> QED BY <1>1, <1>2 DEF Init, Store!Init, Store!Empty, Store!NoEdit, NoRequest, Paths

\* A call of put, remove or import_new asks for an edit.
LEMMA BeginAsks ==
    ASSUME TypeInv, NEW c \in Editors, NEW r \in Requests, BeginEdit(c, r),
           r.op \in Edits, r.ids # {}
    PROVE  Store!Ask(c)
<1>1. /\ pc[c] = "idle" /\ pc' = [pc EXCEPT ![c] = "flock"]
      /\ request' = [request EXCEPT ![c] = r] /\ answer' = answer
      /\ UNCHANGED fileVars
  BY DEF BeginEdit, Ask, Transition
<1>2. /\ pc \in [Editors -> Labels] /\ request \in [Editors -> Requests]
      /\ request[c] = NoRequest
  BY <1>1 DEF TypeInv, CallTypes
<1>3. request'[c] = r /\ pc'[c] = "flock"
  BY <1>1, <1>2
<1>4. AskedNow'[c] = r /\ PhaseNow'[c] = "asked" /\ PhaseNow[c] = "none"
  BY <1>2, <1>3 DEF AskedNow, PhaseNow, Editing, NoRequest, Edits
<1>5. /\ AskedNow' = [AskedNow EXCEPT ![c] = r]
      /\ PhaseNow' = [PhaseNow EXCEPT ![c] = "asked"]
  BY <1>1, <1>2, <1>4, OneCall
<1>6. r \in Store!Edits
  BY DEF Store!Edits, Requests, Edits
<1> QED BY <1>1, <1>4, <1>5, <1>6, SameFile DEF Store!Ask, FileNow, AskedNow, PhaseNow

\* A call asks the store for an edit, or for nothing that it knows of.
LEMMA CallsAsk ==
    ASSUME TypeInv, NEW c \in Editors, Call(c)
    PROVE  Store!Ask(c) \/ UNCHANGED Store!vars
<1>1. CASE \E i \in Ids : Remove(c, i)
  <2>1. PICK i \in Ids : Remove(c, i)
    BY <1>1
  <2>2. [op |-> "remove", ids |-> {i}, value |-> None] \in Requests
    BY DEF Requests, Edits
  <2> QED BY <2>1, <2>2, BeginAsks DEF Remove, Edits
<1>2. CASE \E i \in Ids, x \in Values : Put(c, i, x)
  <2>1. PICK i \in Ids, x \in Values : Put(c, i, x)
    BY <1>2
  <2>2. [op |-> "put", ids |-> {i}, value |-> x] \in Requests
    BY DEF Requests, Edits
  <2> QED BY <2>1, <2>2, BeginAsks DEF Put, Edits
<1>3. CASE \E ids \in (SUBSET Ids) \ {{}}, x \in Values : ImportNew(c, ids, x)
  <2>1. PICK ids \in (SUBSET Ids) \ {{}}, x \in Values : ImportNew(c, ids, x)
    BY <1>3
  <2>2. [op |-> "import", ids |-> ids, value |-> x] \in Requests
    BY DEF Requests, Edits
  <2>3. [op |-> "import", ids |-> ids, value |-> x].ids # {}
    OBVIOUS
  <2> HIDE DEF Requests
  <2> QED BY <2>1, <2>2, <2>3, BeginAsks DEF ImportNew, Edits
<1>4. CASE Create(c) \/ Backup(c) \/ Recover(c)
  <2>1. PICK o \in {"create", "backup", "recover"}, label \in CreateLabels :
           Ask(c, [NoRequest EXCEPT !.op = o], label)
    BY <1>4 DEF Create, Backup, Recover, CreateLabels
  <2>2. UNCHANGED fileVars
    BY <1>4 DEF Create, Backup, Recover
  <2>3. /\ request[c] = NoRequest /\ request'[c].op = o
        /\ \A d \in Editors : d # c =>
              request'[d] = request[d] /\ pc'[d] = pc[d] /\ answer'[d] = answer[d]
    BY <2>1 DEF Ask, Transition, TypeInv, CallTypes, NoRequest
  <2>4. ~Editing(c) /\ ~Editing(c)'
    BY <2>3 DEF Editing, NoRequest, Edits
  <2>5. UNCHANGED <<AskedNow, PhaseNow>>
    BY <2>3, <2>4 DEF AskedNow, PhaseNow, Editing
  <2> QED BY <2>2, <2>5, SameFile, NothingNow
<1> QED BY <1>1, <1>2, <1>3, <1>4 DEF Call

\* An edit is performed when the file is replaced.
LEMMA ReplacePerforms ==
    ASSUME StoreInv, NEW c \in Editors, Replace(c)
    PROVE  Store!Perform(c)
<1> DEFINE r == request[c]
           d == disk["vault"]
<1> USE DEF StoreInv, VaultInv, TypeInv
<1>1. /\ pc[c] = "persist" /\ pc' = [pc EXCEPT ![c] = "reply"] /\ request' = request
      /\ answer' = [answer EXCEPT ![c] = "done"]
      /\ disk' = [disk EXCEPT !["vault"] = memory[HandleOf[c]]]
      /\ shape' = [shape EXCEPT !["vault"] = "whole"]
  BY DEF Replace, Finish, Transition
<1>2. /\ pc \in [Editors -> Labels] /\ r \in Requests /\ RequestOK(c)
      /\ answer \in [Editors -> {"none", "done", "failed"}]
      /\ disk \in [Paths -> Envelopes] /\ d \in Envelopes /\ "vault" \in Paths
      /\ shape \in [Paths -> {"absent", "partial", "whole"}]
  BY DEF CallTypes, DataTypes, Paths
<1>3. PICK f \in [r.ids -> 0..MaxVersion] :
         /\ Fits(f, d, r, valueOf)
         /\ memory[HandleOf[c]] = Edited(d, f, r.value)
  BY <1>1 DEF DataInv, PendingInv, Pending
<1>4. GoodFor(d, valueOf)
  BY <1>2 DEF DataInv, DiskInv, Good
<1>5. r.op \in Edits /\ (r.op = "remove" => r.value = None)
  BY <1>1, <1>2 DEF RequestOK
<1>6. SecretsOf(memory[HandleOf[c]]) =
         [i \in Ids |-> IF i \in r.ids THEN r.value ELSE SecretsOf(d)[i]]
  <2> HIDE DEF r, d
  <2>1. f \in [r.ids -> 0..MaxVersion]
    OBVIOUS
  <2> QED BY <1>2, <1>3, <1>4, <1>5, <2>1, EditedSecrets
<1>7. disk'["vault"] = memory[HandleOf[c]] /\ shape'["vault"] = "whole" /\ shape["vault"] = "whole"
  BY <1>1, <1>2 DEF GateInv, EditorInv
<1>8. /\ AskedNow[c] = r /\ AskedNow' = AskedNow
      /\ PhaseNow[c] = "asked" /\ PhaseNow'[c] = "done"
  BY <1>1, <1>2, <1>5 DEF AskedNow, PhaseNow, Editing
<1>9. PhaseNow' = [PhaseNow EXCEPT ![c] = "done"]
  BY <1>1, <1>2, <1>8, OneCall
<1>10. /\ r.op = "import" => \A i \in r.ids : SecretsOf(d)[i] = None
       /\ r.op = "remove" => \A i \in r.ids : SecretsOf(d)[i] # None
  <2>1. r.ids \subseteq Ids
    BY <1>2 DEF Requests
  <2>2. \A i \in Ids : d.entries[i] # 0 => d.sealed[d.entries[i]].value \in Values
    BY <1>2, <1>4 DEF GoodFor, Sound, Envelopes, Payloads, Versions
  <2> QED BY <1>3, <2>1, <2>2 DEF Fits, Allowed, SecretsOf, Callers
<1> HIDE DEF d, r
<1>11. AskedNow[c].op = r.op /\ AskedNow[c].ids = r.ids /\ AskedNow[c].value = r.value
  BY <1>8
<1>12. SecretsOf(disk["vault"])' = SecretsOf(memory[HandleOf[c]])
  BY <1>1, <1>7 DEF SecretsOf
<1> QED BY <1>6, <1>7, <1>8, <1>9, <1>10, <1>11, <1>12
        DEF Store!Perform, Store!Possible, AskedNow, PhaseNow, d

\* Before that an edit goes on or is refused, and nothing is changed.
LEMMA EditsRefuse ==
    ASSUME StoreInv, NEW c \in Editors, EditStep(c), ~Replace(c)
    PROVE  Store!Refuse(c) \/ UNCHANGED Store!vars
<1> USE DEF StoreInv, VaultInv, TypeInv, CallTypes
<1>1. /\ UNCHANGED fileVars /\ request' = request
      /\ pc[c] \in EditLabels
      /\ \/ pc'[c] \in EditLabels
         \/ pc'[c] = "reply" /\ answer'[c] = "failed"
      /\ \A e \in Editors : e # c => pc'[e] = pc[e] /\ answer'[e] = answer[e]
  BY DEF EditStep, LockForUpdate, LockFails, ReloadFails, Refuse, Edit, ReplaceFails, GoOn,
     Finish, Transition, EditLabels
<1>2. Editing(c) /\ Editing(c)' /\ AskedNow' = AskedNow /\ PhaseNow[c] = "asked"
  BY <1>1 DEF RequestOK, EditLabels, Editing, AskedNow, PhaseNow
<1>3. PhaseNow' = [PhaseNow EXCEPT ![c] = PhaseNow'[c]]
  BY <1>1, OneCall
<1>4. CASE pc'[c] \in EditLabels
  <2>1. PhaseNow'[c] = "asked"
    BY <1>2, <1>4 DEF PhaseNow, EditLabels
  <2>2. PhaseNow' = PhaseNow
    BY <1>1, <1>2, <2>1, OneCall
  <2> QED BY <1>1, <1>2, <2>2, SameFile, NothingNow
<1>5. CASE pc'[c] = "reply" /\ answer'[c] = "failed"
  <2>1. PhaseNow'[c] = "failed"
    BY <1>2, <1>5 DEF PhaseNow
  <2> QED BY <1>1, <1>2, <1>3, <2>1, SameFile DEF Store!Refuse, FileNow, AskedNow, PhaseNow
<1> QED BY <1>1, <1>4, <1>5

\* A call that returns gives its answer.
LEMMA ReplyAnswers ==
    ASSUME StoreInv, NEW c \in Editors, Reply(c)
    PROVE  Store!Answer(c) \/ UNCHANGED Store!vars
<1> USE DEF StoreInv, VaultInv, TypeInv, CallTypes
<1>1. /\ UNCHANGED fileVars /\ pc[c] = "reply" /\ answer[c] \in {"done", "failed"}
      /\ request'[c] = NoRequest
      /\ \A e \in Editors : e # c =>
            pc'[e] = pc[e] /\ answer'[e] = answer[e] /\ request'[e] = request[e]
  BY DEF Reply, Return, AnswerInv
<1>2. ~Editing(c)' /\ AskedNow'[c] = NoRequest /\ PhaseNow'[c] = "none"
  BY <1>1 DEF Editing, AskedNow, PhaseNow, NoRequest, Edits
<1>3. /\ AskedNow' = [AskedNow EXCEPT ![c] = NoRequest]
      /\ PhaseNow' = [PhaseNow EXCEPT ![c] = "none"]
  BY <1>1, <1>2, OneCall
<1>4. CASE Editing(c)
  <2>1. PhaseNow[c] \in {"done", "failed"}
    BY <1>1, <1>4 DEF PhaseNow
  <2> QED BY <1>1, <1>3, <2>1, SameFile
          DEF Store!Answer, Store!NoEdit, NoRequest, FileNow, AskedNow, PhaseNow
<1>5. CASE ~Editing(c)
  <2>1. AskedNow[c] = NoRequest /\ PhaseNow[c] = "none"
    BY <1>5 DEF AskedNow, PhaseNow
  <2>2. AskedNow' = AskedNow /\ PhaseNow' = PhaseNow
    BY <1>1, <1>2, <2>1, OneCall
  <2> QED BY <1>1, <2>2, SameFile, NothingNow
<1> QED BY <1>4, <1>5

\* Creating, backing up and recovering establish the vault in two steps.
LEMMA CreatesEstablish ==
    ASSUME StoreInv, NEW c \in Editors, CreateStep(c)
    PROVE  Store!Establish \/ UNCHANGED Store!vars
<1> USE DEF StoreInv, VaultInv, TypeInv, CallTypes, DataTypes
<1>1. /\ request' = request /\ pc[c] \in CreateLabels
      /\ \A e \in Editors : e # c => pc'[e] = pc[e] /\ answer'[e] = answer[e]
  BY DEF CreateStep, ReadAgain, ReadAgainFails, CreateNew, CreateNewFails, Fill, FillFails,
     OpenNew, OpenNewFails, Adopt, GoOn, Finish, Transition, CreateLabels
<1>2. ~Editing(c)
  BY <1>1 DEF RequestOK, CreateLabels, Editing, Edits
<1>3. AskedNow' = AskedNow /\ PhaseNow' = PhaseNow
  BY <1>1, <1>2 DEF AskedNow, PhaseNow, Editing
<1>4. "vault" \in Paths /\ Destination(c) \in Paths /\ carried[c] \in Envelopes
      /\ Sound(carried[c])
  BY DEF Paths, Destination, DataInv, CarryInv, Good, GoodFor
<1>5. CASE CreateNew(c)
  <2>1. disk' = disk /\ shape[Destination(c)] = "absent"
        /\ shape' = [shape EXCEPT ![Destination(c)] = "partial"]
    BY <1>5 DEF CreateNew, Vacant
  <2>2. SecretsOf(disk["vault"])' = SecretsOf(disk["vault"])
    BY <2>1 DEF SecretsOf
  <2>3. CASE Destination(c) = "vault"
    <3>1. shape["vault"] = "absent" /\ shape'["vault"] = "partial"
      BY <1>4, <2>1, <2>3
    <3> QED BY <1>3, <2>2, <3>1 DEF Store!Establish, AskedNow, PhaseNow
  <2>4. CASE Destination(c) # "vault"
    <3>1. shape'["vault"] = shape["vault"]
      BY <1>4, <2>1, <2>4
    <3> QED BY <1>3, <2>2, <3>1, NothingNow DEF FileNow
  <2> QED BY <2>3, <2>4
<1>6. CASE Fill(c) \/ FillFails(c)
  <2>1. pc[c] = "fill" /\ (Written(c) \/ UNCHANGED fileVars)
    BY <1>6 DEF Fill, FillFails, GoOn, Finish, Transition
  <2>2. shape[Destination(c)] = "partial"
    BY <2>1 DEF GateInv, FillInv
  <2>3. CASE Written(c)
    <3>1. CASE Destination(c) = "vault"
      <4>1. shape["vault"] = "partial" /\ shape'["vault"] = "whole"
            /\ disk'["vault"] = carried[c]
        BY <1>4, <2>2, <2>3, <3>1 DEF Written
      <4>2. SecretsOf(disk["vault"])' = SecretsOf(carried[c])
        BY <4>1 DEF SecretsOf
      <4>3. SecretsOf(carried[c]) \in [Ids -> Values \cup {None}]
        BY <1>4, SecretsType
      <4> QED BY <1>3, <4>1, <4>2, <4>3 DEF Store!Establish, AskedNow, PhaseNow
    <3>2. CASE Destination(c) # "vault"
      <4>1. shape'["vault"] = shape["vault"] /\ disk'["vault"] = disk["vault"]
        BY <1>4, <2>3, <3>2 DEF Written
      <4>2. UNCHANGED FileNow
        BY <4>1 DEF FileNow, SecretsOf
      <4> QED BY <1>3, <4>2, NothingNow
    <3> QED BY <3>1, <3>2
  <2>4. CASE UNCHANGED fileVars
    BY <1>3, <2>4, SameFile, NothingNow
  <2> QED BY <2>1, <2>3, <2>4
<1>7. CASE ~(CreateNew(c) \/ Fill(c) \/ FillFails(c))
  <2>1. UNCHANGED fileVars
    BY <1>7 DEF CreateStep, ReadAgain, ReadAgainFails, CreateNewFails, OpenNew, OpenNewFails, Adopt
  <2> QED BY <1>3, <2>1, SameFile, NothingNow
<1> QED BY <1>5, <1>6, <1>7

\* A crash is a death of callers, a lost vault a loss; syncs and locking are not seen.
LEMMA OthersImplement ==
    ASSUME StoreInv,
           \/ \E r \in Readers : GetValue(r) \/ \E i \in Ids : GetVersion(r, i)
           \/ \E h \in Handles : HandleStep(h) \/ Crash(h)
           \/ \E p \in Paths : Lose(p)
           \/ UNCHANGED vars
    PROVE  [Store!Next]_(Store!vars)
<1> USE DEF StoreInv, VaultInv, TypeInv, CallTypes, DataTypes
<1>1. ASSUME UNCHANGED <<fileVars, callVars>> PROVE UNCHANGED Store!vars
  BY <1>1, SameFile, NothingNow DEF AskedNow, PhaseNow, Editing, callVars
<1>2. CASE \/ \E r \in Readers : GetValue(r) \/ \E i \in Ids : GetVersion(r, i)
           \/ \E h \in Handles : HandleStep(h)
           \/ UNCHANGED vars
  BY <1>1, <1>2 DEF GetValue, GetVersion, Reload, HandleStep, Unlock, Lock, IsUnlocked, Relock,
     IdleTimeout, ListEntries, vars
<1>3. ASSUME NEW h \in Handles, Crash(h) PROVE Store!Next
  <2> DEFINE dead == {c \in Editors : HandleOf[c] = h}
  <2>1. /\ UNCHANGED fileVars
        /\ \A c \in Editors : c \in dead => request'[c] = NoRequest
        /\ \A c \in Editors : c \notin dead =>
              pc'[c] = pc[c] /\ answer'[c] = answer[c] /\ request'[c] = request[c]
    BY <1>3 DEF Crash
  <2>2. /\ AskedNow' = [c \in Editors |-> IF c \in dead THEN NoRequest ELSE AskedNow[c]]
        /\ PhaseNow' = [c \in Editors |-> IF c \in dead THEN "none" ELSE PhaseNow[c]]
    BY <2>1 DEF AskedNow, PhaseNow, Editing, NoRequest, Edits
  <2>3. Store!Die(dead)
    BY <2>1, <2>2, SameFile
       DEF Store!Die, Store!NoEdit, NoRequest, FileNow, AskedNow, PhaseNow
  <2> QED BY <2>3 DEF Store!Next
<1>4. ASSUME NEW p \in Paths, Lose(p) PROVE Store!Lose \/ UNCHANGED Store!vars
  <2>1. /\ shape[p] # "absent" /\ UNCHANGED callVars
        /\ shape' = [shape EXCEPT ![p] = "absent"]
        /\ disk' = [disk EXCEPT ![p] = EmptyEnvelope(0)]
    BY <1>4 DEF Lose
  <2>2. UNCHANGED <<AskedNow, PhaseNow>>
    BY <2>1 DEF callVars, AskedNow, PhaseNow, Editing
  <2>3. CASE p = "vault"
    <3>1. SecretsOf(disk["vault"])' = [i \in Ids |-> None]
      BY <2>1, <2>3 DEF SecretsOf, EmptyEnvelope
    <3>2. shape["vault"] # "absent" /\ shape'["vault"] = "absent"
      BY <2>1, <2>3
    <3> QED BY <2>2, <3>1, <3>2 DEF Store!Lose, Store!Empty, AskedNow, PhaseNow
  <2>4. CASE p # "vault"
    <3>1. shape'["vault"] = shape["vault"] /\ disk'["vault"] = disk["vault"]
      BY <2>1, <2>4 DEF Paths
    <3>2. UNCHANGED FileNow
      BY <3>1 DEF FileNow, SecretsOf
    <3> QED BY <2>2, <3>2, NothingNow
  <2> QED BY <2>3, <2>4
<1> QED BY <1>2, <1>3, <1>4 DEF Store!Next

\* The local vault, with its threads, processes, failures and crashes, implements
\* the map of secrets: edits are atomic and none is lost, repeated or half undone.
THEOREM VaultImplementsStore == Spec => ImplementsStore
<1>1. StoreInv /\ [Next]_vars => [Store!Next]_(Store!vars)
  <2> SUFFICES ASSUME StoreInv, [Next]_vars PROVE [Store!Next]_(Store!vars)
    OBVIOUS
  <2> USE DEF StoreInv, VaultInv
  <2>1. ASSUME NEW c \in Editors, Call(c) PROVE [Store!Next]_(Store!vars)
    BY <2>1, CallsAsk DEF Store!Next
  <2>2. ASSUME NEW c \in Editors, Step(c) PROVE [Store!Next]_(Store!vars)
    <3>1. \/ Store!Perform(c) \/ Store!Refuse(c) \/ Store!Answer(c) \/ Store!Establish
          \/ UNCHANGED Store!vars
      BY <2>2, ReplacePerforms, EditsRefuse, ReplyAnswers, CreatesEstablish DEF Step
    <3> QED BY <3>1 DEF Store!Next
  <2> QED BY <2>1, <2>2, OthersImplement DEF Next
<1>2. Spec => []AnswerInv
  <2>1. Init => AnswerInv
    BY DEF Init, AnswerInv
  <2>2. TypeInv /\ AnswerInv /\ [Next]_vars => AnswerInv'
    BY AnswersAreKept
  <2> QED BY <2>1, <2>2, VaultTypes, PTL DEF Spec
<1>3. Spec => []StoreInv
  BY <1>2, VaultInvariant, PTL DEF StoreInv
<1> QED BY <1>1, <1>3, StoreInit, PTL DEF Spec, ImplementsStore, Store!Spec
=============================================================================
