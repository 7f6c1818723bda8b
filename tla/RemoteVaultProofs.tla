-------------------------- MODULE RemoteVaultProofs --------------------------
(***************************************************************************)
(* Proofs about RemoteVault, and that it implements SharedVault.           *)
(***************************************************************************)
EXTENDS RemoteVaultRefinement, SequenceTheorems, TLAPS

USE NoneAssumption, PinnedAssumption, BoundAssumption

-----------------------------------------------------------------------------
(* The inductive invariant *)

\* The tags name revisions, the last tag the last one.
TagsOK ==
    /\ Len(revs) \in 1..MaxRev /\ Len(tags) \in Nat \ {0}
    /\ tags[Len(tags)] = Len(revs)
    /\ \A t \in 1..Len(tags) : tags[t] \in 1..Len(revs)

\* No entry has a version that was drawn for a later revision.
VersionsOK ==
    \A r \in 1..Len(revs), i \in Ids :
        Body(r)[i] = None \/ Body(r)[i] \in [by : Clients, at : 1..r]

FileOK == TagsOK /\ VersionsOK /\ EditsFollowEachOther /\ EditsWhatWasShown

\* An edit changes something in the entries its client shows.
NextOK(c) ==
    /\ next[c] # Body(view[c])
    /\ \A i \in Ids :
          \/ next[c][i] \in {Body(view[c])[i], None}
          \/ next[c][i] = [by |-> c, at |-> view[c] + 1]

CacheOK(c) ==
    /\ cache[c].tag # 0 =>
          cache[c].tag <= Len(tags) /\ cache[c].rev = tags[cache[c].tag]
    /\ view[c] <= Len(revs)

Reading == {"metadata", "download", "recheck"}

OpOK(c) ==
    /\ op[c].kind \in Edits => op[c].ids # {}
    /\ pc[c] # "answer" => stored[c] = 0
    /\ pc[c] \in Reading =>
          /\ op[c].kind # "none"
          /\ op[c].kind # "unlock" => view[c] # 0
          /\ op[c].kind \in Edits => op[c].seen = view[c]
    /\ pc[c] = "download" =>
          got[c].tag \in 1..Len(tags) /\ got[c].rev = tags[got[c].tag]
    /\ pc[c] = "recheck" =>
          /\ got[c].tag \in 1..Len(tags) /\ got[c].rev \in 1..Len(revs)
          /\ got[c].tag = Len(tags) => got[c].rev = Len(revs)

\* Between the check of the manifest and the answer of the service.
PutOK(c) ==
    /\ pc[c] = "put" =>
          /\ op[c].kind \in Edits
          /\ cache[c].tag # 0 /\ cache[c].rev = view[c] /\ view[c] # 0
          /\ op[c].seen \in 1..view[c] /\ Body(op[c].seen) = Body(view[c])
          /\ NextOK(c)
    /\ pc[c] = "answer" =>
          stored[c] \in (view[c] + 1)..Len(revs) /\ Body(stored[c]) = next[c]

ClientOK(c) == CacheOK(c) /\ OpOK(c) /\ PutOK(c)

IInv == TypeOK /\ FileOK /\ \A c \in Clients : ClientOK(c)

-----------------------------------------------------------------------------
(* Steps of one client that leave the file alone *)

\* Only the variables of one client change.
OnlyClient(c) ==
    /\ UNCHANGED <<tags, revs>>
    /\ \A d \in Clients \ {c} :
          /\ cache'[d] = cache[d] /\ view'[d] = view[d] /\ pc'[d] = pc[d]
          /\ op'[d] = op[d] /\ got'[d] = got[d] /\ next'[d] = next[d]
          /\ stored'[d] = stored[d]

\* The file and the other clients keep what is said of them.
LEMMA OthersStay ==
    ASSUME IInv, NEW c \in Clients, OnlyClient(c), TypeOK', ClientOK(c)'
    PROVE  IInv'
<1>1. FileOK'
  BY DEF IInv, OnlyClient, FileOK, TagsOK, VersionsOK, EditsFollowEachOther,
         EditsWhatWasShown, Body
<1>2. ASSUME NEW d \in Clients, d # c PROVE ClientOK(d)'
  BY <1>2 DEF IInv, OnlyClient, ClientOK, CacheOK, OpOK, PutOK, NextOK, Body, Reading
<1> QED BY <1>1, <1>2 DEF IInv

\* The types of an operation that has ended.
LEMMA FinishTypes ==
    ASSUME TypeOK, NEW c \in Clients, NEW result \in Results, Finish(c, result)
    PROVE  /\ pc' \in [Clients -> Steps]
           /\ op' \in [Clients -> Ops]
           /\ got' \in [Clients -> Files]
           /\ next' \in [Clients -> Bodies]
           /\ stored' \in [Clients -> Nat]
           /\ told' \in Answers
           /\ \A d \in Clients \ {c} :
                 /\ pc'[d] = pc[d] /\ op'[d] = op[d] /\ got'[d] = got[d]
                 /\ next'[d] = next[d] /\ stored'[d] = stored[d]
           /\ pc'[c] = "idle" /\ op'[c] = NoOp /\ stored'[c] = 0
<1>1. NoOp \in Ops /\ NoCache \in Files /\ Empty \in Bodies /\ "idle" \in Steps
  BY DEF NoOp, Ops, Kinds, NoCache, Files, Empty, Bodies, Steps
<1>2. told' \in Answers
  BY DEF Finish, Answers
<1> QED BY <1>1, <1>2 DEF TypeOK, Finish

\* An operation can end in any state of its client.
LEMMA FinishOK ==
    ASSUME IInv, NEW c \in Clients, NEW result \in Results, Finish(c, result),
           UNCHANGED <<tags, revs>>,
           cache' \in [Clients -> Files], view' \in [Clients -> Nat],
           \A d \in Clients \ {c} : cache'[d] = cache[d] /\ view'[d] = view[d],
           CacheOK(c)'
    PROVE  IInv'
<1>1. TypeOK'
  BY FinishTypes DEF IInv, TypeOK
<1>2. OnlyClient(c)
  BY FinishTypes DEF IInv, OnlyClient
<1>3. ClientOK(c)'
  BY FinishTypes DEF IInv, ClientOK, OpOK, PutOK, NoOp, Reading, Edits
<1> QED BY <1>1, <1>2, <1>3, OthersStay

\* Bodies of revisions are bodies.
LEMMA BodyType == ASSUME TypeOK, NEW r \in 1..Len(revs) PROVE Body(r) \in Bodies
<1> DEFINE Revision == [body : Bodies, seen : Nat, on : Nat]
<1>1. revs \in Seq(Revision)
  BY DEF TypeOK
<1>2. revs[r] \in Revision
  <2> HIDE DEF Revision
  <2> QED BY <1>1
<1> QED BY <1>2 DEF Body

\* What an edit makes of the last body.
LEMMA EditedType ==
    ASSUME IInv, NEW c \in Clients, NEW o \in Ops, NEW r, r = Len(revs),
           o.kind \in Edits, o.ids # {}, CanEdit(o, Body(r))
    PROVE  /\ Edited(c, o, Body(r)) \in Bodies
           /\ Edited(c, o, Body(r)) # Body(r)
           /\ \A i \in Ids : \/ Edited(c, o, Body(r))[i] \in {Body(r)[i], None}
                             \/ Edited(c, o, Body(r))[i] = [by |-> c, at |-> r + 1]
<1> DEFINE new == [by |-> c, at |-> r + 1]
<1>1. r \in 1..Len(revs) /\ r \in 1..MaxRev /\ Body(r) \in Bodies
  BY BodyType DEF IInv, FileOK, TagsOK
<1>2. new \in Versions /\ new # None
  BY <1>1 DEF Versions
<1>3. \A i \in Ids : Body(r)[i] # new
  BY <1>1, <1>2 DEF IInv, FileOK, VersionsOK
<1>4. PICK i \in Ids : i \in o.ids
  BY DEF Ops
<1>5. Edited(c, o, Body(r))[i] # Body(r)[i]
  BY <1>1, <1>2, <1>3, <1>4 DEF Edited, CanEdit, Edits
<1>6. Edited(c, o, Body(r)) \in Bodies
  BY <1>1, <1>2 DEF Edited, Bodies
<1>7. \A j \in Ids : Edited(c, o, Body(r))[j] \in {Body(r)[j], None, new}
  BY DEF Edited
<1> QED BY <1>5, <1>6, <1>7

\* What an operation does with the last revision once it has it in the cache.
LEMMA ReceiveOK ==
    ASSUME IInv, NEW c \in Clients, NEW r, r = Len(revs), Receive(c, r),
           pc[c] \in Reading, UNCHANGED <<tags, revs>>,
           cache' \in [Clients -> Files],
           \A d \in Clients \ {c} : cache'[d] = cache[d],
           cache'[c] = [tag |-> Len(tags), rev |-> r]
    PROVE  IInv'
<1>1. TypeOK /\ r \in 1..Len(revs) /\ r \in Nat \ {0} /\ r = tags[Len(tags)]
      /\ Len(tags) \in Nat \ {0} /\ view[c] <= Len(revs) /\ view[c] \in Nat
  BY DEF IInv, FileOK, TagsOK, ClientOK, CacheOK, TypeOK
<1>2. CASE ReceiveRead(c, r)
  <2>1. view' \in [Clients -> Nat] /\ view'[c] \in {r, view[c]}
        /\ \A d \in Clients \ {c} : view'[d] = view[d]
    BY <1>1, <1>2 DEF ReceiveRead, TypeOK
  <2>2. CacheOK(c)'
    BY <1>1, <2>1 DEF CacheOK
  <2> QED BY <1>2, <2>1, <2>2, FinishOK DEF ReceiveRead, Results
<1>3. CASE ReceiveChanged(c, r)
  <2>1. CacheOK(c)' /\ view' = view
    BY <1>1, <1>3 DEF CacheOK, ReceiveChanged
  <2> QED BY <1>1, <1>3, <2>1, FinishOK DEF ReceiveChanged, Results, TypeOK
<1>4. CASE ReceiveEdit(c, r)
  <2>1. view' \in [Clients -> Nat] /\ view'[c] = r
        /\ \A d \in Clients \ {c} : view'[d] = view[d]
    BY <1>1, <1>4 DEF ReceiveEdit, TypeOK
  <2>2. CacheOK(c)'
    BY <1>1, <2>1 DEF CacheOK
  <2>3. CASE ~CanEdit(op[c], Body(r))
    BY <1>4, <2>1, <2>2, <2>3, FinishOK DEF ReceiveEdit, Results
  <2>4. CASE CanEdit(op[c], Body(r))
    <3> DEFINE new == Edited(c, op[c], Body(r))
    <3>1. /\ next' = [next EXCEPT ![c] = new]
          /\ pc' = [pc EXCEPT ![c] = "put"]
          /\ got' = [got EXCEPT ![c] = NoCache]
          /\ told' = <<>> /\ op' = op /\ stored' = stored
          /\ op[c].kind \in Edits /\ Body(r) = Body(view[c])
      BY <1>4, <2>4 DEF ReceiveEdit
    <3>2. op[c] \in Ops /\ op[c].ids # {} /\ op[c].seen = view[c] /\ view[c] # 0
          /\ stored[c] = 0
      BY <1>1, <3>1 DEF IInv, ClientOK, OpOK, TypeOK, Edits, Reading
    <3>3. /\ new \in Bodies /\ new # Body(r)
          /\ \A i \in Ids : new[i] \in {Body(r)[i], None}
                            \/ new[i] = [by |-> c, at |-> r + 1]
      BY <2>4, <3>1, <3>2, EditedType
    <3> HIDE DEF new
    <3>4. TypeOK'
      BY <1>1, <2>1, <3>1, <3>3 DEF TypeOK, Steps, NoCache, Files, Answers
    <3>5. OnlyClient(c)
      BY <1>1, <2>1, <3>1 DEF OnlyClient, TypeOK
    <3>6. pc'[c] = "put" /\ next'[c] = new
      BY <1>1, <3>1 DEF TypeOK
    <3>7. OpOK(c)'
      BY <3>1, <3>2, <3>6 DEF OpOK, Reading
    <3>8. NextOK(c)'
      BY <2>1, <3>3, <3>6 DEF NextOK, Body
    <3>9. PutOK(c)'
      BY <1>1, <2>1, <3>1, <3>2, <3>6, <3>8 DEF PutOK, Body
    <3> QED BY <2>2, <3>4, <3>5, <3>7, <3>9, OthersStay DEF ClientOK
  <2> QED BY <2>3, <2>4
<1> QED BY <1>2, <1>3, <1>4 DEF Receive

-----------------------------------------------------------------------------
(* Steps of the service *)

\* A new tag for the last revision changes nothing for the clients.
LEMMA TouchOK == ASSUME IInv, Touch PROVE IInv'
<1>1. /\ tags \in Seq(Nat) /\ Len(tags) \in Nat \ {0} /\ Len(revs) \in Nat \ {0}
      /\ tags[Len(tags)] = Len(revs)
      /\ tags' = Append(tags, Len(revs))
      /\ UNCHANGED <<revs, cache, view, pc, op, got, next, stored>>
  BY DEF IInv, TypeOK, FileOK, TagsOK, Touch, server
<1>2. /\ Len(tags') = Len(tags) + 1
      /\ \A t \in 1..Len(tags) : tags'[t] = tags[t]
      /\ tags'[Len(tags) + 1] = Len(revs)
      /\ tags' \in Seq(Nat)
  BY <1>1
<1>3. TypeOK'
  BY <1>1, <1>2 DEF IInv, TypeOK, Touch, Answers
<1>4. FileOK'
  <2>1. TagsOK'
    BY <1>1, <1>2 DEF IInv, FileOK, TagsOK
  <2> QED BY <1>1, <2>1 DEF IInv, FileOK, VersionsOK, EditsFollowEachOther,
                 EditsWhatWasShown, Body
<1>5. ASSUME NEW c \in Clients PROVE ClientOK(c)'
  <2>1. /\ cache[c].tag \in Nat /\ got[c].tag \in Nat
        /\ CacheOK(c) /\ OpOK(c) /\ PutOK(c)
    BY DEF IInv, ClientOK, TypeOK, Files
  <2>2. CacheOK(c)'
    BY <1>1, <1>2, <2>1 DEF CacheOK
  <2>3. OpOK(c)'
    BY <1>1, <1>2, <2>1 DEF OpOK
  <2>4. PutOK(c)'
    BY <1>1, <2>1 DEF PutOK, NextOK, Body
  <2> QED BY <2>2, <2>3, <2>4 DEF ClientOK
<1> QED BY <1>3, <1>4, <1>5 DEF IInv

\* What a PUT the service accepts has checked: the client shows the last
\* revision, and the edit was made on it.
LEMMA CommitFacts ==
    ASSUME IInv, NEW c \in Clients, PutCommits(c)
    PROVE  /\ view[c] = Len(revs) /\ view[c] \in Nat \ {0}
           /\ op[c].seen \in 1..view[c] /\ Body(op[c].seen) = Body(view[c])
           /\ op[c].seen \in Nat /\ NextOK(c) /\ next[c] \in Bodies
           /\ Len(revs) < MaxRev
BY DEF IInv, PutCommits, MatchesServer, server, ClientOK, CacheOK, PutOK, TypeOK, FileOK,
       TagsOK, Files, Ops

\* So the new revision follows the last one, and the other clients notice no
\* more than a new tag.
LEMMA PutCommitsOK == ASSUME IInv, NEW c \in Clients, PutCommits(c) PROVE IInv'
<1> DEFINE n == Len(revs)
           Revision == [body : Bodies, seen : Nat, on : Nat]
           new == [body |-> next[c], seen |-> op[c].seen, on |-> view[c]]
<1>1. /\ tags \in Seq(Nat) /\ revs \in Seq(Revision)
      /\ n \in Nat \ {0} /\ n < MaxRev /\ Len(tags) \in Nat \ {0}
      /\ new \in Revision
  BY CommitFacts DEF IInv, TypeOK, FileOK, TagsOK
<1>2. /\ tags' = Append(tags, n + 1) /\ revs' = Append(revs, new)
      /\ stored' = [stored EXCEPT ![c] = n + 1]
      /\ pc' = [pc EXCEPT ![c] = "answer"]
      /\ told' = <<>>
      /\ UNCHANGED <<cache, view, op, got, next>>
      /\ pc[c] = "put"
  BY DEF PutCommits
<1>3. /\ Len(tags') = Len(tags) + 1
      /\ \A t \in 1..Len(tags) : tags'[t] = tags[t]
      /\ tags'[Len(tags) + 1] = n + 1
      /\ tags' \in Seq(Nat)
  BY <1>1, <1>2
<1>3a. revs' \in Seq(Revision)
  <2> HIDE DEF Revision, new
  <2> QED BY <1>1, <1>2
<1>4. /\ Len(revs') = n + 1 /\ n = Len(revs) /\ n \in Nat \ {0}
      /\ \A r \in 1..n : revs'[r] = revs[r]
      /\ revs'[n + 1] = new
  <2> HIDE DEF Revision, new
  <2> QED BY <1>1, <1>2
<1>4a. /\ revs'[n + 1].body = next[c]
       /\ revs'[n + 1].seen = op[c].seen
       /\ revs'[n + 1].on = view[c]
  BY <1>4
<1> HIDE DEF n, new, Revision
<1>5. (\A r \in 1..n : revs'[r].body = Body(r)) /\ revs'[n + 1].body = next[c]
  BY <1>4, <1>4a DEF Body
<1>6. TypeOK'
  <2>1. stored' \in [Clients -> Nat] /\ pc' \in [Clients -> Steps]
    BY <1>1, <1>2 DEF IInv, TypeOK, Steps
  <2> QED BY <1>2, <1>3, <1>3a, <2>1 DEF IInv, TypeOK, Answers, Revision
<1>7. FileOK'
  <2>1. TagsOK'
    <3>1. \A t \in 1..Len(tags) : tags[t] \in 1..n
      BY <1>4 DEF IInv, FileOK, TagsOK
    <3>2. ASSUME NEW t \in 1..(Len(tags) + 1) PROVE tags'[t] \in 1..(n + 1)
      <4>1. CASE t = Len(tags) + 1
        BY <1>3, <1>4, <4>1
      <4>2. CASE t \in 1..Len(tags)
        BY <1>3, <1>4, <3>1, <4>2
      <4> QED BY <1>1, <4>1, <4>2
    <3>3. n + 1 \in 1..MaxRev /\ Len(tags) + 1 \in Nat \ {0}
      BY <1>1, <1>4
    <3> QED BY <1>3, <1>4, <3>2, <3>3 DEF TagsOK
  <2>2. VersionsOK'
    <3> SUFFICES ASSUME NEW r \in 1..(n + 1), NEW i \in Ids
                 PROVE  revs'[r].body[i] = None
                        \/ revs'[r].body[i] \in [by : Clients, at : 1..r]
      BY <1>4 DEF VersionsOK, Body
    <3>1. CASE r \in 1..n
      BY <1>4, <1>5, <3>1 DEF IInv, FileOK, VersionsOK
    <3>2. CASE r = n + 1
      <4>1. next[c][i] \in {Body(n)[i], None} \/ next[c][i] = [by |-> c, at |-> n + 1]
        BY <1>4, CommitFacts DEF NextOK
      <4>2. Body(n)[i] = None \/ Body(n)[i] \in [by : Clients, at : 1..n]
        BY <1>4 DEF IInv, FileOK, VersionsOK
      <4>3. /\ [by : Clients, at : 1..n] \subseteq [by : Clients, at : 1..(n + 1)]
            /\ [by |-> c, at |-> n + 1] \in [by : Clients, at : 1..(n + 1)]
        BY <1>1
      <4> QED BY <1>5, <3>2, <4>1, <4>2, <4>3
    <3> QED BY <1>4, <3>1, <3>2
  <2>3. EditsFollowEachOther'
    <3>1. \A r \in 2..n : revs'[r].on = r - 1
      BY <1>4 DEF IInv, FileOK, EditsFollowEachOther
    <3>2. revs'[n + 1].on = n
      BY <1>4, <1>4a, CommitFacts
    <3> QED BY <1>4, <3>1, <3>2 DEF EditsFollowEachOther
  <2>4. EditsWhatWasShown'
    <3> SUFFICES ASSUME NEW r \in 2..(n + 1)
                 PROVE  /\ revs'[r].seen \in 1..(r - 1)
                        /\ revs'[revs'[r].seen].body = revs'[r - 1].body
      BY <1>4 DEF EditsWhatWasShown, Body
    <3>1. CASE r \in 2..n
      <4>1. revs'[r] = revs[r] /\ revs[r].seen \in 1..(r - 1)
            /\ Body(revs[r].seen) = Body(r - 1)
        BY <1>4, <3>1 DEF IInv, FileOK, EditsWhatWasShown
      <4>2. revs[r].seen \in 1..n /\ r - 1 \in 1..n
        BY <1>4, <3>1, <4>1
      <4> QED BY <1>4, <4>1, <4>2 DEF Body
    <3>2. CASE r = n + 1
      BY <1>4, <1>4a, <3>2, CommitFacts DEF Body
    <3> QED BY <1>4, <3>1, <3>2
  <2> QED BY <2>1, <2>2, <2>3, <2>4 DEF FileOK
<1>8. ASSUME NEW d \in Clients PROVE ClientOK(d)'
  <2>1. /\ cache[d].tag \in Nat /\ got[d].tag \in Nat /\ view[d] \in Nat
        /\ CacheOK(d) /\ OpOK(d) /\ PutOK(d)
    BY DEF IInv, ClientOK, TypeOK, Files
  <2>2. CacheOK(d)'
    BY <1>1, <1>2, <1>3, <1>4, <2>1 DEF CacheOK
  <2>3. CASE d = c
    <3>1. pc'[d] = "answer" /\ stored'[d] = n + 1
      BY <1>2, <2>3 DEF IInv, TypeOK
    <3>2. OpOK(d)'
      BY <1>2, <2>1, <3>1 DEF OpOK, Reading
    <3>3. PutOK(d)'
      BY <1>2, <1>4, <1>4a, <2>3, <3>1, CommitFacts DEF PutOK, Body
    <3> QED BY <2>2, <3>2, <3>3 DEF ClientOK
  <2>4. CASE d # c
    <3>1. pc'[d] = pc[d] /\ stored'[d] = stored[d]
      BY <1>2, <2>4 DEF IInv, TypeOK
    <3>2. OpOK(d)'
      <4>1. CASE pc[d] = "download"
        BY <1>1, <1>2, <1>3, <2>1, <3>1, <4>1 DEF OpOK, Reading
      <4>2. CASE pc[d] = "recheck"
        <5>1. /\ got[d].tag \in 1..Len(tags) /\ got[d].tag # Len(tags) + 1
              /\ got[d].rev \in 1..(n + 1)
          BY <1>1, <1>4, <2>1, <4>2 DEF OpOK
        <5> QED BY <1>1, <1>2, <1>3, <1>4, <2>1, <3>1, <4>2, <5>1 DEF OpOK, Reading
      <4>3. CASE pc[d] \notin {"download", "recheck"}
        BY <1>2, <2>1, <3>1, <4>3 DEF OpOK, Reading
      <4> QED BY <4>1, <4>2, <4>3
    <3>3. PutOK(d)'
      <4>1. CASE pc[d] = "put"
        <5>1. op[d].seen \in 1..n /\ view[d] \in 1..n
          BY <1>4, <2>1, <4>1 DEF PutOK, CacheOK
        <5> QED BY <1>2, <1>4, <2>1, <3>1, <4>1, <5>1 DEF PutOK, NextOK, Body
      <4>2. CASE pc[d] = "answer"
        <5>1. stored[d] \in 1..n
          BY <1>4, <2>1, <4>2 DEF PutOK
        <5> QED BY <1>1, <1>2, <1>4, <2>1, <3>1, <4>2, <5>1 DEF PutOK, Body
      <4> QED BY <3>1, <4>1, <4>2 DEF PutOK
    <3> QED BY <2>2, <3>2, <3>3 DEF ClientOK
  <2> QED BY <2>3, <2>4
<1> QED BY <1>6, <1>7, <1>8 DEF IInv

-----------------------------------------------------------------------------
(* Every step keeps the invariant *)

\* An operation starts from what its client shows.
LEMMA BeginOK ==
    ASSUME IInv, NEW c \in Clients, NEW kind \in Kinds \ {"none"}, NEW ids \in SUBSET Ids,
           kind \in Edits => ids # {}, Begin(c, kind, ids)
    PROVE  IInv'
<1> DEFINE o == [kind |-> kind, ids |-> ids, seen |-> view[c]]
<1>1. /\ op' = [op EXCEPT ![c] = o] /\ pc' = [pc EXCEPT ![c] = "metadata"] /\ told' = <<>>
      /\ UNCHANGED <<tags, revs, cache, view, got, next, stored>>
      /\ kind # "unlock" => view[c] # 0
      /\ o \in Ops /\ pc[c] = "idle"
  BY DEF Begin, IInv, TypeOK, Ops
<1>2. TypeOK'
  BY <1>1 DEF IInv, TypeOK, Steps, Answers
<1>3. OnlyClient(c)
  BY <1>1 DEF IInv, TypeOK, OnlyClient
<1>4. pc'[c] = "metadata" /\ op'[c] = o
  BY <1>1 DEF IInv, TypeOK
<1>5. CacheOK(c)' /\ stored[c] = 0
  BY <1>1 DEF IInv, ClientOK, CacheOK, OpOK
<1>6. OpOK(c)' /\ PutOK(c)'
  BY <1>1, <1>4, <1>5 DEF OpOK, PutOK, Reading, Edits
<1> QED BY <1>2, <1>3, <1>5, <1>6, OthersStay DEF ClientOK

\* Reading the metadata: the cached revision, if its tag is current, is the
\* last one.
LEMMA ReadMetadataOK == ASSUME IInv, NEW c \in Clients, ReadMetadata(c) PROVE IInv'
<1>1. /\ UNCHANGED <<tags, revs, cache>> /\ pc[c] = "metadata" /\ TypeOK
      /\ Len(tags) \in Nat \ {0} /\ tags[Len(tags)] = Len(revs) /\ Len(revs) \in Nat
      /\ server = [tag |-> Len(tags), rev |-> Len(revs)]
  BY DEF ReadMetadata, IInv, FileOK, TagsOK, server
<1>2. CASE cache[c].tag = server.tag
  <2>1. Receive(c, cache[c].rev)
    BY <1>2 DEF ReadMetadata
  <2>2. cache[c] = [tag |-> Len(tags), rev |-> Len(revs)] /\ cache[c].rev = Len(revs)
    BY <1>1, <1>2 DEF IInv, ClientOK, CacheOK, TypeOK, Files
  <2> QED BY <1>1, <2>1, <2>2, ReceiveOK DEF TypeOK, Reading
<1>3. CASE cache[c].tag # server.tag
  <2>1. /\ got' = [got EXCEPT ![c] = server] /\ pc' = [pc EXCEPT ![c] = "download"]
        /\ told' = <<>> /\ UNCHANGED <<view, op, next, stored>>
    BY <1>3 DEF ReadMetadata
  <2>2. TypeOK'
    BY <1>1, <2>1 DEF TypeOK, Files, Steps, Answers
  <2>3. OnlyClient(c)
    BY <1>1, <2>1 DEF TypeOK, OnlyClient
  <2>4. got'[c] = server /\ pc'[c] = "download"
    BY <1>1, <2>1 DEF TypeOK
  <2>5. OpOK(c)'
    BY <1>1, <2>1, <2>4 DEF IInv, ClientOK, OpOK, Reading
  <2>6. CacheOK(c)' /\ PutOK(c)'
    BY <1>1, <2>1, <2>4 DEF IInv, ClientOK, CacheOK, PutOK
  <2> QED BY <2>2, <2>3, <2>5, <2>6, OthersStay DEF ClientOK
<1> QED BY <1>2, <1>3

\* A download is the last revision when the tag read before it is still current.
LEMMA DownloadOK == ASSUME IInv, NEW c \in Clients, Download(c) PROVE IInv'
<1>1. PICK r \in Downloads(c) : got' = [got EXCEPT ![c].rev = r]
  BY DEF Download
<1>2. /\ pc' = [pc EXCEPT ![c] = "recheck"] /\ told' = <<>> /\ pc[c] = "download"
      /\ UNCHANGED <<tags, revs, cache, view, op, next, stored>> /\ TypeOK
  BY DEF Download, IInv
<1>3. /\ Len(tags) \in Nat \ {0} /\ Len(revs) \in Nat \ {0} /\ server.rev = Len(revs)
      /\ got[c].tag \in 1..Len(tags) /\ got[c].rev = tags[got[c].tag]
      /\ got[c].rev \in 1..Len(revs) /\ tags[Len(tags)] = Len(revs)
      /\ got[c] \in Files
  BY <1>2 DEF IInv, FileOK, TagsOK, ClientOK, OpOK, server, TypeOK
<1>4. r \in 1..Len(revs) /\ (got[c].tag = Len(tags) => r = Len(revs))
  BY <1>3 DEF Downloads
<1>5. /\ got' \in [Clients -> Files] /\ got'[c].tag = got[c].tag /\ got'[c].rev = r
      /\ \A d \in Clients \ {c} : got'[d] = got[d]
  <2>1. [got[c] EXCEPT !.rev = r] = [tag |-> got[c].tag, rev |-> r]
    BY <1>3 DEF Files
  <2>2. [tag |-> got[c].tag, rev |-> r] \in Files
    BY <1>3, <1>4 DEF Files
  <2>3. got' = [got EXCEPT ![c] = [tag |-> got[c].tag, rev |-> r]]
    BY <1>1, <2>1 DEF TypeOK
  <2> QED BY <1>2, <2>2, <2>3 DEF TypeOK
<1>6. TypeOK'
  BY <1>2, <1>5 DEF TypeOK, Steps, Answers
<1>7. OnlyClient(c) /\ pc'[c] = "recheck"
  BY <1>2, <1>5 DEF TypeOK, OnlyClient
<1>8. OpOK(c)'
  BY <1>2, <1>3, <1>4, <1>5, <1>7 DEF IInv, ClientOK, OpOK, Reading
<1>9. CacheOK(c)' /\ PutOK(c)'
  BY <1>2, <1>7 DEF IInv, ClientOK, CacheOK, PutOK
<1> QED BY <1>6, <1>7, <1>8, <1>9, OthersStay DEF ClientOK

\* The second look at the tag.
LEMMA RecheckOK == ASSUME IInv, NEW c \in Clients, Recheck(c) PROVE IInv'
<1>1. /\ UNCHANGED <<tags, revs>> /\ pc[c] = "recheck" /\ TypeOK
      /\ Len(tags) \in Nat \ {0} /\ server.tag = Len(tags)
      /\ got[c] \in Files
      /\ got[c].tag = Len(tags) => got[c].rev = Len(revs)
  BY DEF Recheck, IInv, FileOK, TagsOK, ClientOK, OpOK, TypeOK, server
<1>2. CASE server.tag = got[c].tag
  <2>1. cache' = [cache EXCEPT ![c] = got[c]] /\ Receive(c, got[c].rev)
    BY <1>2 DEF Recheck
  <2>2. got[c] = [tag |-> Len(tags), rev |-> got[c].rev] /\ got[c].rev = Len(revs)
    BY <1>1, <1>2 DEF Files
  <2>3. cache' \in [Clients -> Files] /\ cache'[c] = got[c]
        /\ \A d \in Clients \ {c} : cache'[d] = cache[d]
    BY <1>1, <2>1 DEF TypeOK
  <2> QED BY <1>1, <2>1, <2>2, <2>3, ReceiveOK DEF Reading
<1>3. CASE server.tag # got[c].tag
  <2>1. Finish(c, "conflict") /\ UNCHANGED <<cache, view>>
    BY <1>3 DEF Recheck
  <2>2. CacheOK(c)'
    BY <1>1, <2>1 DEF IInv, ClientOK, CacheOK
  <2> QED BY <1>1, <2>1, <2>2, FinishOK DEF Results, TypeOK
<1> QED BY <1>2, <1>3

\* The operations that end, and a vault that is closed.
LEMMA EndOK ==
    ASSUME IInv, NEW c \in Clients, PutRefused(c) \/ PutAnswered(c) \/ RequestFails(c)
    PROVE  IInv'
<1>1. /\ TypeOK /\ CacheOK(c) /\ PutOK(c) /\ UNCHANGED <<tags, revs>>
      /\ view[c] \in Nat /\ Len(revs) \in Nat /\ stored[c] \in Nat
  <2>1. UNCHANGED <<tags, revs>>
    BY DEF PutRefused, PutAnswered, RequestFails
  <2> QED BY <2>1 DEF IInv, ClientOK, FileOK, TagsOK, TypeOK
<1>2. CASE PutRefused(c)
  BY <1>1, <1>2, FinishOK DEF PutRefused, CacheOK, Results, TypeOK
<1>3. CASE PutAnswered(c)
  <2>1. /\ cache' = [cache EXCEPT ![c] = NoCache] /\ view' = [view EXCEPT ![c] = stored[c]]
        /\ Finish(c, "saved") /\ stored[c] <= Len(revs)
    BY <1>1, <1>3 DEF PutAnswered, PutOK
  <2>2. NoCache \in Files /\ NoCache.tag = 0
    BY DEF NoCache, Files
  <2>3. /\ cache' \in [Clients -> Files] /\ view' \in [Clients -> Nat]
        /\ cache'[c] = NoCache /\ view'[c] = stored[c]
        /\ \A d \in Clients \ {c} : cache'[d] = cache[d] /\ view'[d] = view[d]
    BY <1>1, <2>1, <2>2 DEF TypeOK
  <2>4. CacheOK(c)'
    BY <1>1, <2>1, <2>2, <2>3 DEF CacheOK
  <2> QED BY <1>1, <2>1, <2>3, <2>4, FinishOK DEF Results
<1>4. CASE RequestFails(c)
  <2>1. /\ view' \in {view, [view EXCEPT ![c] = 0]} /\ cache' = cache /\ Finish(c, "failed")
    BY <1>4 DEF RequestFails
  <2>2. view' \in [Clients -> Nat] /\ view'[c] \in {view[c], 0}
        /\ \A d \in Clients \ {c} : view'[d] = view[d]
    <3>1. CASE view' = view
      BY <1>1, <3>1 DEF TypeOK
    <3>2. CASE view' = [view EXCEPT ![c] = 0]
      BY <1>1, <3>2 DEF TypeOK
    <3> QED BY <2>1, <3>1, <3>2
  <2>3. CacheOK(c)'
    BY <1>1, <2>1, <2>2 DEF CacheOK
  <2> QED BY <1>1, <2>1, <2>2, <2>3, FinishOK DEF Results, TypeOK
<1> QED BY <1>2, <1>3, <1>4

\* A client that locks its vault or disconnects keeps nothing that could be old.
LEMMA CloseOK == ASSUME IInv, NEW c \in Clients, Lock(c) \/ Disconnect(c) PROVE IInv'
<1>1. /\ TypeOK /\ pc[c] = "idle" /\ told' = <<>>
      /\ view' = [view EXCEPT ![c] = 0]
      /\ cache' \in {cache, [cache EXCEPT ![c] = NoCache]}
      /\ UNCHANGED <<tags, revs, pc, op, got, next, stored>>
  BY DEF IInv, Lock, Disconnect
<1>2. NoCache \in Files /\ NoCache.tag = 0
  BY DEF NoCache, Files
<1>3. /\ view' \in [Clients -> Nat] /\ cache' \in [Clients -> Files]
      /\ view'[c] = 0 /\ cache'[c] \in {cache[c], NoCache}
      /\ \A d \in Clients \ {c} : view'[d] = view[d] /\ cache'[d] = cache[d]
  BY <1>1, <1>2 DEF TypeOK
<1>4. TypeOK'
  BY <1>1, <1>3 DEF TypeOK, Answers
<1>5. OnlyClient(c)
  BY <1>1, <1>3 DEF OnlyClient
<1>6. CacheOK(c)'
  BY <1>1, <1>2, <1>3 DEF IInv, ClientOK, CacheOK, FileOK, TagsOK
<1>7. OpOK(c)' /\ PutOK(c)'
  BY <1>1 DEF IInv, ClientOK, OpOK, PutOK, Reading
<1> QED BY <1>4, <1>5, <1>6, <1>7, OthersStay DEF ClientOK

\* The inductive step.
LEMMA StepOK == ASSUME IInv, [Next]_vars PROVE IInv'
<1>1. CASE Touch
  BY <1>1, TouchOK
<1>2. ASSUME NEW c \in Clients,
             \/ BeginUnlock(c) \/ BeginSync(c) \/ BeginBackup(c)
             \/ BeginPut(c) \/ BeginRemove(c) \/ BeginImport(c)
      PROVE  IInv'
  <2>1. CASE BeginUnlock(c) \/ BeginSync(c) \/ BeginBackup(c)
    BY <2>1, BeginOK DEF BeginUnlock, BeginSync, BeginBackup, Kinds, Edits
  <2>2. CASE BeginPut(c)
    BY <2>2, BeginOK DEF BeginPut, Kinds, Edits
  <2>3. CASE BeginRemove(c)
    BY <2>3, BeginOK DEF BeginRemove, Kinds, Edits
  <2>4. CASE BeginImport(c)
    BY <2>4, BeginOK DEF BeginImport, Kinds, Edits
  <2> QED BY <1>2, <2>1, <2>2, <2>3, <2>4
<1>3. ASSUME NEW c \in Clients,
             \/ ReadMetadata(c) \/ Download(c) \/ Recheck(c)
             \/ PutCommits(c) \/ PutRefused(c) \/ PutAnswered(c)
             \/ RequestFails(c) \/ Lock(c) \/ Disconnect(c)
      PROVE  IInv'
  BY <1>3, ReadMetadataOK, DownloadOK, RecheckOK, PutCommitsOK, EndOK, CloseOK
<1>4. CASE UNCHANGED vars
  <2>1. TypeOK'
    BY <1>4 DEF vars, IInv, TypeOK
  <2>2. FileOK'
    BY <1>4 DEF vars, IInv, FileOK, TagsOK, VersionsOK, EditsFollowEachOther,
        EditsWhatWasShown, Body
  <2>3. ASSUME NEW c \in Clients PROVE ClientOK(c)'
    BY <1>4 DEF vars, IInv, ClientOK, CacheOK, OpOK, PutOK, NextOK, Body, Reading
  <2> QED BY <2>1, <2>2, <2>3 DEF IInv
<1> QED BY <1>1, <1>2, <1>3, <1>4 DEF Next

\* The file as DriveForm has created it.
LEMMA InitOK == ASSUME Init PROVE IInv
<1>1. Empty \in Bodies /\ NoOp \in Ops /\ NoCache \in Files
  BY DEF Empty, Bodies, NoOp, Ops, Kinds, NoCache, Files
<1> DEFINE Revision == [body : Bodies, seen : Nat, on : Nat]
           first == [body |-> Empty, seen |-> 0, on |-> 0]
<1>2. first \in Revision /\ first.body = Empty
  BY <1>1
<1> HIDE DEF Revision, first
<1>3. /\ revs = <<first>> /\ revs \in Seq(Revision) /\ Len(revs) = 1 /\ revs[1] = first
      /\ tags = <<1>> /\ tags \in Seq(Nat) /\ Len(tags) = 1 /\ tags[1] = 1
  BY <1>2 DEF Init, first
<1>4. TypeOK
  <2>1. told \in Answers
    BY DEF Init, Answers
  <2>2. tags \in Seq(Nat) /\ revs \in Seq([body : Bodies, seen : Nat, on : Nat])
    BY <1>3 DEF Revision
  <2>3. pc \in [Clients -> Steps]
    BY DEF Init, Steps
  <2> QED BY <1>1, <2>1, <2>2, <2>3 DEF TypeOK, Init
<1>5. TagsOK /\ EditsFollowEachOther /\ EditsWhatWasShown
  BY <1>3 DEF TagsOK, EditsFollowEachOther, EditsWhatWasShown
<1>6. VersionsOK
  BY <1>2, <1>3 DEF VersionsOK, Body, Empty
<1>7. ASSUME NEW c \in Clients PROVE ClientOK(c)
  BY <1>3 DEF Init, ClientOK, CacheOK, OpOK, PutOK, Reading, NoCache, NoOp, Edits
<1> QED BY <1>4, <1>5, <1>6, <1>7 DEF IInv, FileOK

\* The invariant holds in every state, for any number of clients, entries,
\* revisions and tags, and for both services.
THEOREM RemoteInvariant == Spec => []IInv
<1>1. IInv /\ [Next]_vars => IInv'
  BY StepOK
<1> QED BY <1>1, InitOK, PTL DEF Spec

\* The variables keep their types.
THEOREM RemoteTypes == Spec => []TypeOK
<1>1. IInv => TypeOK
  BY DEF IInv
<1> QED BY <1>1, RemoteInvariant, PTL

\* What a client has cached under a tag is the revision the file had with it.
THEOREM CachesStayTrue == Spec => []CacheIsTrue
<1>1. IInv => CacheIsTrue
  BY DEF IInv, ClientOK, CacheOK, CacheIsTrue
<1> QED BY <1>1, RemoteInvariant, PTL

\* No edit of another client is discarded.
THEOREM NoEditIsDiscarded == Spec => []EditsFollowEachOther
<1>1. IInv => EditsFollowEachOther
  BY DEF IInv, FileOK
<1> QED BY <1>1, RemoteInvariant, PTL

\* An edit is saved onto the entries that were shown when it was asked for.
THEOREM EditsAreInformed == Spec => []EditsWhatWasShown
<1>1. IInv => EditsWhatWasShown
  BY DEF IInv, FileOK
<1> QED BY <1>1, RemoteInvariant, PTL

-----------------------------------------------------------------------------
(* What an edit answers *)

\* An operation that ends tells its own client, and nobody else.
LEMMA ToldOnce ==
    ASSUME NEW c \in Clients, NEW d \in Clients, NEW a, NEW b, <<c, a>> = <<d, b>>
    PROVE  c = d /\ a = b
OBVIOUS

\* "saved" is said of a revision that exists and that the client shows from now
\* on, "conflict" of an edit that has changed nothing.
THEOREM AnswersStayTrue == Spec => AnswersAreTrue
<1> DEFINE True(c) == /\ told' = <<c, "saved">> =>
                            /\ stored[c] # 0 /\ Body(stored[c]) = next[c]
                            /\ view'[c] = stored[c]
                      /\ told' = <<c, "conflict">> => stored[c] = 0
<1>1. ASSUME IInv, [Next]_vars PROVE [\A c \in Clients : True(c)]_vars
  <2>1. ASSUME told' = <<>>, NEW c \in Clients PROVE True(c)
    BY <2>1
  <2>2. ASSUME NEW c \in Clients, NEW d \in Clients,
               \/ \E result \in {"done", "failed"} : Finish(d, result)
               \/ Finish(d, "conflict") /\ pc[d] # "answer"
        PROVE  True(c)
    <3>1. stored[d] = 0 \/ told' \in {<<d, "done">>, <<d, "failed">>}
      BY <1>1, <2>2 DEF IInv, ClientOK, OpOK, Finish
    <3>2. told' \in {<<d, "done">>, <<d, "failed">>, <<d, "conflict">>}
      BY <2>2 DEF Finish
    <3>3. told' # <<c, "saved">>
      BY <3>2, ToldOnce
    <3>4. told' = <<c, "conflict">> => stored[c] = 0
      BY <3>1, <3>2, ToldOnce
    <3> QED BY <3>3, <3>4
  <2>3. ASSUME NEW c \in Clients, NEW d \in Clients, NEW r, Receive(d, r),
               pc[d] # "answer"
        PROVE  True(c)
    <3>1. CASE ReceiveRead(d, r)
      BY <2>2, <3>1 DEF ReceiveRead
    <3>2. CASE ReceiveChanged(d, r)
      BY <2>2, <2>3, <3>2 DEF ReceiveChanged
    <3>3. CASE ReceiveEdit(d, r)
      <4>1. told' = <<>> \/ Finish(d, "failed")
        BY <3>3 DEF ReceiveEdit
      <4> QED BY <2>1, <2>2, <4>1
    <3> QED BY <2>3, <3>1, <3>2, <3>3 DEF Receive
  <2>4. ASSUME NEW c \in Clients, NEW d \in Clients, PutAnswered(d) PROVE True(c)
    <3>1. told' = <<d, "saved">> /\ view' = [view EXCEPT ![d] = stored[d]]
      BY <2>4 DEF PutAnswered, Finish
    <3>2. stored[d] # 0 /\ Body(stored[d]) = next[d]
      BY <1>1, <2>4 DEF PutAnswered, IInv, ClientOK, PutOK, CacheOK, TypeOK
    <3>3. view'[d] = stored[d]
      BY <1>1, <3>1 DEF IInv, TypeOK
    <3>4. told' # <<c, "conflict">>
      BY <3>1, ToldOnce
    <3> QED BY <3>1, <3>2, <3>3, <3>4, ToldOnce
  <2>5. ASSUME NEW c \in Clients, Next PROVE True(c)
    <3>1. CASE Touch
      BY <2>1, <3>1 DEF Touch
    <3>2. CASE \E d \in Clients :
                  \/ BeginUnlock(d) \/ BeginSync(d) \/ BeginBackup(d)
                  \/ BeginPut(d) \/ BeginRemove(d) \/ BeginImport(d)
      <4>1. told' = <<>>
        BY <3>2 DEF BeginUnlock, BeginSync, BeginBackup, BeginPut, BeginRemove,
               BeginImport, Begin
      <4> QED BY <2>1, <4>1
    <3>3. CASE \E d \in Clients : Lock(d) \/ Disconnect(d) \/ PutCommits(d) \/ Download(d)
      <4>1. told' = <<>>
        BY <3>3 DEF Lock, Disconnect, PutCommits, Download
      <4> QED BY <2>1, <4>1
    <3>4. ASSUME NEW d \in Clients, ReadMetadata(d) \/ Recheck(d) PROVE True(c)
      <4>1. pc[d] # "answer"
        BY <3>4 DEF ReadMetadata, Recheck
      <4>2. \/ told' = <<>> \/ Finish(d, "conflict")
            \/ \E r \in {cache[d].rev, got[d].rev} : Receive(d, r)
        BY <3>4 DEF ReadMetadata, Recheck
      <4> QED BY <2>1, <2>2, <2>3, <4>1, <4>2
    <3>5. ASSUME NEW d \in Clients, PutRefused(d) \/ RequestFails(d) PROVE True(c)
      BY <2>2, <3>5 DEF PutRefused, RequestFails
    <3> QED BY <2>4, <2>5, <3>1, <3>2, <3>3, <3>4, <3>5 DEF Next
  <2> QED BY <1>1, <2>5
<1> QED BY <1>1, RemoteInvariant, PTL DEF Spec, AnswersAreTrue

-----------------------------------------------------------------------------
(* The refinement *)

History == [r \in 1..Len(revs) |-> Body(r)]

HistoryOK ==
    /\ History \in Seq(Bodies) /\ Len(History) = Len(revs)
    /\ Len(revs) \in Nat \ {0}
    /\ \A r \in 1..Len(revs) : History[r] = revs[r].body

\* The history is a sequence of bodies.
LEMMA HistoryType == IInv => HistoryOK
<1> SUFFICES ASSUME IInv PROVE HistoryOK
  OBVIOUS
<1>1. Len(revs) \in Nat \ {0} /\ \A r \in 1..Len(revs) : Body(r) \in Bodies
  BY BodyType DEF IInv, FileOK, TagsOK
<1>2. History \in [1..Len(revs) -> Bodies]
  BY <1>1 DEF History
<1>3. History \in Seq(Bodies)
  BY <1>1, <1>2, SeqDef
<1>4. DOMAIN History = 1..Len(History) /\ Len(History) \in Nat
  BY <1>3, LenProperties
<1>5. DOMAIN History = 1..Len(revs)
  BY DEF History
<1> QED BY <1>1, <1>3, <1>4, <1>5 DEF History, HistoryOK, Body

\* A PUT the service accepts is a write of the shared vault.
LEMMA CommitIsWrite ==
    ASSUME IInv, NEW c \in Clients, PutCommits(c)
    PROVE  Shared!Write(c)
<1> DEFINE n == Len(revs)
<1>1. /\ History \in Seq(Bodies) /\ Len(History) = n /\ n \in Nat \ {0}
      /\ \A r \in 1..n : History[r] = Body(r)
  BY HistoryType DEF HistoryOK, Body
<1>2. view[c] = n /\ next[c] \in Bodies /\ NextOK(c)
  BY CommitFacts
<1>3. /\ IInv' /\ view' = view
      /\ revs' = Append(revs, [body |-> next[c], seen |-> op[c].seen, on |-> view[c]])
  BY PutCommitsOK DEF PutCommits
<1>4. /\ Len(revs') = n + 1
      /\ \A r \in 1..n : revs'[r].body = Body(r)
      /\ revs'[n + 1].body = next[c]
  BY <1>1, <1>3 DEF IInv, TypeOK, Body
<1>5. History' = Append(History, next[c])
  <2>1. /\ History' \in Seq(Bodies) /\ Len(History') = n + 1
        /\ \A r \in 1..(n + 1) : History'[r] = revs'[r].body
    <3>1. (IInv => HistoryOK)'
      BY HistoryType, PTL
    <3> QED BY <1>3, <1>4, <3>1 DEF HistoryOK
  <2>2. /\ Append(History, next[c]) \in Seq(Bodies)
        /\ Len(Append(History, next[c])) = n + 1
        /\ \A r \in 1..n : Append(History, next[c])[r] = Body(r)
        /\ Append(History, next[c])[n + 1] = next[c]
    BY <1>1, <1>2
  <2>3. \A r \in 1..(n + 1) : History'[r] = Append(History, next[c])[r]
    BY <1>1, <1>4, <2>1, <2>2
  <2> QED BY <2>1, <2>2, <2>3, SeqEqual
<1>6. next[c] # Body(n)
  BY <1>2 DEF NextOK
<1>7. ASSUME NEW i \in Ids
      PROVE  \/ next[c][i] \in {Body(n)[i], None}
             \/ \A r \in 1..n, j \in Ids : next[c][i] # Body(r)[j]
  <2>1. CASE next[c][i] \in {Body(n)[i], None}
    BY <2>1
  <2>2. CASE next[c][i] = [by |-> c, at |-> n + 1]
    <3>1. next[c][i].at = n + 1
      BY <2>2
    <3>2. next[c][i] # None
      BY <1>1, <2>2, CommitFacts
    <3>3. ASSUME NEW r \in 1..n, NEW j \in Ids PROVE next[c][i] # Body(r)[j]
      BY <1>1, <3>1, <3>2 DEF IInv, FileOK, VersionsOK
    <3> QED BY <3>3
  <2> QED BY <1>2, <2>1, <2>2 DEF NextOK
<1>8. Shared!Last = Body(n)
  BY <1>1 DEF Shared!Last, History
<1>9. \A x \in Shared!Drawn : \E r \in 1..n, j \in Ids : x = Body(r)[j]
  BY <1>1 DEF Shared!Drawn, History
<1>10. \A i \in Ids : next[c][i] \in {Shared!Last[i], None} \/ next[c][i] \notin Shared!Drawn
  BY <1>7, <1>8, <1>9
<1> QED
  BY <1>1, <1>2, <1>3, <1>5, <1>6, <1>8, <1>10 DEF Shared!Write, Bodies, History

\* A client shows a later revision than before, or none.
LEMMA ShowIsShow ==
    ASSUME IInv, NEW c \in Clients, NEW r \in 1..Len(revs), view' = [view EXCEPT ![c] = r],
           view[c] <= r, UNCHANGED revs
    PROVE  [Shared!Next]_Shared!sharedVars
<1>1. view[c] \in Nat /\ view \in [Clients -> Nat] /\ Len(History) = Len(revs)
      /\ Len(revs) \in Nat
  BY HistoryType DEF IInv, TypeOK, HistoryOK
<1>2. UNCHANGED History
  BY DEF History, Body
<1>3. CASE r = view[c]
  BY <1>1, <1>2, <1>3 DEF Shared!sharedVars, History
<1>4. CASE r # view[c]
  <2>1. r \in (view[c] + 1)..Len(History)
    BY <1>1, <1>4
  <2> QED BY <1>2, <2>1 DEF Shared!Next, Shared!Show, History
<1> QED BY <1>3, <1>4

\* A client that closes its vault.
LEMMA CloseIsClose ==
    ASSUME NEW c \in Clients, view' \in {view, [view EXCEPT ![c] = 0]}, UNCHANGED revs
    PROVE  [Shared!Next]_Shared!sharedVars
<1>1. UNCHANGED History
  BY DEF History, Body
<1>2. CASE view' = view
  BY <1>1, <1>2 DEF Shared!sharedVars, History
<1>3. CASE view' = [view EXCEPT ![c] = 0]
  BY <1>1, <1>3 DEF Shared!Next, Shared!Close, History
<1> QED BY <1>2, <1>3

\* An operation that has read the last revision shows it, or goes on showing
\* what it did.
LEMMA ReceiveIsShow ==
    ASSUME IInv, NEW c \in Clients, NEW r, r = Len(revs), Receive(c, r), UNCHANGED revs
    PROVE  [Shared!Next]_Shared!sharedVars
<1>1. r \in 1..Len(revs) /\ view[c] <= r
  BY DEF IInv, FileOK, TagsOK, ClientOK, CacheOK
<1>2. view' = view \/ view' = [view EXCEPT ![c] = r]
  BY DEF Receive, ReceiveRead, ReceiveChanged, ReceiveEdit
<1> QED BY <1>1, <1>2, ShowIsShow, CloseIsClose

\* Every step is one of the shared vault, or none of it.
LEMMA StepImplements ==
    ASSUME IInv, [Next]_vars PROVE [Shared!Next]_Shared!sharedVars
<1>1. ASSUME UNCHANGED <<revs, view>> PROVE [Shared!Next]_Shared!sharedVars
  BY <1>1 DEF Shared!sharedVars, Body
<1>2. CASE Touch
  BY <1>1, <1>2 DEF Touch
<1>3. ASSUME NEW c \in Clients,
             \/ BeginUnlock(c) \/ BeginSync(c) \/ BeginBackup(c)
             \/ BeginPut(c) \/ BeginRemove(c) \/ BeginImport(c)
             \/ Download(c) \/ PutRefused(c)
      PROVE  [Shared!Next]_Shared!sharedVars
  BY <1>1, <1>3 DEF BeginUnlock, BeginSync, BeginBackup, BeginPut, BeginRemove,
     BeginImport, Begin, Download, PutRefused
<1>4. ASSUME NEW c \in Clients, ReadMetadata(c) PROVE [Shared!Next]_Shared!sharedVars
  <2>1. CASE cache[c].tag = server.tag
    <3>1. cache[c].rev = Len(revs)
      BY <2>1 DEF IInv, ClientOK, CacheOK, FileOK, TagsOK, server
    <3> QED BY <1>4, <2>1, <3>1, ReceiveIsShow DEF ReadMetadata
  <2>2. CASE cache[c].tag # server.tag
    BY <1>1, <1>4, <2>2 DEF ReadMetadata
  <2> QED BY <2>1, <2>2
<1>5. ASSUME NEW c \in Clients, Recheck(c) PROVE [Shared!Next]_Shared!sharedVars
  <2>1. CASE server.tag = got[c].tag
    <3>1. got[c].rev = Len(revs)
      BY <1>5, <2>1 DEF Recheck, IInv, ClientOK, OpOK, server
    <3> QED BY <1>5, <2>1, <3>1, ReceiveIsShow DEF Recheck
  <2>2. CASE server.tag # got[c].tag
    BY <1>1, <1>5, <2>2 DEF Recheck
  <2> QED BY <2>1, <2>2
<1>6. ASSUME NEW c \in Clients, PutCommits(c) PROVE [Shared!Next]_Shared!sharedVars
  BY <1>6, CommitIsWrite DEF Shared!Next
<1>7. ASSUME NEW c \in Clients, PutAnswered(c) PROVE [Shared!Next]_Shared!sharedVars
  <2>1. /\ pc[c] = "answer" /\ view' = [view EXCEPT ![c] = stored[c]] /\ UNCHANGED revs
        /\ view[c] \in Nat /\ Len(revs) \in Nat
    BY <1>7 DEF PutAnswered, IInv, TypeOK, FileOK, TagsOK
  <2>2. stored[c] \in (view[c] + 1)..Len(revs)
    BY <2>1 DEF IInv, ClientOK, PutOK
  <2>3. stored[c] \in 1..Len(revs) /\ view[c] <= stored[c]
    BY <2>1, <2>2
  <2> QED BY <2>1, <2>3, ShowIsShow
<1>8. ASSUME NEW c \in Clients, RequestFails(c) \/ Lock(c) \/ Disconnect(c)
      PROVE  [Shared!Next]_Shared!sharedVars
  BY <1>8, CloseIsClose DEF RequestFails, Lock, Disconnect
<1>9. CASE UNCHANGED vars
  BY <1>1, <1>9 DEF vars
<1> QED
  BY <1>2, <1>3, <1>4, <1>5, <1>6, <1>7, <1>8, <1>9 DEF Next

\* The file as it was created is the first state of the shared vault.
LEMMA InitImplements == ASSUME Init PROVE Shared!Init
<1>1. HistoryOK /\ Len(revs) = 1 /\ revs[1].body = Empty
  BY InitOK, HistoryType DEF Init
<1>2. <<Empty>> \in Seq(Bodies) /\ Len(<<Empty>>) = 1 /\ <<Empty>>[1] = Empty
  BY DEF Empty, Bodies
<1>3. History = <<Empty>>
  BY <1>1, <1>2, SeqEqual DEF HistoryOK
<1> QED BY <1>3 DEF Shared!Init, Init, History, Empty

\* The file in the drive, its clients and all that can go wrong between them
\* implement one shared vault.
THEOREM RemoteVaultImplementsShared == Spec => ImplementsShared
<1>1. IInv /\ [Next]_vars => [Shared!Next]_Shared!sharedVars
  BY StepImplements
<1> QED
  BY <1>1, InitImplements, RemoteInvariant, PTL DEF Spec, ImplementsShared, Shared!Spec
=============================================================================
