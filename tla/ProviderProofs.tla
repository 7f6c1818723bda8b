----------------------------- MODULE ProviderProofs -----------------------------
(***************************************************************************)
(* Theorems about the parts that talk to providers and files: a credential *)
(* that has a head can be read, get_version answers with the newest        *)
(* version or with none, and a key is set without touching another.        *)
(***************************************************************************)
EXTENDS CredentialStore, AzureVersions, KeyValueFile, FiniteSetTheorems, TLAPS

-----------------------------------------------------------------------------
(* The credential store.                                                   *)

CredentialTypes ==
    /\ head \in Nat /\ issued \in Nat /\ next \in Nat /\ previous \in Nat /\ index \in Nat
    /\ step \in {"rest", "save", "write", "undo", "clean", "remove"}
    /\ leaving \in Nat

\* No generation is newer than the provider's last token, and the one a disconnect
\* left behind is not newer than the one in force.
Bounded == leaving <= head /\ head <= issued

\* The generation being saved is the newest and is not in force yet.
SavesTheNewest == step \in {"save", "write", "undo"} => next = issued /\ head < next

\* save has written the chunks before index, and knows the head it replaces.
WritesInOrder ==
    step = "write" =>
        /\ index > 0 /\ index <= Chunks + 1
        /\ previous = head
        /\ \A i \in 1..Chunks : i < index => <<next, i>> \in chunks

\* The generation being cleaned up is not the one in force.
CleansTheOld == step = "clean" => previous # head /\ Readable(head)

\* Only disconnect takes the chunks of the generation in force.
RemovesWhenLeaving == step = "remove" => leaving = head

\* The provider accepts what is about to be answered.
Accepted(g) == valid # {} => g \in valid
WillBeAccepted ==
    /\ step \in {"save", "write"} => Accepted(next)
    /\ step = "clean" => Accepted(head)

CredentialInv ==
    /\ CredentialTypes
    /\ Bounded
    /\ SavesTheNewest
    /\ WritesInOrder
    /\ CleansTheOld
    /\ RemovesWhenLeaving
    /\ WillBeAccepted
    /\ CredentialReadable
    /\ AnswersAreKept
USE ChunksAssumption, LimitsAssumption

\* The invariant holds before the first sign-in.
LEMMA CredentialInitInv == CredentialInit => CredentialInv
BY DEF CredentialInit, CredentialInv, CredentialTypes, Bounded, SavesTheNewest,
       WritesInOrder, CleansTheOld,
       RemovesWhenLeaving, WillBeAccepted, CredentialReadable, AnswersAreKept, Accepted

\* What ends a call disturbs only what the call answers.
LEMMA EndsCall ==
    ASSUME CredentialInv, NEW a, Answer(a), Bounded', head' \in Nat, issued' \in Nat,
           leaving' \in Nat, CredentialReadable',
           a = "token" => Readable(head)' /\ Accepted(head)',
           a = "gone" => head' = 0
    PROVE  CredentialInv'
BY DEF CredentialInv, CredentialTypes, Answer, SavesTheNewest, WritesInOrder,
       CleansTheOld, RemovesWhenLeaving,
       WillBeAccepted, AnswersAreKept, Accepted

\* The provider's steps keep the invariant.
LEMMA ProviderInv == CredentialInv /\ (Login \/ Unreadable \/ Refresh \/ RefreshLost \/ Revoke) => CredentialInv'
<1> SUFFICES ASSUME CredentialInv, Login \/ Unreadable \/ Refresh \/ RefreshLost \/ Revoke
             PROVE  CredentialInv'
    OBVIOUS
<1> USE DEF CredentialInv, CredentialTypes, Bounded, CredentialReadable, Readable,
            Accepted, store, provider, locals
<1>1. CASE Login
  <2>1. CASE step' = "save"
    BY <1>1, <2>1 DEF Login, NoTrouble, Answer, SavesTheNewest, WritesInOrder,
       CleansTheOld, RemovesWhenLeaving, WillBeAccepted, AnswersAreKept
  <2>2. CASE Answer("error") /\ UNCHANGED provider
    BY <1>1, <2>2, EndsCall DEF Login
  <2> QED
    BY <1>1, <2>1, <2>2 DEF Login
<1>2. CASE Unreadable
  BY <1>2, EndsCall DEF Unreadable
<1>3. CASE Refresh
  <2>1. CASE Answer("token") /\ UNCHANGED provider /\ head \in valid
    BY <1>3, <2>1, EndsCall DEF Refresh
  <2>2. CASE Answer("error") /\ UNCHANGED provider
    BY <1>3, <2>2, EndsCall DEF Refresh
  <2>3. CASE step' = "save"
    BY <1>3, <2>3 DEF Refresh, Answer, SavesTheNewest, WritesInOrder,
       CleansTheOld, RemovesWhenLeaving, WillBeAccepted, AnswersAreKept
  <2> QED
    BY <1>3, <2>1, <2>2, <2>3 DEF Refresh
<1>4. CASE RefreshLost
  BY <1>4, EndsCall DEF RefreshLost
<1>5. CASE Revoke
  BY <1>5 DEF Revoke, SavesTheNewest, WritesInOrder, CleansTheOld, RemovesWhenLeaving,
     WillBeAccepted, AnswersAreKept
<1> QED
  BY <1>1, <1>2, <1>3, <1>4, <1>5

\* The steps of save keep the invariant.
LEMMA SaveInv == CredentialInv /\ (ReadPrevious \/ WriteChunk \/ WriteHead \/ Undo \/ Clean) => CredentialInv'
<1> SUFFICES ASSUME CredentialInv, ReadPrevious \/ WriteChunk \/ WriteHead \/ Undo \/ Clean
             PROVE  CredentialInv'
    OBVIOUS
<1> USE DEF CredentialInv, CredentialTypes, Bounded, CredentialReadable, Readable,
            Accepted, store, provider, locals,
            SaveFailed, Goto
<1>1. CASE ReadPrevious
  <2>1. CASE Answer(SaveFailed)
    BY <1>1, <2>1, EndsCall DEF ReadPrevious
  <2>2. CASE step' = "write"
    BY <1>1, <2>2 DEF ReadPrevious, Answer, SavesTheNewest, WritesInOrder,
       CleansTheOld, RemovesWhenLeaving, WillBeAccepted, AnswersAreKept
  <2> QED
    BY <1>1, <2>1, <2>2 DEF ReadPrevious
<1>2. CASE WriteChunk
  BY <1>2 DEF WriteChunk, SavesTheNewest, WritesInOrder,
     CleansTheOld, RemovesWhenLeaving, WillBeAccepted, AnswersAreKept
<1>3. CASE WriteHead
  <2>1. CASE UNCHANGED head
    BY <1>3, <2>1 DEF WriteHead, Answer, NoTrouble, Trouble, SavesTheNewest, WritesInOrder,
       CleansTheOld, RemovesWhenLeaving, WillBeAccepted, AnswersAreKept
  <2>2. CASE head' = next
    <3>1. Readable(head)' /\ Accepted(head)'
      BY <1>3, <2>2 DEF WriteHead, SavesTheNewest, WritesInOrder, WillBeAccepted
    <3>2. CASE Answer("token")
      BY <1>3, <2>2, <3>1, <3>2, EndsCall DEF WriteHead, SavesTheNewest
    <3>3. CASE Goto("clean", 1)
      BY <1>3, <2>2, <3>1, <3>3 DEF WriteHead, SavesTheNewest, WritesInOrder,
         CleansTheOld, RemovesWhenLeaving, WillBeAccepted, AnswersAreKept
    <3> QED
      BY <1>3, <2>2, <3>2, <3>3 DEF WriteHead, SavesTheNewest
  <2> QED
    BY <1>3, <2>1, <2>2 DEF WriteHead
<1>4. CASE Undo
  <2>1. CASE Answer(SaveFailed)
    <3>1. CredentialReadable'
      BY <1>4 DEF Undo, Undone, SavesTheNewest
    <3> QED
      BY <1>4, <2>1, <3>1, EndsCall DEF Undo
  <2>2. CASE Goto("undo", index + 1)
    BY <1>4, <2>2 DEF Undo, Undone, SavesTheNewest, WritesInOrder,
       CleansTheOld, RemovesWhenLeaving, WillBeAccepted, AnswersAreKept
  <2> QED
    BY <1>4, <2>1, <2>2 DEF Undo
<1>5. CASE Clean
  <2>1. Readable(head)' /\ Accepted(head)' /\ CredentialReadable'
    BY <1>5 DEF Clean, CleansTheOld, WillBeAccepted
  <2>2. CASE Answer(SaveFailed) \/ Answer("token")
    BY <1>5, <2>1, <2>2, EndsCall DEF Clean
  <2>3. CASE Goto("clean", index + 1)
    BY <1>5, <2>1, <2>3 DEF Clean, SavesTheNewest, WritesInOrder,
       CleansTheOld, RemovesWhenLeaving, WillBeAccepted, AnswersAreKept
  <2> QED
    BY <1>5, <2>2, <2>3 DEF Clean
<1> QED
  BY <1>1, <1>2, <1>3, <1>4, <1>5

\* Disconnecting, and the end of the process, keep the invariant.
LEMMA LeaveInv == CredentialInv /\ (Disconnect \/ RemoveChunk \/ RemoveHead \/ Die) => CredentialInv'
<1> SUFFICES ASSUME CredentialInv, Disconnect \/ RemoveChunk \/ RemoveHead \/ Die
             PROVE  CredentialInv'
    OBVIOUS
<1> USE DEF CredentialInv, CredentialTypes, Bounded, CredentialReadable, Readable,
            Accepted, store, provider, locals
<1>1. CASE Disconnect
  <2>1. CASE Answer("error") /\ UNCHANGED leaving
    BY <1>1, <2>1, EndsCall DEF Disconnect
  <2>2. CASE leaving' = head /\ Goto("remove", IF head = 0 THEN Chunks + 1 ELSE 1)
    BY <1>1, <2>2 DEF Disconnect, Goto, SavesTheNewest, WritesInOrder,
       CleansTheOld, RemovesWhenLeaving, WillBeAccepted, AnswersAreKept
  <2> QED
    BY <1>1, <2>1, <2>2 DEF Disconnect
<1>2. CASE RemoveChunk
  <2>1. CASE Answer("error") /\ UNCHANGED chunks
    BY <1>2, <2>1, EndsCall DEF RemoveChunk
  <2>2. CASE Goto("remove", index + 1)
    BY <1>2, <2>2 DEF RemoveChunk, Goto, SavesTheNewest, WritesInOrder,
       CleansTheOld, RemovesWhenLeaving, WillBeAccepted, AnswersAreKept
  <2> QED
    BY <1>2, <2>1, <2>2 DEF RemoveChunk
<1>3. CASE RemoveHead
  BY <1>3, EndsCall DEF RemoveHead
<1>4. CASE Die
  BY <1>4, EndsCall DEF Die
<1> QED
  BY <1>1, <1>2, <1>3, <1>4

\* Every step keeps the invariant.
LEMMA CredentialNextInv == CredentialInv /\ [CredentialNext]_credentialVars => CredentialInv'
<1> SUFFICES ASSUME CredentialInv, [CredentialNext]_credentialVars
             PROVE  CredentialInv'
    OBVIOUS
<1>1. CASE CredentialNext
  BY <1>1, ProviderInv, SaveInv, LeaveInv DEF CredentialNext
<1>2. CASE UNCHANGED credentialVars
  BY <1>2 DEF credentialVars, store, provider, locals, CredentialInv, CredentialTypes,
     Bounded, SavesTheNewest,
     WritesInOrder, CleansTheOld, RemovesWhenLeaving, WillBeAccepted, CredentialReadable,
     AnswersAreKept, Readable, Accepted
<1> QED
  BY <1>1, <1>2

\* The invariant of the credential store.
THEOREM CredentialInvariant == CredentialSpec => []CredentialInv
BY CredentialInitInv, CredentialNextInv, PTL DEF CredentialSpec

\* The commit point: whichever call on the credential store fails and wherever
\* the process dies, the credential in force can be read.
THEOREM CredentialStaysReadable == CredentialSpec => []CredentialReadable
<1>1. CredentialInv => CredentialReadable
  BY DEF CredentialInv
<1> QED
  BY <1>1, CredentialInvariant, PTL

\* Whoever is answered with a token can ask for the next one, and a connection
\* that is reported gone has no credential in force.
THEOREM TokenAnswersAreKept == CredentialSpec => []AnswersAreKept
<1>1. CredentialInv => AnswersAreKept
  BY DEF CredentialInv
<1> QED
  BY <1>1, CredentialInvariant, PTL

-----------------------------------------------------------------------------
(* The page of versions: what Taken computes.                              *)

USE PagesAssumption

\* Induction over the natural numbers, for a set of them.
LEMMA NatSetInduction ==
    ASSUME NEW S \in SUBSET Nat, 0 \in S, \A n \in S : n + 1 \in S
    PROVE  S = Nat
<1> DEFINE R == OpToRel(<, Nat)
<1>1. IsWellFoundedOn(R, Nat)
  BY NatLessThanWellFounded
<1>2. \A a, b \in Nat : a < b => <<a, b>> \in R
  BY DEF OpToRel
<1> HIDE DEF R
<1>3. SUFFICES ASSUME Nat \ S # {} PROVE FALSE
  OBVIOUS
<1>4. PICK x \in Nat \ S : \A y \in Nat \ S : ~(<<y, x>> \in R)
  BY <1>1, <1>3, WFMin
<1>5. x # 0 /\ x - 1 \in Nat /\ x - 1 < x
  BY <1>4
<1>6. x - 1 \in S
  BY <1>2, <1>4, <1>5
<1> QED
  BY <1>4, <1>5, <1>6

Bests == [id : 0..MaxId, enabled : BOOLEAN, ambiguous : BOOLEAN]

\* The newest version read so far, and there is one.
Sound(best) == best \in Bests /\ (best.id # 0 => best.id \in Existing)

\* The version best was chosen over x, or beside it.
Knows(best, x) ==
    /\ best.id \in Existing
    /\ created[x] <= created[best.id]
    /\ created[x] = created[best.id] => x = best.id \/ best.ambiguous

\* Taking one more version loses nothing of what was known.
LEMMA TakeKnows ==
    ASSUME created \in [Ids -> Nat], NEW best, Sound(best), NEW i \in Existing
    PROVE  /\ Sound(Take(best, i)) /\ Knows(Take(best, i), i)
           /\ \A x \in Existing : Knows(best, x) => Knows(Take(best, i), x)
<1>1. CASE best.id # 0 /\ created[i] < created[best.id]
  BY <1>1 DEF Take, Sound, Knows, Bests, Existing, Ids
<1>2. CASE best.id # 0 /\ created[i] = created[best.id]
  <2>1. best \in Bests
    BY DEF Sound
  <2>2. Take(best, i) = [best EXCEPT !.ambiguous = @ \/ i # best.id]
    BY <1>2 DEF Take, Sound, Existing, Ids
  <2>3. /\ Take(best, i) \in Bests
        /\ Take(best, i).id = best.id
        /\ Take(best, i).ambiguous <=> best.ambiguous \/ i # best.id
    BY <2>1, <2>2 DEF Bests
  <2>4. Sound(Take(best, i))
    BY <2>3 DEF Sound
  <2>5. Knows(Take(best, i), i)
    BY <1>2, <2>3 DEF Sound, Knows, Existing, Ids
  <2>6. \A x \in Existing : Knows(best, x) => Knows(Take(best, i), x)
    BY <2>3 DEF Knows
  <2> QED
    BY <2>4, <2>5, <2>6
<1>3. CASE best.id = 0 \/ created[best.id] < created[i]
  <2>1. Take(best, i) = [id |-> i, enabled |-> i \in enabled, ambiguous |-> FALSE]
    BY <1>3 DEF Take, Sound, Existing, Ids
  <2>2. Take(best, i) \in Bests /\ Take(best, i).id = i
    BY <2>1 DEF Bests, Existing, Ids
  <2>3. \A x \in Existing : Knows(best, x) => created[x] < created[i]
    BY <1>3 DEF Knows, Existing, Ids
  <2> QED
    BY <2>2, <2>3 DEF Sound, Knows, Existing, Ids
<1> QED
  BY <1>1, <1>2, <1>3 DEF Sound, Existing, Ids

\* The recursion that reads a page has a solution: up to 0, and from n to n + 1.
LEMMA ReadingExists ==
    ASSUME NEW page
    PROVE  \E f : f = [i \in 0..MaxId |->
                          IF i = 0 THEN latest
                          ELSE IF i \in page THEN Take(f[i - 1], i) ELSE f[i - 1]]
<1> DEFINE Reads(f, n) ==
               f = [i \in 0..n |->
                       IF i = 0 THEN latest
                       ELSE IF i \in page THEN Take(f[i - 1], i) ELSE f[i - 1]]
           S == {n \in Nat : \E f : Reads(f, n)}
<1>1. 0 \in S
  <2>1. Reads([i \in 0..0 |-> latest], 0)
    OBVIOUS
  <2> QED
    BY <2>1
<1>2. ASSUME NEW n \in S PROVE n + 1 \in S
  <2>1. PICK f : Reads(f, n)
    OBVIOUS
  <2> DEFINE last == IF n + 1 \in page THEN Take(f[n], n + 1) ELSE f[n]
             g == [i \in 0..(n + 1) |-> IF i = n + 1 THEN last ELSE f[i]]
  <2>2. \A i \in 0..n : g[i] = f[i]
    OBVIOUS
  <2>3. \A i \in 0..n :
            f[i] = IF i = 0 THEN latest
                   ELSE IF i \in page THEN Take(f[i - 1], i) ELSE f[i - 1]
    BY <2>1
  <2>4. ASSUME NEW i \in 0..(n + 1)
        PROVE  g[i] = IF i = 0 THEN latest
                      ELSE IF i \in page THEN Take(g[i - 1], i) ELSE g[i - 1]
    <3>1. CASE i = n + 1
      <4>1. n \in 0..n /\ n + 1 # 0 /\ n + 1 - 1 = n
        OBVIOUS
      <4>2. g[n] = f[n] /\ g[n + 1] = last
        BY <2>2, <4>1
      <4> QED
        BY <3>1, <4>1, <4>2
    <3>2. CASE i # n + 1
      <4>1. i \in 0..n /\ (i # 0 => i - 1 \in 0..n)
        BY <3>2
      <4>2. g[i] = f[i] /\ (i # 0 => g[i - 1] = f[i - 1])
        BY <2>2, <4>1
      <4> HIDE DEF g
      <4> QED
        BY <2>3, <4>1, <4>2
    <3> QED
      BY <3>1, <3>2
  <2>5. Reads(g, n + 1)
    <3>1. g = [i \in 0..(n + 1) |-> g[i]]
      OBVIOUS
    <3> HIDE DEF g
    <3> QED
      BY <2>4, <3>1
  <2>6. n + 1 \in Nat
    OBVIOUS
  <2> HIDE DEF Reads, g
  <2> QED
    BY <2>5, <2>6
<1> HIDE DEF Reads
<1>3. S = Nat
  <2>1. S \in SUBSET Nat
    OBVIOUS
  <2> HIDE DEF S
  <2> QED
    BY <1>1, <1>2, <2>1, NatSetInduction
<1>4. \E f : Reads(f, MaxId)
  BY <1>3
<1> QED
  BY <1>4 DEF Reads

\* A page is read: nothing known is lost, and every version on it is known.
LEMMA TakenKnows ==
    ASSUME created \in [Ids -> Nat], Sound(latest), NEW page \in SUBSET Existing
    PROVE  /\ Sound(Taken(page))
           /\ \A x \in Existing : x \in page \/ Knows(latest, x) => Knows(Taken(page), x)
<1> DEFINE best[i \in 0..MaxId] ==
               IF i = 0 THEN latest
               ELSE IF i \in page THEN Take(best[i - 1], i) ELSE best[i - 1]
<1>1. Taken(page) = best[MaxId]
  BY DEF Taken
<1>2. best = [i \in 0..MaxId |->
                 IF i = 0 THEN latest
                 ELSE IF i \in page THEN Take(best[i - 1], i) ELSE best[i - 1]]
  BY ReadingExists, Zenon
<1> HIDE DEF best
<1> DEFINE Read(n) == /\ Sound(best[n])
                      /\ \A x \in Existing :
                            (x \in page /\ x <= n) \/ Knows(latest, x) => Knows(best[n], x)
           S == {n \in Nat : n <= MaxId => Read(n)}
<1>3. 0 \in S
  <2>1. best[0] = latest
    BY <1>2
  <2>2. \A x \in Existing : ~(x <= 0)
    BY DEF Existing, Ids
  <2> QED
    BY <2>1, <2>2
<1>4. ASSUME NEW n \in S PROVE n + 1 \in S
  <2> SUFFICES ASSUME n + 1 <= MaxId PROVE Read(n + 1)
    OBVIOUS
  <2>1. Read(n)
    OBVIOUS
  <2>2. best[n + 1] = IF n + 1 \in page THEN Take(best[n], n + 1) ELSE best[n]
    <3>1. n + 1 \in 0..MaxId /\ n + 1 # 0 /\ n + 1 - 1 = n
      OBVIOUS
    <3> QED
      BY <1>2, <3>1
  <2>3. \A x \in Existing : x <= n + 1 => x <= n \/ x = n + 1
    BY DEF Existing, Ids
  <2>4. CASE n + 1 \in page
    <3>1. n + 1 \in Existing /\ best[n + 1] = Take(best[n], n + 1)
      BY <2>2, <2>4
    <3>2. Sound(best[n + 1]) /\ Knows(best[n + 1], n + 1)
      BY <2>1, <3>1, TakeKnows
    <3>3. \A x \in Existing : Knows(best[n], x) => Knows(best[n + 1], x)
      BY <2>1, <3>1, TakeKnows
    <3> QED
      BY <2>1, <2>3, <3>2, <3>3
  <2>5. CASE n + 1 \notin page
    <3>1. best[n + 1] = best[n]
      BY <2>2, <2>5
    <3> QED
      BY <2>1, <2>3, <2>5, <3>1
  <2> QED
    BY <2>4, <2>5
<1>5. S = Nat
  <2>1. S \in SUBSET Nat
    OBVIOUS
  <2> HIDE DEF S
  <2> QED
    BY <1>3, <1>4, <2>1, NatSetInduction
<1>6. Read(MaxId)
  BY <1>5
<1>7. \A x \in Existing : x <= MaxId
  BY DEF Existing, Ids
<1> QED
  BY <1>1, <1>6, <1>7

-----------------------------------------------------------------------------
(* get_version.                                                            *)

AzureTypes ==
    /\ created \in [Ids -> Nat]
    /\ phase \in {"rest", "token", "get"}
    /\ asked \in 0..MaxId /\ cursor \in 0..MaxId
    /\ Sound(latest)
    /\ phase = "rest" => cursor = 0

\* The newest versions at the beginning of the call, created in one second.
NewestTogether ==
    /\ newest \subseteq Existing
    /\ \A i, j \in newest : created[i] = created[j]

\* Of the newest versions those on the pages read are known.
PagesKnown ==
    phase # "rest" /\ asked = 0 => \A i \in newest : i <= cursor => Knows(latest, i)

AnswerExists == reply.kind = "version" => reply.id \in Existing

AzureInv ==
    /\ AzureTypes
    /\ NewestTogether
    /\ PagesKnown
    /\ AnswerExists
    /\ VersionIsNewest

LEMMA AzureInitInv == AzureInit => AzureInv
<1> SUFFICES ASSUME AzureInit PROVE AzureInv
  OBVIOUS
<1>1. Sound(latest)
  BY DEF AzureInit, Nothing, Sound, Bests
<1> QED
  BY <1>1 DEF AzureInit, NoReply, AzureInv, AzureTypes, NewestTogether, PagesKnown,
     AnswerExists, VersionIsNewest, Ids

LEMMA NothingSound == Sound(Nothing)
  BY DEF Nothing, Sound, Bests

\* A call that ends with an error, or with a value, says nothing of versions.
LEMMA FinishInv ==
    ASSUME AzureInv, NEW r, r.kind # "version", Finish(r), UNCHANGED service
    PROVE  AzureInv'
<1>1. UNCHANGED <<created, newest>> /\ Existing' = Existing
  BY DEF Finish, service, Existing
<1>2. latest' = Nothing /\ cursor' = 0 /\ phase' = "rest" /\ asked' = 0 /\ reply' = r
  BY DEF Finish
<1>3. Sound(latest)'
  BY <1>1, <1>2, NothingSound DEF Sound
<1> QED
  BY <1>1, <1>2, <1>3
     DEF AzureInv, AzureTypes, NewestTogether, PagesKnown, AnswerExists, VersionIsNewest

\* A step of the token command tells nothing of versions.
LEMMA CommandInv ==
    ASSUME AzureInv, UNCHANGED <<service, asked, cursor, latest, reply, newest>>,
           phase # "rest", phase' \in {"token", "get"}
    PROVE  AzureInv'
<1>1. UNCHANGED created /\ Existing' = Existing
  BY DEF service, Existing
<1> QED
  BY <1>1 DEF AzureInv, AzureTypes, NewestTogether, PagesKnown, AnswerExists,
     VersionIsNewest, Sound, Knows

\* A call begins with no page read.
LEMMA BeginInv ==
    ASSUME AzureInv, GetVersion \/ GetValue
    PROVE  AzureInv'
<1> DEFINE Others == UNCHANGED <<created, cursor, latest>> /\ Existing' = Existing
<1>1. /\ Others /\ cursor = 0 /\ phase' = "token" /\ reply' = NoReply
      /\ asked' \in 0..MaxId
      /\ \/ newest' = NewestOnes
         \/ newest' = {}
  BY DEF GetVersion, GetValue, Begin, service, Existing, Ids, AzureInv, AzureTypes
<1>2. AzureTypes'
  BY <1>1 DEF AzureInv, AzureTypes, Sound
<1>3. NewestTogether'
  <2>1. \A i, j \in NewestOnes : created[i] <= created[j] /\ created[j] <= created[i]
    BY DEF NewestOnes
  <2>2. \A i \in Existing : created[i] \in Nat
    BY DEF AzureInv, AzureTypes, Existing
  <2>3. NewestOnes \subseteq Existing
    BY DEF NewestOnes
  <2>4. \A i, j \in NewestOnes : created[i] = created[j]
    BY <2>1, <2>2, <2>3
  <2> QED
    BY <1>1, <2>3, <2>4 DEF NewestTogether
<1>4. PagesKnown'
  <2>1. newest' \subseteq Ids
    BY <1>1 DEF NewestOnes, Existing
  <2> QED
    BY <1>1, <2>1 DEF PagesKnown, Ids
<1>5. AnswerExists' /\ VersionIsNewest'
  BY <1>1 DEF AnswerExists, VersionIsNewest, NoReply
<1> QED
  BY <1>2, <1>3, <1>4, <1>5 DEF AzureInv

\* The token command and its thread.
LEMMA TokenInv ==
    ASSUME AzureInv,
           Spawn \/ ChildEnds \/ OutputRead \/ DeadlinePasses \/ TokenTaken \/ NoToken
    PROVE  AzureInv'
<1>1. CASE Spawn \/ NoToken
  <2>1. Error.kind # "version"
    BY DEF Error
  <2>2. CASE Finish(Error)
    BY <1>1, <2>1, <2>2, FinishInv DEF Spawn, NoToken
  <2>3. CASE Spawn /\ ~Finish(Error)
    BY <2>3, CommandInv DEF Spawn
  <2> QED
    BY <1>1, <2>2, <2>3 DEF NoToken
<1>2. CASE ChildEnds \/ OutputRead \/ DeadlinePasses
  <2>1. UNCHANGED <<service, asked, cursor, latest, reply, newest, phase>>
    BY <1>2 DEF ChildEnds, OutputRead, DeadlinePasses
  <2>2. UNCHANGED created /\ Existing' = Existing
    BY <2>1 DEF service, Existing
  <2> QED
    BY <2>1, <2>2 DEF AzureInv, AzureTypes, NewestTogether, PagesKnown, AnswerExists,
       VersionIsNewest, Sound, Knows
<1>3. CASE TokenTaken
  BY <1>3, CommandInv DEF TokenTaken
<1> QED
  BY <1>1, <1>2, <1>3

\* One page: the next is asked for, or the call ends with the newest version or
\* with none.
LEMMA ReadPageInv == ASSUME AzureInv, ReadPage PROVE AzureInv'
<1>1. Page \in SUBSET Existing
  BY DEF Page
<1>2. /\ Sound(Taken(Page))
      /\ \A x \in Existing : x \in Page \/ Knows(latest, x) => Knows(Taken(Page), x)
  BY <1>1, TakenKnows DEF AzureInv, AzureTypes
<1>3. UNCHANGED <<created, newest>> /\ Existing' = Existing /\ phase # "rest" /\ asked = 0
  BY DEF ReadPage, service, Existing, Finish
<1>4. newest \subseteq Existing /\ \A i \in newest : i <= cursor => Knows(latest, i)
  BY <1>3 DEF AzureInv, NewestTogether, PagesKnown
<1>5. ASSUME phase' = "token", latest' = Taken(Page), UNCHANGED <<asked, reply>>,
             cursor' \in Existing, \A i \in Existing : i <= cursor' => i <= cursor \/ i \in Page
      PROVE  AzureInv'
  <2>1. Sound(latest)'
    BY <1>2, <1>3, <1>5 DEF Sound
  <2>2. AzureTypes'
    BY <1>3, <1>5, <2>1 DEF AzureInv, AzureTypes, Existing, Ids
  <2>3. \A i \in newest : i <= cursor' => Knows(Taken(Page), i)
    BY <1>2, <1>4, <1>5
  <2>4. PagesKnown'
    BY <1>3, <1>5, <2>3 DEF PagesKnown, Knows
  <2> QED
    BY <1>3, <1>5, <2>2, <2>4 DEF AzureInv, NewestTogether, AnswerExists, VersionIsNewest
<1>6. CASE Finish(Error)
  BY <1>6, FinishInv DEF ReadPage, Error
<1>7. ASSUME Ended(Page), NEW r \in Answers(Taken(Page)), Finish(r), r # Error PROVE AzureInv'
  <2> DEFINE best == Taken(Page)
  <2>1. r = [kind |-> "version", id |-> best.id] /\ best.id # 0 /\ ~best.ambiguous
    BY <1>7 DEF Answers
  <2>2. best.id \in Existing
    BY <1>2, <2>1 DEF Sound
  <2>3. \A i \in newest : Knows(best, i)
    BY <1>2, <1>4, <1>7 DEF Ended
  <2>4. \A i \in newest : created[i] < created[best.id] \/ i = best.id
    <3>1. \A i \in newest : created[i] \in Nat /\ created[best.id] \in Nat
      BY <1>4, <2>2 DEF AzureInv, AzureTypes, Existing
    <3> QED
      BY <2>1, <2>3, <3>1 DEF Knows
  <2>5. \A i \in newest : created[i] < created[best.id] \/ newest = {best.id}
    <3>1. ASSUME NEW i \in newest, i = best.id, NEW j \in newest PROVE j = best.id
      <4>1. created[j] = created[best.id]
        BY <3>1 DEF AzureInv, NewestTogether
      <4>2. created[best.id] \in Nat
        BY <2>2 DEF AzureInv, AzureTypes, Existing
      <4> QED
        BY <2>4, <3>1, <4>1, <4>2
    <3> QED
      BY <2>4, <3>1
  <2>6. reply' = r /\ phase' = "rest" /\ cursor' = 0 /\ asked' = 0 /\ latest' = Nothing
    BY <1>7 DEF Finish
  <2>7. reply'.id = best.id
    BY <2>1, <2>6
  <2>8. Sound(latest)'
    BY <1>3, <2>6, NothingSound DEF Sound
  <2> HIDE DEF best
  <2>9. AzureTypes' /\ PagesKnown' /\ NewestTogether'
    BY <1>3, <2>6, <2>8 DEF AzureInv, AzureTypes, NewestTogether, PagesKnown
  <2>10. AnswerExists' /\ VersionIsNewest'
    BY <1>3, <2>2, <2>5, <2>7 DEF AnswerExists, VersionIsNewest
  <2> QED
    BY <2>9, <2>10 DEF AzureInv
<1> QED
  BY <1>5, <1>6, <1>7 DEF ReadPage

\* The vault changes: what exists keeps its date.
LEMMA VaultInv == ASSUME AzureInv, AddVersion \/ SwitchVersion PROVE AzureInv'
<1>1. /\ created' \in [Ids -> Nat] /\ Existing \subseteq Existing'
      /\ \A i \in Existing : created'[i] = created[i]
      /\ UNCHANGED <<phase, asked, cursor, latest, reply, newest>>
  <2>1. CASE AddVersion
    <3>1. PICK i \in Ids \ Existing, now \in 1..MaxSecond :
              created' = [created EXCEPT ![i] = now]
      BY <2>1 DEF AddVersion
    <3>2. created \in [Ids -> Nat]
      BY DEF AzureInv, AzureTypes
    <3>3. \A j \in Existing : created'[j] = created[j]
      BY <3>1, <3>2 DEF Existing
    <3> QED
      BY <2>1, <3>1, <3>2, <3>3 DEF AddVersion, Existing
  <2>2. CASE SwitchVersion
    BY <2>2 DEF SwitchVersion, Existing, AzureInv, AzureTypes
  <2> QED
    BY <2>1, <2>2
<1>2. AzureTypes'
  BY <1>1 DEF AzureInv, AzureTypes, Sound
<1>3. NewestTogether'
  BY <1>1 DEF AzureInv, NewestTogether
<1>4. PagesKnown'
  BY <1>1 DEF AzureInv, NewestTogether, PagesKnown, Knows
<1>5. AnswerExists' /\ VersionIsNewest'
  BY <1>1 DEF AzureInv, NewestTogether, AnswerExists, VersionIsNewest
<1> QED
  BY <1>2, <1>3, <1>4, <1>5 DEF AzureInv

LEMMA AzureNextInv == AzureInv /\ [AzureNext]_azureVars => AzureInv'
<1> SUFFICES ASSUME AzureInv, [AzureNext]_azureVars PROVE AzureInv'
  OBVIOUS
<1>1. CASE ReadValue \/ RequestFails
  <2>1. PICK r : Finish(r) /\ r.kind # "version" /\ UNCHANGED service
    BY <1>1 DEF ReadValue, RequestFails, Error
  <2> QED
    BY <2>1, FinishInv
<1>2. CASE UNCHANGED azureVars
  <2>1. UNCHANGED <<created, phase, asked, cursor, latest, reply, newest>>
    BY <1>2 DEF azureVars, service
  <2>2. Existing' = Existing
    BY <2>1 DEF Existing
  <2> QED
    BY <2>1, <2>2 DEF AzureInv, AzureTypes, NewestTogether, PagesKnown, AnswerExists,
       VersionIsNewest, Sound, Knows
<1> QED
  BY <1>1, <1>2, BeginInv, TokenInv, ReadPageInv, VaultInv DEF AzureNext

\* For any number of versions and pages, whatever is added, enabled or disabled
\* while the pages are read and wherever their links lead: get_version answers with
\* a version that was not superseded when it began, or with none.
THEOREM AnswerIsNewest == AzureSpec => []VersionIsNewest
<1>1. AzureInv => VersionIsNewest
  BY DEF AzureInv
<1> QED
  BY <1>1, AzureInitInv, AzureNextInv, PTL DEF AzureSpec

-----------------------------------------------------------------------------
(* A key is set in a file.                                                 *)

Lines == Settings([as : {"found"} \cup Styles, of : Values]) \cup {Other}

\* The file is a text of lines; no secret was written before there was one.
TextInv ==
    /\ style \in {"none"} \cup Styles
    /\ lines \in Seq(Lines)
    /\ style = "none" => ~written.done

\* A new line is a setting of its key, and so is the line that takes the place of one.
LEMMA NewLineFits ==
    ASSUME style \in Styles, NEW key \in Keys, NEW value \in Values
    PROVE  /\ Setting(key, value, "equals") \in Lines
           /\ Candidate(Setting(key, value, "equals")) = key
           /\ Setting(key, value, "equals").value = Encoded(value)
  BY DEF Setting, Settings, Lines, Candidate, Encoded, Styles

LEMMA ReplacedLineFits ==
    ASSUME style \in Styles, NEW key \in Keys, NEW value \in Values,
           NEW line, Candidate(line) = key
    PROVE  /\ Setting(key, value, FormOf(line)) \in Lines
           /\ Candidate(Setting(key, value, FormOf(line))) = key
           /\ Setting(key, value, FormOf(line)).value = Encoded(value)
<1>1. FormOf(line) \in {"export", "equals"}
  BY DEF FormOf
<1>2. FormOf(line) = "export" => style = "dotenv" \/ key = "export"
  BY DEF FormOf, Candidate, Styles
<1> QED
  BY <1>1, <1>2 DEF Setting, Settings, Lines, Candidate, Encoded, Styles

\* What render_key_value does to a file it accepts: one line is a new setting of the
\* key, in the place of the only one there was or in a new place, and that is all.
OneLine(key, value, i) ==
    /\ i \in 1..Len(lines')
    /\ Len(lines') \in Nat /\ Len(lines) \in Nat
    /\ DOMAIN lines' = 1..Len(lines') /\ DOMAIN lines = 1..Len(lines)
    /\ DOMAIN lines' = DOMAIN lines \cup {i}
    /\ Candidate(lines'[i]) = key /\ lines'[i].value = Encoded(value)
    /\ i \in DOMAIN lines => Candidate(lines[i]) = key
    /\ \A j \in DOMAIN lines \ {i} : Candidate(lines[j]) # key /\ lines'[j] = lines[j]

LEMMA RenderWritesOneLine ==
    ASSUME TextInv, NEW key \in Keys, NEW value \in Values, RenderKeyValue(key, value),
           ~Refused(key, value)
    PROVE  /\ \E i \in Nat : OneLine(key, value, i)
           /\ lines' \in Seq(Lines)
<1>1. style \in Styles
  BY DEF RenderKeyValue, TextInv
<1>2. lines \in Seq(Lines) /\ Len(lines) \in Nat /\ DOMAIN lines = 1..Len(lines)
  BY DEF TextInv
<1>3. ASSUME NEW i \in Matches(key), Matches(key) = {i},
             lines' = [lines EXCEPT ![i] = Setting(key, value, FormOf(lines[i]))]
      PROVE  OneLine(key, value, i) /\ lines' \in Seq(Lines)
  <2> DEFINE new == Setting(key, value, FormOf(lines[i]))
  <2>1. i \in DOMAIN lines /\ Candidate(lines[i]) = key
    BY DEF Matches
  <2>2. new \in Lines /\ Candidate(new) = key /\ new.value = Encoded(value)
    BY <1>1, <2>1, ReplacedLineFits
  <2>3. lines' = [lines EXCEPT ![i] = new]
    BY <1>3
  <2> HIDE DEF new
  <2>4. /\ lines' \in Seq(Lines) /\ Len(lines') = Len(lines)
        /\ lines'[i] = new /\ \A j \in DOMAIN lines \ {i} : lines'[j] = lines[j]
    BY <1>2, <2>1, <2>2, <2>3
  <2>5. \A j \in DOMAIN lines \ {i} : Candidate(lines[j]) # key
    BY <1>3 DEF Matches
  <2>6. DOMAIN lines' = 1..Len(lines')
    BY <2>4
  <2> QED
    BY <1>2, <2>1, <2>2, <2>4, <2>5, <2>6 DEF OneLine
<1>4. ASSUME Matches(key) = {}, lines' = Append(lines, Setting(key, value, "equals"))
      PROVE  /\ OneLine(key, value, Len(lines) + 1)
             /\ lines' \in Seq(Lines)
  <2> DEFINE new == Setting(key, value, "equals")
  <2>1. new \in Lines /\ Candidate(new) = key /\ new.value = Encoded(value)
    BY <1>1, NewLineFits
  <2>2. lines' = Append(lines, new)
    BY <1>4
  <2> HIDE DEF new
  <2>3. /\ lines' \in Seq(Lines) /\ Len(lines') = Len(lines) + 1
        /\ lines'[Len(lines) + 1] = new /\ \A j \in DOMAIN lines : lines'[j] = lines[j]
    BY <1>2, <2>1, <2>2
  <2>4. \A j \in DOMAIN lines : Candidate(lines[j]) # key
    BY <1>4 DEF Matches
  <2>5. DOMAIN lines' = 1..Len(lines')
    BY <2>3
  <2>6. DOMAIN lines' = DOMAIN lines \cup {Len(lines) + 1} /\ Len(lines) + 1 \notin DOMAIN lines
    BY <1>2, <2>3, <2>5
  <2> QED
    BY <1>2, <2>1, <2>3, <2>4, <2>5, <2>6 DEF OneLine
<1> QED
  <2>1. Replace(key, value) \/ AppendNew(key, value)
    BY DEF RenderKeyValue
  <2>2. CASE Replace(key, value)
    <3>1. PICK i \in Matches(key) :
              /\ Matches(key) = {i}
              /\ lines' = [lines EXCEPT ![i] = Setting(key, value, FormOf(lines[i]))]
      BY <2>2 DEF Replace
    <3>2. i \in Nat
      BY <1>2 DEF Matches
    <3> QED
      BY <1>3, <3>1, <3>2
  <2>3. CASE AppendNew(key, value)
    <3>1. Len(lines) + 1 \in Nat
      BY <1>2
    <3> QED
      BY <1>4, <2>3, <3>1 DEF AppendNew, Appended
  <2> QED
    BY <2>1, <2>2, <2>3

\* In a whole text every line begins a setting.
LEMMA WholeBegins ==
    ASSUME NEW text, NEW n \in Nat, DOMAIN text = 1..n, Whole(text), NEW i \in DOMAIN text
    PROVE  Begins(text, i)
<1>1. i = 1 \/ i - 1 \in DOMAIN text
  OBVIOUS
<1> QED
  BY <1>1 DEF Whole, Begins

\* The lines without the key are as they were, and where they were.
LEMMA OneLineForeign ==
    ASSUME NEW key, NEW value, NEW i \in Nat, OneLine(key, value, i)
    PROVE  /\ {j \in DOMAIN lines' : Candidate(lines'[j]) # key}
                = {j \in DOMAIN lines : Candidate(lines[j]) # key}
           /\ \A j \in DOMAIN lines : Candidate(lines[j]) # key => lines'[j] = lines[j]
<1>1. ASSUME NEW j \in DOMAIN lines, Candidate(lines[j]) # key
      PROVE  j \in DOMAIN lines' /\ lines'[j] = lines[j] /\ Candidate(lines'[j]) # key
  <2>1. j # i /\ j \in DOMAIN lines'
    BY <1>1 DEF OneLine
  <2>2. lines'[j] = lines[j]
    BY <2>1 DEF OneLine
  <2> QED
    BY <1>1, <2>1, <2>2
<1>2. ASSUME NEW j \in DOMAIN lines', Candidate(lines'[j]) # key
      PROVE  j \in DOMAIN lines /\ Candidate(lines[j]) # key
  <2>1. j \in DOMAIN lines \ {i}
    BY <1>2 DEF OneLine
  <2> QED
    BY <2>1 DEF OneLine
<1> QED
  BY <1>1, <1>2

\* The lines that set a key, in a whole text.
Settled(text, key) == {j \in DOMAIN text : Candidate(text[j]) = key}

LEMMA WholeLine ==
    ASSUME NEW text, NEW n \in Nat, DOMAIN text = 1..n, Whole(text), NEW key
    PROVE  LineOf(text, key) =
             {text[j] : j \in {h \in Settled(text, key) :
                                        \A k \in Settled(text, key) : k <= h}}
<1>1. {j \in DOMAIN text : Begins(text, j) /\ Candidate(text[j]) = key} = Settled(text, key)
  BY WholeBegins DEF Settled
<1> QED
  BY <1>1 DEF LineOf

\* The key has one line.
LEMMA OneLineHolds ==
    ASSUME NEW key, NEW value, NEW i \in Nat, OneLine(key, value, i)
    PROVE  /\ i \in DOMAIN lines' /\ lines'[i].value = Encoded(value)
           /\ {j \in DOMAIN lines' : Candidate(lines'[j]) = key} = {i}
<1>1. /\ i \in DOMAIN lines' /\ Candidate(lines'[i]) = key
      /\ lines'[i].value = Encoded(value)
  BY DEF OneLine
<1>2. \A j \in DOMAIN lines' : j # i => Candidate(lines'[j]) # key
  BY DEF OneLine
<1> QED
  BY <1>1, <1>2

\* In a whole text the program finds every other key set as before.
LEMMA OneLineOthers ==
    ASSUME NEW key, NEW value, NEW i \in Nat, OneLine(key, value, i),
           Whole(lines), Whole(lines')
    PROVE  \A other : other # key => LineOf(lines', other) = LineOf(lines, other)
<1>1. /\ Len(lines) \in Nat /\ DOMAIN lines = 1..Len(lines)
      /\ Len(lines') \in Nat /\ DOMAIN lines' = 1..Len(lines')
  BY DEF OneLine
<1>2. ASSUME NEW other, other # key PROVE LineOf(lines', other) = LineOf(lines, other)
  <2>1. Settled(lines', other) = Settled(lines, other)
    <3>1. \A j \in DOMAIN lines' : j \in Settled(lines', other) => j \in Settled(lines, other)
      <4> SUFFICES ASSUME NEW j \in DOMAIN lines', Candidate(lines'[j]) = other
                   PROVE  j \in DOMAIN lines /\ Candidate(lines[j]) = other
        BY DEF Settled
      <4>1. j \in DOMAIN lines \ {i}
        BY <1>2 DEF OneLine
      <4> QED
        BY <4>1 DEF OneLine
    <3>2. \A j \in DOMAIN lines : j \in Settled(lines, other) => j \in Settled(lines', other)
      <4> SUFFICES ASSUME NEW j \in DOMAIN lines, Candidate(lines[j]) = other
                   PROVE  j \in DOMAIN lines' /\ Candidate(lines'[j]) = other
        BY DEF Settled
      <4>1. j \in DOMAIN lines \ {i}
        BY <1>2 DEF OneLine
      <4> QED
        BY <4>1 DEF OneLine
    <3> QED
      BY <3>1, <3>2 DEF Settled
  <2>2. \A j \in Settled(lines, other) : lines'[j] = lines[j]
    <3> SUFFICES ASSUME NEW j \in DOMAIN lines, Candidate(lines[j]) = other
                 PROVE  lines'[j] = lines[j]
      BY DEF Settled
    <3>1. j \in DOMAIN lines \ {i}
      BY <1>2 DEF OneLine
    <3> QED
      BY <3>1 DEF OneLine
  <2> DEFINE last == {h \in Settled(lines, other) : \A k \in Settled(lines, other) : k <= h}
  <2>3. LineOf(lines', other) = {lines'[j] : j \in last}
    BY <1>1, <2>1, WholeLine
  <2>4. LineOf(lines, other) = {lines[j] : j \in last}
    BY <1>1, WholeLine
  <2> QED
    BY <2>2, <2>3, <2>4
<1> QED
  BY <1>2

LEMMA TextInitInv == TextInit => TextInv
<1> SUFFICES ASSUME TextInit PROVE TextInv
  OBVIOUS
<1>1. lines = <<>> /\ style = "none" /\ ~written.done
  BY DEF TextInit, Nobody
<1>2. lines \in Seq(Lines)
  BY <1>1
<1> QED
  BY <1>1, <1>2 DEF TextInv

LEMMA ChosenFile == TextInv /\ ChooseFile => TextInv' /\ written' = written
<1> SUFFICES ASSUME TextInv, ChooseFile PROVE TextInv' /\ written' = written
  OBVIOUS
<1>1. PICK n \in 0..MaxLines :
          lines' \in [1..n -> Settings({Found(v) : v \in Values \ Unfit}) \cup {Other}]
  BY DEF ChooseFile
<1>2. n \in Nat
  BY <1>1, LinesAssumption
<1>3. lines' \in Seq(Lines)
  <2>1. Settings({Found(v) : v \in Values \ Unfit}) \cup {Other} \subseteq Lines
    BY DEF Settings, Lines, Found
  <2> DEFINE any == Settings({Found(v) : v \in Values \ Unfit}) \cup {Other}
  <2>2. lines' \in [1..n -> any] /\ any \subseteq Lines
    BY <1>1, <2>1
  <2> HIDE DEF any
  <2>3. lines' \in [1..n -> Lines]
    BY <2>2
  <2> QED
    BY <1>2, <2>3
<1>4. style' \in {"none"} \cup Styles /\ style' # "none" /\ written' = written
  BY DEF ChooseFile, Styles
<1> QED
  BY <1>3, <1>4 DEF TextInv

LEMMA RenderInv ==
    ASSUME TextInv, NEW key \in Keys, NEW value \in Values, RenderKeyValue(key, value)
    PROVE  TextInv'
<1>1. style' = style /\ style # "none" /\ style \in {"none"} \cup Styles
  BY DEF RenderKeyValue, TextInv
<1>2. lines' \in Seq(Lines)
  <2>1. CASE Refused(key, value)
    BY <2>1 DEF RenderKeyValue, TextInv
  <2>2. CASE ~Refused(key, value)
    BY <2>2, RenderWritesOneLine
  <2> QED
    BY <2>1, <2>2
<1> QED
  BY <1>1, <1>2 DEF TextInv

LEMMA TextNextInv == TextInv /\ [TextNext]_textVars => TextInv'
<1> SUFFICES ASSUME TextInv, [TextNext]_textVars PROVE TextInv'
  OBVIOUS
<1>1. CASE UNCHANGED textVars
  BY <1>1 DEF textVars, TextInv
<1> QED
  BY <1>1, ChosenFile, RenderInv DEF TextNext

\* Whatever the file holds and in whatever order its keys are set, as often as one
\* likes: an accepted secret leaves every line without its key as it was and where it
\* was, its key has one line then, which holds the secret, and when no value of the
\* file goes on in the next line, the program finds every other key set as before.  A
\* refused secret changes nothing.
THEOREM OthersStay == TextSpec => OthersAreKept
<1> DEFINE key == written'.key
           Foreign(text) ==
               {<<i, text[i]>> : i \in {j \in DOMAIN text : Candidate(text[j]) # key}}
           Holding == {i \in DOMAIN lines' : Candidate(lines'[i]) = key}
           Kept == IF written'.done
                   THEN /\ Foreign(lines') = Foreign(lines)
                        /\ \E i \in DOMAIN lines' :
                              Holding = {i} /\ lines'[i].value = Encoded(written'.value)
                        /\ Whole(lines) /\ Whole(lines') =>
                             \A other \in Keys \ {key} :
                                LineOf(lines', other) = LineOf(lines, other)
                   ELSE style # "none" => lines' = lines
<1>1. TextInv /\ [TextNext]_textVars => [Kept]_<<lines, written>>
  <2> SUFFICES ASSUME TextInv, TextNext PROVE Kept
    BY DEF textVars
  <2>1. CASE ChooseFile
    <3>1. style = "none" /\ ~written'.done
      BY <2>1, ChosenFile DEF ChooseFile, TextInv
    <3> QED
      BY <3>1
  <2>2. ASSUME NEW k \in Keys, NEW value \in Values, RenderKeyValue(k, value)
        PROVE  Kept
    <3>1. written'.key = k /\ written'.value = value /\ written'.done = ~Refused(k, value)
      BY <2>2 DEF RenderKeyValue
    <3>2. CASE Refused(k, value)
      BY <2>2, <3>1, <3>2 DEF RenderKeyValue
    <3>3. CASE ~Refused(k, value)
      <4>1. PICK i \in Nat : OneLine(k, value, i)
        BY <2>2, <3>3, RenderWritesOneLine
      <4>2. Foreign(lines') = Foreign(lines)
        BY <3>1, <4>1, OneLineForeign
      <4>3. \E j \in DOMAIN lines' :
               Holding = {j} /\ lines'[j].value = Encoded(written'.value)
        BY <3>1, <4>1, OneLineHolds
      <4>4. ASSUME Whole(lines), Whole(lines')
            PROVE  \A other \in Keys \ {key} : LineOf(lines', other) = LineOf(lines, other)
        BY <3>1, <4>1, <4>4, OneLineOthers
      <4> HIDE DEF Foreign, Holding
      <4> QED
        BY <3>1, <3>3, <4>2, <4>3, <4>4
    <3> QED
      BY <3>2, <3>3
  <2> QED
    BY <2>1, <2>2 DEF TextNext
<1>2. TextSpec => []TextInv
  BY TextInitInv, TextNextInv, PTL DEF TextSpec
<1> QED
  BY <1>1, <1>2, PTL DEF TextSpec, OthersAreKept
=============================================================================
