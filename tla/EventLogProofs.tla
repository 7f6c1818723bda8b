---------------------------- MODULE EventLogProofs ----------------------------
(***************************************************************************)
(* Theorems about the event log, for any number of bindings and files, any *)
(* limit and any size of a record.                                         *)
(***************************************************************************)
EXTENDS EventLog, FiniteSetTheorems, TLAPS

USE FilesAssumption, SizesAssumption

FileType == [lines : Seq({"good", "bad"}), tail : {"empty", "good", "bad"}, size : Nat]

-----------------------------------------------------------------------------
(* Type correctness.                                                       *)

\* A file that has no name and nobody has open: there is one whenever
\* events.ndjson has to be created.
LEMMA UnusedExists ==
    ASSUME TypeOK, live = None
    PROVE  Unused \in Files
<1> DEFINE Opened == {handle[w] : w \in Writers}
<1>1. IsFiniteSet(Opened) /\ Cardinality(Opened) <= Cardinality(Writers)
  <2>1. handle \in Surjection(Writers, Opened)
    BY DEF TypeOK, Surjection
  <2> HIDE DEF Opened
  <2> QED BY <2>1, FS_Surjection
<1>2. /\ IsFiniteSet(Opened \cup {old})
      /\ Cardinality(Opened \cup {old}) <= Cardinality(Writers) + 1
  <2> HIDE DEF Opened
  <2>1. Cardinality(Opened) \in Nat /\ Cardinality(Writers) \in Nat
    BY <1>1, FS_CardinalityType
  <2>2. /\ IsFiniteSet(Opened \cup {old})
        /\ Cardinality(Opened \cup {old}) \in {Cardinality(Opened), Cardinality(Opened) + 1}
    BY <1>1, FS_AddElement
  <2> QED BY <1>1, <2>1, <2>2
<1>3. ~(Files \subseteq Opened \cup {old})
  <2> HIDE DEF Opened
  <2>1. Cardinality(Writers) \in Nat /\ Cardinality(Files) \in Nat
        /\ Cardinality(Opened \cup {old}) \in Nat
    BY <1>2, FS_CardinalityType
  <2> QED BY <1>2, <2>1, FS_Subset
<1>4. \E f \in Files : f \notin {live, old} /\ \A w \in Writers : handle[w] # f
  BY <1>3
<1> QED BY <1>4 DEF Unused

\* Changing a file's tail and size leaves it a file.
LEMMA RecordUpdate ==
    ASSUME NEW L, NEW r \in [lines : L, tail : {"empty", "good", "bad"}, size : Nat],
           NEW x \in {"empty", "good", "bad"}, NEW n \in Nat
    PROVE  [r EXCEPT !.tail = x, !.size = n]
              \in [lines : L, tail : {"empty", "good", "bad"}, size : Nat]
  OBVIOUS

LEMMA TypeNext ==
    ASSUME TypeOK, [Next]_vars
    PROVE  TypeOK'
<1>1. ASSUME NEW w \in Writers,
             Begin(w) \/ Measure(w) \/ CheckOld(w) \/ RemoveOld(w) \/ RenameLive(w)
      PROVE  TypeOK'
  BY <1>1 DEF TypeOK, Begin, Measure, CheckOld, RemoveOld, RenameLive, Goto,
              Return, Labels
<1>0. ASSUME NEW w \in Writers, MeasureFails(w) PROVE TypeOK'
  <2>1. faults' \in 0..MaxFaults /\ blind' \in 0..faults'
    BY <1>0 DEF TypeOK, MeasureFails
  <2>2. pc' \in [Writers -> Labels]
    BY <1>0 DEF TypeOK, MeasureFails, Goto, Labels
  <2> QED BY <1>0, <2>1, <2>2 DEF TypeOK, MeasureFails, Goto
<1>2. ASSUME NEW w \in Writers, Open(w) PROVE TypeOK'
  <2>1. live' \in Files
    BY <1>2, UnusedExists DEF Open, TypeOK
  <2>2. EmptyFile \in FileType
    BY DEF EmptyFile, FileType
  <2>3. file' \in [Files -> FileType]
    BY <1>2, <2>2 DEF Open, TypeOK, FileType
  <2> QED BY <1>2, <2>1, <2>3 DEF Open, Goto, TypeOK, Labels, FileType
<1>3. ASSUME NEW w \in Writers, WriteRecord(w) PROVE TypeOK'
  <2>1. handle[w] \in Files /\ file[handle[w]] \in FileType
    BY <1>3 DEF WriteRecord, Goto, TypeOK, FileType
  <2>2. WithRecord(handle[w]) \in FileType
    <3>1. file[handle[w]].size + RecordSize \in Nat
      BY <2>1 DEF FileType
    <3>2. (IF file[handle[w]].tail = "empty" THEN "good" ELSE "bad")
             \in {"empty", "good", "bad"}
      OBVIOUS
    <3> QED BY <2>1, <3>1, <3>2, RecordUpdate, Zenon DEF WithRecord, FileType
  <2>3. file' \in [Files -> FileType]
    BY <1>3, <2>2 DEF WriteRecord, TypeOK, FileType
  <2> QED BY <1>3, <2>3 DEF WriteRecord, Goto, TypeOK, Labels, FileType
<1>4. ASSUME NEW w \in Writers, WriteNewline(w) PROVE TypeOK'
  <2>1. handle[w] \in Files /\ file[handle[w]] \in FileType
    BY <1>4 DEF WriteNewline, TypeOK, FileType
  <2>2. Append(file[handle[w]].lines,
               IF file[handle[w]].tail = "good" THEN "good" ELSE "bad")
           \in Seq({"good", "bad"})
    BY <2>1 DEF FileType
  <2>3. WithNewline(handle[w]) \in FileType
    BY <2>1, <2>2 DEF WithNewline, FileType
  <2>4. file' \in [Files -> FileType]
    BY <1>4, <2>3 DEF WriteNewline, TypeOK, FileType
  <2> QED BY <1>4, <2>4 DEF WriteNewline, Return, TypeOK, Labels, FileType
<1>5. ASSUME NEW w \in Writers, Fail(w) PROVE TypeOK'
  <2>1. file' \in [Files -> FileType]
    <3>1. CASE UNCHANGED file
      BY <3>1 DEF TypeOK, FileType
    <3>2. CASE /\ pc[w] = "record"
               /\ file' = [file EXCEPT ![handle[w]] = WithPartOfRecord(handle[w])]
      <4>1. handle[w] \in Files /\ file[handle[w]] \in FileType
        BY <3>2 DEF TypeOK, FileType
      <4>2. WithPartOfRecord(handle[w]) \in FileType
        <5>1. file[handle[w]].size + 1 \in Nat
          BY <4>1 DEF FileType
        <5> QED BY <4>1, <5>1, RecordUpdate, Zenon DEF WithPartOfRecord, FileType
      <4> QED BY <3>2, <4>2 DEF TypeOK, FileType
    <3> QED BY <1>5, <3>1, <3>2 DEF Fail
  <2> QED BY <1>5, <2>1 DEF Fail, Return, TypeOK, Labels, FileType
<1>6. CASE Crash
  BY <1>6 DEF Crash, TypeOK, Labels
<1>7. CASE UNCHANGED vars
  BY <1>7 DEF vars, TypeOK
<1> QED BY <1>0, <1>1, <1>2, <1>3, <1>4, <1>5, <1>6, <1>7 DEF Next, Step

\* Every reachable state of the log is well typed; in particular a writer has a
\* file open exactly while it writes.
THEOREM LogTypeCorrect == Spec => []TypeOK
<1>1. Init => TypeOK
  BY DEF Init, TypeOK, EmptyFile, Labels
<1>2. TypeOK /\ [Next]_vars => TypeOK'
  BY TypeNext
<1> QED BY <1>1, <1>2, PTL DEF Spec

-----------------------------------------------------------------------------
(* The bound on the size.  A file's size says nothing of the writers that  *)
(* have measured already: what is inductive counts what they still owe it. *)

\* The writers that will write a record and a newline to f, and those that
\* will write a newline only.
Before(f) == {w \in Writers : \/ pc[w] = "open" /\ f = live
                              \/ pc[w] = "record" /\ handle[w] = f}
After(f)  == {w \in Writers : pc[w] = "newline" /\ handle[w] = f}

Total(s, B, A) == s + (RecordSize + 1) * Cardinality(B) + Cardinality(A)
MostSize == Limit + (Cardinality(Writers) - 1 + blind) * (RecordSize + 1)

DebtInv ==
    \A f \in {live, old} \ {None} :
        Total(file[f].size, Before(f), After(f)) <= MostSize

\* Sets of writers have cardinalities.
LEMMA WriterSets ==
    ASSUME NEW B \in SUBSET Writers
    PROVE  IsFiniteSet(B) /\ Cardinality(B) \in Nat
                          /\ Cardinality(B) <= Cardinality(Writers)
                          /\ Cardinality(Writers) \in Nat
  BY FS_Subset, FS_CardinalityType

\* The size of the log is unreadable a natural number of times.
LEMMA BlindType == TypeOK => blind \in Nat
  BY DEF TypeOK

\* With room for one record, every writer may owe one.
LEMMA Room ==
    ASSUME NEW B \in SUBSET Writers, NEW A \in SUBSET Writers, B \cap A = {},
           NEW s \in Nat, s + RecordSize + 1 <= Limit, blind \in Nat
    PROVE  Total(s, B, A) <= MostSize
<1> DEFINE k == RecordSize + 1
           b == Cardinality(B)
           a == Cardinality(A)
           n == Cardinality(Writers)
<1>1. b \in Nat /\ a \in Nat /\ n \in Nat /\ k \in Nat /\ k >= 1
  BY WriterSets
<1>2. b + a <= n
  <2>1. B \cup A \in SUBSET Writers /\ Cardinality(B \cap A) = 0
    BY FS_EmptySet
  <2>2. Cardinality(B \cup A) = b + a - 0
    BY <2>1, WriterSets, FS_Union
  <2>3. Cardinality(B \cup A) <= n
    BY <2>1, WriterSets
  <2> QED BY <1>1, <2>2, <2>3
<1>3. k * b + a <= k * n
  <2>1. k * b + k * a <= k * n
    <3>1. k * (b + a) <= k * n
      <4> HIDE DEF k, b, a, n
      <4> QED BY <1>1, <1>2
    <3> HIDE DEF k, b, a, n
    <3> QED BY <1>1, <3>1
  <2>2. a <= k * a
    <3> HIDE DEF k, b, a, n
    <3> QED BY <1>1
  <2>3. k * b \in Nat /\ k * a \in Nat /\ k * n \in Nat
    <3> HIDE DEF k, b, a, n
    <3> QED BY <1>1
  <2> HIDE DEF k, b, a, n
  <2> QED BY <1>1, <2>1, <2>2, <2>3
<1>4. (n - 1 + blind) * k = k * n - k + k * blind /\ k * blind \in Nat
  <2> HIDE DEF k, b, a, n
  <2> QED BY <1>1
<1>5. s + k <= Limit
  OBVIOUS
<1>6. k * b \in Nat /\ k * n \in Nat
  <2> HIDE DEF k, b, a, n
  <2> QED BY <1>1
<1>7. s + k * b + a <= Limit + (n - 1 + blind) * k
  <2> HIDE DEF k, b, a, n
  <2> QED BY <1>1, <1>3, <1>4, <1>5, <1>6
<1> QED BY <1>7 DEF Total, MostSize

\* Nothing grows.
LEMMA Shrinks ==
    ASSUME NEW B \in SUBSET Writers, NEW A \in SUBSET Writers,
           NEW C \in SUBSET B, NEW D \in SUBSET A,
           NEW s \in Nat, NEW r \in Nat, r <= s
    PROVE  Total(r, C, D) <= Total(s, B, A)
<1> DEFINE k == RecordSize + 1
           b == Cardinality(B)
           a == Cardinality(A)
           c == Cardinality(C)
           d == Cardinality(D)
<1>1. /\ b \in Nat /\ a \in Nat /\ c \in Nat /\ d \in Nat /\ k \in Nat
      /\ c <= b /\ d <= a
  BY WriterSets, FS_Subset
<1>2. k * c <= k * b /\ k * c \in Nat /\ k * b \in Nat
  <2> HIDE DEF k, b, a, c, d
  <2> QED BY <1>1
<1>3. r + k * c + d <= s + k * b + a
  <2> HIDE DEF k, b, a, c, d
  <2> QED BY <1>1, <1>2
<1> QED BY <1>3 DEF Total

\* A writer pays what it owed: the record and later its newline.
LEMMA Pays ==
    ASSUME NEW B \in SUBSET Writers, NEW A \in SUBSET Writers, NEW s \in Nat,
           NEW w \in Writers
    PROVE  /\ w \in B /\ w \notin A =>
                 /\ Total(s + RecordSize, B \ {w}, A \cup {w}) <= Total(s, B, A)
                 /\ Total(s + 1, B \ {w}, A) <= Total(s, B, A)
           /\ w \in A => Total(s + 1, B, A \ {w}) <= Total(s, B, A)
<1> DEFINE k == RecordSize + 1
           b == Cardinality(B)
           a == Cardinality(A)
<1>1. b \in Nat /\ a \in Nat /\ k \in Nat
  BY WriterSets
<1>2. /\ w \in B => Cardinality(B \ {w}) = b - 1
      /\ w \in A => Cardinality(A \ {w}) = a - 1
      /\ w \notin A => Cardinality(A \cup {w}) = a + 1
  BY WriterSets, FS_RemoveElement, FS_AddElement
<1>3. k * (b - 1) = k * b - k /\ k * b \in Nat
  <2> HIDE DEF k, b, a
  <2> QED BY <1>1
<1>4. k = RecordSize + 1
  OBVIOUS
<1>5. w \in B /\ w \notin A =>
         /\ (s + RecordSize) + k * (b - 1) + (a + 1) <= s + k * b + a
         /\ (s + 1) + k * (b - 1) + a <= s + k * b + a
  <2> HIDE DEF k, b, a
  <2> QED BY <1>1, <1>3, <1>4
<1>6. w \in A => (s + 1) + k * b + (a - 1) <= s + k * b + a
  <2> HIDE DEF k, b, a
  <2> QED BY <1>1, <1>3
<1> QED BY <1>2, <1>5, <1>6 DEF Total

LEMMA TotalType ==
    ASSUME NEW B \in SUBSET Writers, NEW A \in SUBSET Writers, NEW s \in Nat, blind \in Nat
    PROVE  Total(s, B, A) \in Int /\ MostSize \in Int
<1>1. /\ Cardinality(B) \in Nat /\ Cardinality(A) \in Nat
      /\ Cardinality(Writers) \in Nat
  BY WriterSets
<1>2. /\ (RecordSize + 1) * Cardinality(B) \in Int
      /\ (Cardinality(Writers) - 1 + blind) * (RecordSize + 1) \in Int
  BY <1>1
<1> QED BY <1>1, <1>2 DEF Total, MostSize

\* A named file that did not grow and that nobody new is about to write.
LEMMA Quieter ==
    ASSUME TypeOK, TypeOK', DebtInv, NEW f \in {live, old} \ {None},
           file'[f].size <= file[f].size,
           Before(f)' \subseteq Before(f), After(f)' \subseteq After(f)
    PROVE  Total(file'[f].size, Before(f)', After(f)') <= MostSize
<1>1. f \in Files
  BY DEF TypeOK
<1>2. file[f].size \in Nat /\ file'[f].size \in Nat
  BY <1>1 DEF TypeOK
<1>3. Before(f) \in SUBSET Writers /\ After(f) \in SUBSET Writers
  BY DEF Before, After
<1>4. Total(file'[f].size, Before(f)', After(f)')
         <= Total(file[f].size, Before(f), After(f))
  BY <1>2, <1>3, Shrinks
<1>5. /\ Total(file'[f].size, Before(f)', After(f)') \in Int
      /\ Total(file[f].size, Before(f), After(f)) \in Int
      /\ MostSize \in Int
  <2>1. Before(f)' \in SUBSET Writers /\ After(f)' \in SUBSET Writers
    BY <1>3
  <2> QED BY <1>2, <1>3, <2>1, BlindType, TotalType
<1> QED BY <1>4, <1>5 DEF DebtInv

\* A file that has counted as not full may have to take one record more.
LEMMA DebtBlind ==
    ASSUME TypeOK, TypeOK', DebtInv, NEW w \in Writers, MeasureFails(w),
           NEW f \in {live', old'} \ {None}
    PROVE  Total(file'[f].size, Before(f)', After(f)') <= MostSize'
<1>1. /\ f \in {live, old} \ {None} /\ f \in Files
      /\ UNCHANGED <<file, live, old, handle>> /\ pc[w] = "measure"
      /\ pc' = [pc EXCEPT ![w] = "open"] /\ blind' = blind + 1 /\ blind \in Nat
  BY DEF MeasureFails, Goto, TypeOK
<1>2. /\ Before(f) \in SUBSET Writers /\ After(f) \in SUBSET Writers
      /\ file[f].size \in Nat /\ file'[f].size = file[f].size
  BY <1>1 DEF TypeOK, Before, After
<1>3. Before(f)' \subseteq Before(f) \cup {w} /\ After(f)' = After(f)
  BY <1>1 DEF Before, After, TypeOK
<1>4. /\ Cardinality(Before(f)) \in Nat /\ Cardinality(After(f)) \in Nat
      /\ Cardinality(Before(f)') \in Nat
      /\ Cardinality(Before(f)') <= Cardinality(Before(f)) + 1
  <2>1. /\ IsFiniteSet(Before(f) \cup {w})
        /\ Cardinality(Before(f) \cup {w}) \in {Cardinality(Before(f)), Cardinality(Before(f)) + 1}
    BY <1>2, WriterSets, FS_AddElement
  <2> QED BY <1>2, <1>3, <2>1, WriterSets, FS_Subset, FS_CardinalityType
<1>5. Total(file[f].size, Before(f), After(f)) <= MostSize
  BY <1>1 DEF DebtInv
<1> DEFINE k == RecordSize + 1
           b == Cardinality(Before(f))
           c == Cardinality(Before(f)')
           a == Cardinality(After(f))
           n == Cardinality(Writers)
           s == file[f].size
<1>6. k \in Nat /\ n \in Nat /\ s \in Nat
  BY <1>2, WriterSets
<1>7. s + k * b + a <= Limit + (n - 1 + blind) * k
  BY <1>5 DEF Total, MostSize
<1>8. s + k * c + a <= Limit + (n - 1 + (blind + 1)) * k
  <2>1. a \in Nat /\ b \in Nat /\ c \in Nat /\ c <= b + 1 /\ blind \in Nat
    BY <1>1, <1>4
  <2> HIDE DEF k, b, c, a, n, s
  <2>2. k * c <= k * (b + 1)
    BY <1>6, <2>1
  <2>3. k * (b + 1) = k * b + k /\ k * b \in Nat /\ k * c \in Nat
    BY <1>6, <2>1
  <2>4. /\ (n - 1 + (blind + 1)) * k = (n - 1 + blind) * k + k
        /\ (n - 1 + blind) * k \in Int
    BY <1>6, <2>1
  <2> QED BY <1>6, <1>7, <2>1, <2>2, <2>3, <2>4
<1>9. MostSize' = Limit + (n - 1 + (blind + 1)) * k
  BY <1>1 DEF MostSize
<1>10. Total(file'[f].size, Before(f)', After(f)') = s + k * c + a
  BY <1>2, <1>3 DEF Total
<1> QED BY <1>8, <1>9, <1>10

LEMMA DebtMeasure ==
    ASSUME TypeOK, TypeOK', DebtInv, NEW w \in Writers, Measure(w),
           NEW f \in {live', old'} \ {None}
    PROVE  Total(file'[f].size, Before(f)', After(f)') <= MostSize
<1>1. /\ f \in {live, old} \ {None} /\ f \in Files
      /\ UNCHANGED <<file, live, old, handle>> /\ pc[w] = "measure"
      /\ pc' = [pc EXCEPT ![w] = IF live # None /\ Full(live) THEN "checkOld" ELSE "open"]
  BY DEF Measure, Goto, TypeOK
<1>2. file[f].size \in Nat /\ file'[f].size = file[f].size
  BY <1>1 DEF TypeOK
<1>3. CASE f = live /\ ~Full(live)
  <2>1. file'[f].size + RecordSize + 1 <= Limit
    BY <1>1, <1>2, <1>3 DEF Full
  <2>2. /\ Before(f)' \in SUBSET Writers /\ After(f)' \in SUBSET Writers
        /\ Before(f)' \cap After(f)' = {}
    BY DEF Before, After
  <2> QED BY <1>2, <2>1, <2>2, BlindType, Room
<1>4. CASE ~(f = live /\ ~Full(live))
  <2>1. Before(f)' \subseteq Before(f) /\ After(f)' \subseteq After(f)
    BY <1>1, <1>4 DEF Before, After, TypeOK
  <2> QED BY <1>1, <1>2, <2>1, Quieter
<1> QED BY <1>3, <1>4

LEMMA DebtOpen ==
    ASSUME TypeOK, TypeOK', DebtInv, NEW w \in Writers, Open(w),
           NEW f \in {live', old'} \ {None}
    PROVE  Total(file'[f].size, Before(f)', After(f)') <= MostSize
<1>1. /\ pc[w] = "open" /\ pc' = [pc EXCEPT ![w] = "record"]
      /\ handle' = [handle EXCEPT ![w] = live'] /\ UNCHANGED old
  BY DEF Open, Goto
<1>2. f \in Files
  BY DEF TypeOK
<1>3. CASE live # None
  <2>1. UNCHANGED <<file, live>>
    BY <1>3 DEF Open
  <2>2. Before(f)' \subseteq Before(f) /\ After(f)' \subseteq After(f)
    BY <1>1, <2>1 DEF Before, After, TypeOK
  <2>3. f \in {live, old} \ {None} /\ file'[f].size <= file[f].size
    BY <1>1, <1>2, <2>1 DEF TypeOK
  <2> QED BY <2>2, <2>3, Quieter
<1>4. CASE live = None
  <2>1. live' = Unused /\ file' = [file EXCEPT ![Unused] = EmptyFile]
    BY <1>4 DEF Open
  <2>2. CASE f = Unused
    <3>1. file'[f].size = 0
      BY <1>2, <2>1, <2>2 DEF TypeOK, EmptyFile
    <3>2. 0 + RecordSize + 1 <= Limit
      OBVIOUS
    <3>3. /\ Before(f)' \in SUBSET Writers /\ After(f)' \in SUBSET Writers
          /\ Before(f)' \cap After(f)' = {}
      BY DEF Before, After
    <3> QED BY <3>1, <3>2, <3>3, BlindType, Room
  <2>3. CASE f # Unused
    <3>1. f \in {live, old} \ {None} /\ file'[f].size <= file[f].size
      BY <1>1, <1>2, <2>1, <2>3 DEF TypeOK
    <3>2. Before(f)' \subseteq Before(f) /\ After(f)' \subseteq After(f)
      BY <1>1, <2>1, <2>3 DEF Before, After, TypeOK
    <3> QED BY <3>1, <3>2, Quieter
  <2> QED BY <2>2, <2>3
<1> QED BY <1>3, <1>4

\* A writer that writes to f pays; no other file is touched.
LEMMA DebtWrite ==
    ASSUME TypeOK, TypeOK', DebtInv, NEW w \in Writers,
           \/ WriteRecord(w) \/ WriteNewline(w)
           \/ /\ Fail(w) /\ pc[w] = "record"
              /\ file' = [file EXCEPT ![handle[w]] = WithPartOfRecord(handle[w])],
           NEW f \in {live', old'} \ {None}
    PROVE  Total(file'[f].size, Before(f)', After(f)') <= MostSize
<1>1. /\ f \in {live, old} \ {None} /\ f \in Files /\ UNCHANGED <<live, old>>
      /\ handle[w] \in Files /\ file[f].size \in Nat
  BY DEF WriteRecord, WriteNewline, Fail, Goto, TypeOK
<1>2. /\ Before(f) \in SUBSET Writers /\ After(f) \in SUBSET Writers
      /\ Total(file[f].size, Before(f), After(f)) <= MostSize
  BY <1>1 DEF Before, After, DebtInv
<1>3. CASE f # handle[w]
  <2>1. /\ Before(f)' \subseteq Before(f) /\ After(f)' \subseteq After(f)
        /\ file'[f] = file[f]
    BY <1>1, <1>3 DEF WriteRecord, WriteNewline, Fail, Goto, Return, Before,
                      After, TypeOK
  <2>2. file'[f].size <= file[f].size
    BY <1>1, <2>1
  <2> QED BY <1>1, <2>1, <2>2, Quieter
<1>4. CASE f = handle[w] /\ WriteRecord(w)
  <2>1. file'[f].size = file[f].size + RecordSize
    BY <1>1, <1>4 DEF WriteRecord, WithRecord, TypeOK
  <2>2. /\ w \in Before(f) /\ w \notin After(f)
        /\ Before(f)' = Before(f) \ {w} /\ After(f)' = After(f) \cup {w}
    BY <1>1, <1>4 DEF WriteRecord, Goto, Before, After, TypeOK
  <2>3. Total(file'[f].size, Before(f)', After(f)')
           <= Total(file[f].size, Before(f), After(f))
    BY <1>1, <1>2, <2>1, <2>2, Pays
  <2>4. /\ Total(file'[f].size, Before(f)', After(f)') \in Int
        /\ Total(file[f].size, Before(f), After(f)) \in Int
        /\ MostSize \in Int
    BY <1>1, <1>2, <2>1, <2>2, BlindType, TotalType
  <2> QED BY <1>2, <2>3, <2>4
<1>5. CASE f = handle[w] /\ WriteNewline(w)
  <2>1. file'[f].size = file[f].size + 1
    BY <1>1, <1>5 DEF WriteNewline, WithNewline, TypeOK
  <2>2. w \in After(f) /\ Before(f)' = Before(f) /\ After(f)' = After(f) \ {w}
    BY <1>1, <1>5 DEF WriteNewline, Return, Before, After, TypeOK
  <2>3. Total(file'[f].size, Before(f)', After(f)')
           <= Total(file[f].size, Before(f), After(f))
    BY <1>1, <1>2, <2>1, <2>2, Pays
  <2>4. /\ Total(file'[f].size, Before(f)', After(f)') \in Int
        /\ Total(file[f].size, Before(f), After(f)) \in Int
        /\ MostSize \in Int
    BY <1>1, <1>2, <2>1, <2>2, BlindType, TotalType
  <2> QED BY <1>2, <2>3, <2>4
<1>6. CASE /\ f = handle[w] /\ Fail(w) /\ pc[w] = "record"
           /\ file' = [file EXCEPT ![handle[w]] = WithPartOfRecord(handle[w])]
  <2>1. file'[f].size = file[f].size + 1
    BY <1>1, <1>6 DEF WithPartOfRecord, TypeOK
  <2>2. /\ w \in Before(f) /\ w \notin After(f)
        /\ Before(f)' = Before(f) \ {w} /\ After(f)' = After(f)
    BY <1>1, <1>6 DEF Fail, Return, Before, After, TypeOK
  <2>3. Total(file'[f].size, Before(f)', After(f)')
           <= Total(file[f].size, Before(f), After(f))
    BY <1>1, <1>2, <2>1, <2>2, Pays
  <2>4. /\ Total(file'[f].size, Before(f)', After(f)') \in Int
        /\ Total(file[f].size, Before(f), After(f)) \in Int
        /\ MostSize \in Int
    BY <1>1, <1>2, <2>1, <2>2, BlindType, TotalType
  <2> QED BY <1>2, <2>3, <2>4
<1> QED BY <1>3, <1>4, <1>5, <1>6

LEMMA DebtNext ==
    ASSUME TypeOK, TypeOK', DebtInv, [Next]_vars
    PROVE  DebtInv'
<1>0. CASE \E w \in Writers : MeasureFails(w)
  BY <1>0, DebtBlind DEF DebtInv
<1> SUFFICES ASSUME ~(\E w \in Writers : MeasureFails(w)) PROVE DebtInv'
  BY <1>0
<1>7. blind' = blind
  BY DEF Next, Step, vars, Begin, Measure, CheckOld, RemoveOld, RenameLive, Open,
         WriteRecord, WriteNewline, Fail, Crash
<1>8. MostSize' = MostSize
  BY <1>7 DEF MostSize
<1> SUFFICES ASSUME NEW f \in {live', old'} \ {None}
             PROVE  Total(file'[f].size, Before(f)', After(f)') <= MostSize
  BY <1>8 DEF DebtInv
<1>1. ASSUME f \in {live, old} \ {None}, UNCHANGED file,
             Before(f)' \subseteq Before(f), After(f)' \subseteq After(f)
      PROVE  Total(file'[f].size, Before(f)', After(f)') <= MostSize
  <2>1. file'[f].size <= file[f].size
    BY <1>1 DEF TypeOK
  <2> QED BY <1>1, <2>1, Quieter
<1>2. ASSUME NEW w \in Writers,
             Begin(w) \/ CheckOld(w) \/ RemoveOld(w) \/ RenameLive(w)
      PROVE  Total(file'[f].size, Before(f)', After(f)') <= MostSize
  <2>1. f \in {live, old} \ {None} /\ UNCHANGED file
    BY <1>2 DEF Begin, CheckOld, RemoveOld, RenameLive, Goto
  <2>2. Before(f)' \subseteq Before(f) /\ After(f)' \subseteq After(f)
    BY <1>2 DEF Begin, CheckOld, RemoveOld, RenameLive, Goto, Return, Before,
                After, TypeOK
  <2> QED BY <1>1, <2>1, <2>2
<1>3. ASSUME NEW w \in Writers, Fail(w), UNCHANGED file
      PROVE  Total(file'[f].size, Before(f)', After(f)') <= MostSize
  <2>1. f \in {live, old} \ {None}
    BY <1>3 DEF Fail
  <2>2. Before(f)' \subseteq Before(f) /\ After(f)' \subseteq After(f)
    BY <1>3 DEF Fail, Return, Before, After, TypeOK
  <2> QED BY <1>1, <1>3, <2>1, <2>2
<1>4. ASSUME NEW w \in Writers, Fail(w), ~UNCHANGED file
      PROVE  Total(file'[f].size, Before(f)', After(f)') <= MostSize
  BY <1>4, DebtWrite DEF Fail
<1>5. CASE Crash
  BY <1>1, <1>5 DEF Crash, Before, After
<1>6. CASE UNCHANGED vars
  BY <1>1, <1>6 DEF vars, Before, After
<1> QED
  BY <1>2, <1>3, <1>4, <1>5, <1>6, DebtMeasure, DebtOpen, DebtWrite DEF Next, Step

\* Retention is bounded: however many bindings append at once, none waiting for
\* another, a log outgrows the limit by at most one record of every other one, and
\* one more for each time that its size could not be read.
THEOREM SizeIsBounded == Spec => []SizeBounded
<1>1. Init => DebtInv
  BY DEF Init, DebtInv
<1>2. TypeOK /\ TypeOK' /\ DebtInv /\ [Next]_vars => DebtInv'
  BY DebtNext
<1>3. TypeOK /\ DebtInv => SizeBounded
  <2> SUFFICES ASSUME TypeOK, DebtInv, NEW f \in {live, old} \ {None}
               PROVE  file[f].size <= MostSize
    BY DEF SizeBounded, MostSize
  <2>1. f \in Files /\ file[f].size \in Nat
    BY DEF TypeOK
  <2>2. Before(f) \in SUBSET Writers /\ After(f) \in SUBSET Writers
    BY DEF Before, After
  <2>3. Cardinality(Before(f)) \in Nat /\ Cardinality(After(f)) \in Nat
    BY <2>2, WriterSets
  <2>4. (RecordSize + 1) * Cardinality(Before(f)) \in Nat
    BY <2>3
  <2>5. Total(file[f].size, Before(f), After(f)) <= MostSize
    BY DEF DebtInv
  <2>6. file[f].size <= Total(file[f].size, Before(f), After(f))
    BY <2>1, <2>3, <2>4 DEF Total
  <2>7. /\ Total(file[f].size, Before(f), After(f)) \in Int
        /\ MostSize \in Int
    BY <2>1, <2>2, BlindType, TotalType
  <2> QED BY <2>1, <2>5, <2>6, <2>7
<1> QED BY <1>1, <1>2, <1>3, LogTypeCorrect, PTL DEF Spec
=============================================================================
