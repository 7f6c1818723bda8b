------------------------------- MODULE EventLog -------------------------------
(***************************************************************************)
(* The event log: append_event of core.rs, called by the syncs of several  *)
(* bindings at once, and its readers in ipc.rs and desktop.rs.             *)
(*                                                                         *)
(* Appends are not serialised: the gate around a sync is per binding.  A   *)
(* file is what a reader can tell of it: which of its lines parse, what    *)
(* follows the last newline, and its size.  A file that is renamed or      *)
(* removed lives on for those who have it open.                            *)
(***************************************************************************)
EXTENDS Integers, FiniteSets, Sequences

CONSTANTS
    Writers,     \* the bindings: each has at most one append under way
    Files,       \* identities of files, enough for all that exist at once
    None,        \* no file
    RecordSize,  \* the size of a record; a newline's is 1
    Limit,       \* LIMIT: the size at which the log is rotated
    ReadLines,   \* how many lines from the end a reader parses (100)
    MaxFaults    \* bound: failed operations and crashes

ASSUME FilesAssumption ==
    /\ IsFiniteSet(Writers) /\ IsFiniteSet(Files) /\ None \notin Files
    /\ Cardinality(Files) >= Cardinality(Writers) + 2
ASSUME SizesAssumption ==
    /\ RecordSize \in Nat \ {0} /\ ReadLines \in Nat \ {0}
    /\ Limit \in Nat /\ RecordSize < Limit
    /\ MaxFaults \in Nat

Labels == {"idle", "measure", "checkOld", "removeOld", "rename", "open",
           "record", "newline"}

VARIABLES
    file,    \* per file: its finished lines, its tail and its size
    live,    \* the file named events.ndjson, if any
    old,     \* the file named events.ndjson.1, if any
    handle,  \* per writer: the file it has open
    pc,      \* per writer: where in append_event it is
    blind,   \* history: how often the size of the live file could not be read
    faults

vars == <<file, live, old, handle, pc, blind, faults>>

\* A line or a tail is "good" when it is one record, "bad" when it is anything
\* else, and a tail is "empty" right after a newline.
EmptyFile == [lines |-> <<>>, tail |-> "empty", size |-> 0]

Init ==
    /\ file = [f \in Files |-> EmptyFile]
    /\ live = None /\ old = None
    /\ handle = [w \in Writers |-> None]
    /\ pc = [w \in Writers |-> "idle"]
    /\ blind = 0
    /\ faults = 0

\* Plausible bugs: each replaces the definition it names, to show that the
\* properties notice.
NeverFull(f)      == FALSE                                           \* Full
AlwaysFull(f)     == TRUE                                            \* Full
ForgetsNewline(f) == file[f]                                         \* WithNewline
LeavesOpen(w)     == pc' = [pc EXCEPT ![w] = "idle"] /\ UNCHANGED handle  \* Return

-----------------------------------------------------------------------------
\* One more record and its newline would take the file over the limit.
Full(f) == file[f].size + RecordSize + 1 > Limit

WithRecord(f) ==
    [file[f] EXCEPT !.tail = IF @ = "empty" THEN "good" ELSE "bad",
                    !.size = @ + RecordSize]

WithPartOfRecord(f) ==
    [file[f] EXCEPT !.tail = "bad", !.size = @ + 1]

\* An empty line does not parse either.
WithNewline(f) ==
    [lines |-> Append(file[f].lines, IF file[f].tail = "good" THEN "good" ELSE "bad"),
     tail  |-> "empty",
     size  |-> file[f].size + 1]

\* A file nobody can reach any more.
Unused == CHOOSE f \in Files : f \notin {live, old} /\ \A w \in Writers : handle[w] # f

Goto(w, from, to) == pc[w] = from /\ pc' = [pc EXCEPT ![w] = to]

\* append_event returns, with or without success; the file is closed.
Return(w) ==
    /\ pc' = [pc EXCEPT ![w] = "idle"]
    /\ handle' = [handle EXCEPT ![w] = None]

Begin(w) ==
    /\ Goto(w, "idle", "measure")
    /\ UNCHANGED <<file, live, old, handle, blind, faults>>

Measure(w) ==
    /\ Goto(w, "measure", IF live # None /\ Full(live) THEN "checkOld" ELSE "open")
    /\ UNCHANGED <<file, live, old, handle, blind, faults>>

\* The size of a log that is there cannot be read: the log counts as not full.
MeasureFails(w) ==
    /\ faults < MaxFaults /\ faults' = faults + 1
    /\ live # None
    /\ Goto(w, "measure", "open")
    /\ blind' = blind + 1
    /\ UNCHANGED <<file, live, old, handle>>

CheckOld(w) ==
    /\ Goto(w, "checkOld", IF old # None THEN "removeOld" ELSE "rename")
    /\ UNCHANGED <<file, live, old, handle, blind, faults>>

\* Somebody else may have removed it first.
RemoveOld(w) ==
    /\ pc[w] = "removeOld"
    /\ \/ old = None /\ Return(w)
       \/ old # None /\ Goto(w, "removeOld", "rename") /\ UNCHANGED handle
    /\ old' = None
    /\ UNCHANGED <<file, live, blind, faults>>

\* Somebody else may have renamed it first; what now has the old name is lost.
RenameLive(w) ==
    /\ pc[w] = "rename"
    /\ \/ live = None /\ Return(w) /\ UNCHANGED <<live, old>>
       \/ /\ live # None
          /\ Goto(w, "rename", "open")
          /\ old' = live /\ live' = None
          /\ UNCHANGED handle
    /\ UNCHANGED <<file, blind, faults>>

Open(w) ==
    LET f == IF live = None THEN Unused ELSE live
    IN  /\ Goto(w, "open", "record")
        /\ live' = f
        /\ handle' = [handle EXCEPT ![w] = f]
        /\ file' = IF live = None THEN [file EXCEPT ![f] = EmptyFile] ELSE file
        /\ UNCHANGED <<old, blind, faults>>

WriteRecord(w) ==
    /\ Goto(w, "record", "newline")
    /\ file' = [file EXCEPT ![handle[w]] = WithRecord(handle[w])]
    /\ UNCHANGED <<live, old, handle, blind, faults>>

WriteNewline(w) ==
    /\ pc[w] = "newline"
    /\ file' = [file EXCEPT ![handle[w]] = WithNewline(handle[w])]
    /\ Return(w)
    /\ UNCHANGED <<live, old, blind, faults>>

\* An operation fails; a write may have stored a part.
Fail(w) ==
    /\ faults < MaxFaults /\ faults' = faults + 1
    /\ pc[w] \in {"removeOld", "rename", "open", "record", "newline"}
    /\ \/ UNCHANGED file
       \/ /\ pc[w] = "record"
          /\ file' = [file EXCEPT ![handle[w]] = WithPartOfRecord(handle[w])]
    /\ Return(w)
    /\ UNCHANGED <<live, old, blind>>

Crash ==
    /\ faults < MaxFaults /\ faults' = faults + 1
    /\ pc' = [w \in Writers |-> "idle"]
    /\ handle' = [w \in Writers |-> None]
    /\ UNCHANGED <<file, live, old, blind>>

Step(w) ==
    \/ Measure(w) \/ MeasureFails(w) \/ CheckOld(w) \/ RemoveOld(w) \/ RenameLive(w) \/ Open(w)
    \/ WriteRecord(w) \/ WriteNewline(w) \/ Fail(w)

Next == (\E w \in Writers : Begin(w) \/ Step(w)) \/ Crash

Spec == Init /\ [][Next]_vars

-----------------------------------------------------------------------------
\* What Events answers from: the last lines of events.ndjson, whatever follows
\* the last newline included.
Lines(f) == IF file[f].tail = "empty" THEN file[f].lines
                                      ELSE Append(file[f].lines, file[f].tail)
LastLines(f) ==
    {i \in DOMAIN Lines(f) : i > Len(Lines(f)) - ReadLines}
Readable == live # None => \A i \in LastLines(live) : Lines(live)[i] = "good"

\* Every variable has its type, and a writer at a write has the file open.
TypeOK ==
    /\ file \in [Files -> [lines : Seq({"good", "bad"}),
                          tail  : {"empty", "good", "bad"},
                          size  : Nat]]
    /\ live \in Files \cup {None} /\ old \in Files \cup {None}
    /\ pc \in [Writers -> Labels]
    /\ handle \in [Writers -> Files \cup {None}]
    /\ \A w \in Writers : handle[w] # None <=> pc[w] \in {"record", "newline"}
    /\ faults \in 0..MaxFaults /\ blind \in 0..faults

\* Retention is bounded although the size is measured before the file is opened
\* and the writers do not wait for each other: a log outgrows the limit by at
\* most one record of every other writer, and one more for each time that its size
\* could not be read.
SizeBounded ==
    \A f \in {live, old} \ {None} :
        file[f].size <= Limit + (Cardinality(Writers) - 1 + blind) * (RecordSize + 1)

\* From some time on only w appends, and it keeps appending.
Alone(w) ==
    /\ <>[](\A u \in Writers \ {w} : pc[u] = "idle")
    /\ []<>(pc[w] = "record") /\ []<>(pc[w] = "idle")

\* A line spoilt by a crash, a failed write or two interleaved appends does not
\* spoil the log for good: once one binding appends alone, the Events request
\* and the Activity page work again.
ReaderRecovers == \A w \in Writers : Alone(w) => <>[]Readable

\* A rotated log is a full one, once one binding appends alone: no rotation
\* throws away the history for a nearly empty file.
HistoryKept ==
    \A w \in Writers :
        Alone(w) => <>[](old # None => file[old].size + RecordSize + 1 > Limit)

\* Requirement 7: events are parseable NDJSON (docs/requirements.md:57); checked
\* where nothing fails.
EventsParse == Readable
=============================================================================
