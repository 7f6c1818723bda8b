\* Two bindings, files of two lines, one failure or crash.
CONSTANTS
    w1 = w1
    w2 = w2
    f1 = f1
    f2 = f2
    f3 = f3
    f4 = f4
    None = None
    Writers = {w1, w2}
    Files = {f1, f2, f3, f4}
    RecordSize = 2
    Limit = 6
    ReadLines = 2
    MaxFaults = 1
SPECIFICATION Spec
INVARIANTS
    TypeOK
    SizeBounded
PROPERTIES
    ReaderRecovers
    HistoryKept
