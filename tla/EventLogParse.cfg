\* Two bindings, files of two lines, no failure and no crash.
CONSTANTS
    w1 = w1
    w2 = w2
    f1 = f1
    f2 = f2
    f3 = f3
    f4 = f4
    None = None
    Writers = {w1, w2}
    Files = {f1, f2, f3, f4}
    RecordSize = 2
    Limit = 6
    ReadLines = 2
    MaxFaults = 0
SPECIFICATION Spec
INVARIANT EventsParse
