\* Two clients of one file in OneDrive: two saved edits and a change of the tag
\* alone, or one edit and two such changes.
CONSTANTS
    c1 = c1
    c2 = c2
    i1 = i1
    None = None
    Clients = {c1, c2}
    Ids = {i1}
    Pinned = FALSE
    MaxRev = 3
    MaxTag = 4
SPECIFICATION Spec
SYMMETRY Interchangeable
INVARIANTS
    TypeOK
    CacheIsTrue
    EditsFollowEachOther
    EditsWhatWasShown
PROPERTIES
    AnswersAreTrue
    ImplementsShared
