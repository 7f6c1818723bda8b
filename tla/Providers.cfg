\* A credential of two chunks, pages of two out of four versions, files of two
\* lines.
CONSTANTS
    Chunks = 2
    MaxTokens = 3
    MaxTrouble = 2
    MaxId = 4
    MaxSecond = 2
    PageSize = 2
    MAX_PAGES = 3
    Keys = {"a", "export"}
    Values = {"s1", "s2", "s3"}
    Unfit = {"s3"}
    Opening = {"s2"}
    MaxLines = 2
SPECIFICATION Spec
INVARIANTS
    CredentialReadable
    AnswersAreKept
    VersionIsNewest
PROPERTIES
    OthersAreKept
CHECK_DEADLOCK FALSE
