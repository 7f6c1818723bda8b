\* A sync of one entry while it is edited, backed up and recovered: one failure,
\* crash or lost file.
CONSTANTS
    desk = desk
    cli = cli
    ui = ui
    cmd = cmd
    sync = sync
    i1 = i1
    i2 = i2
    x1 = x1
    x2 = x2
    None = None
    Handles = {desk, cli}
    Editors = {ui, cmd}
    Readers = {sync}
    HandleOf <- DeskAndCommand
    Ids = {i1}
    Values = {x1, x2}
    Ops = {"create", "put", "backup", "recover"}
    MaxVersion = 2
    MaxSalt = 2
    MaxFaults = 1
SPECIFICATION Spec
SYMMETRY Interchangeable
INVARIANTS
    ReadsAreTrue
    FilesAreSound
    MemoryWasSaved
PROPERTIES
    BackupsStay
CHECK_DEADLOCK FALSE
