\* A window and a vault command edit two entries, back the vault up and recover
\* it: two failures, crashes or lost files.
CONSTANTS
    desk = desk
    cli = cli
    ui = ui
    cmd = cmd
    sync = sync
    i1 = i1
    i2 = i2
    x1 = x1
    x2 = x2
    None = None
    Handles = {desk, cli}
    Editors = {ui, cmd}
    Readers = {}
    HandleOf <- TwoHandles
    Ids = {i1, i2}
    Values = {x1}
    Ops = {"create", "put", "remove", "import", "backup", "recover"}
    MaxVersion = 2
    MaxSalt = 1
    MaxFaults = 2
SPECIFICATION Spec
SYMMETRY EntriesAndSides
INVARIANTS
    TypeOK
PROPERTIES
    ImplementsStore
CHECK_DEADLOCK FALSE
