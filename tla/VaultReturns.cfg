\* Two threads of the window and a vault command: do their calls return?
CONSTANTS
    desk = desk
    cli = cli
    ui = ui
    cmd = cmd
    sync = sync
    i1 = i1
    i2 = i2
    x1 = x1
    x2 = x2
    None = None
    Handles = {desk, cli}
    Editors = {ui, sync, cmd}
    Readers = {}
    HandleOf <- DeskAndCommand
    Ids = {i1}
    Values = {x1}
    Ops = {"create", "remove", "put"}
    MaxVersion = 1
    MaxSalt = 1
    MaxFaults = 1
SPECIFICATION FairSpec
PROPERTIES
    CallsReturn
CHECK_DEADLOCK FALSE
