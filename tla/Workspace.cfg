CONSTANTS
    Bindings = {"b1", "b2"}
    Names = {"n1", "n2"}
    DriveNames = {"n2"}
    Locations <- Places
    Drives = {"gdrive"}
    Refs <- AzureAndDrive
    Retries = 1
    None = None
    MaxChanges = 3
    MaxFaults = 1
SPECIFICATION FairSpec
INVARIANTS
    TypeOK
    CanOpen
    AppliedIsForBinding
    OneScheduleEach
    SelectedIsThere
PROPERTIES
    NeverRepointed
    SyncsKeepComing
