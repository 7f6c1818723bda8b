CONSTANTS
    Bindings = {"b1"}
    Names = {"n1", "n2"}
    DriveNames = {"n1", "n2"}
    Locations <- Places
    Drives = {"gdrive"}
    Refs <- AzureAndDrive
    Retries = 1
    None = None
    MaxChanges = 2
    MaxFaults = 0
SPECIFICATION Spec
INVARIANTS
    NoAlias
