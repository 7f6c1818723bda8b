\* A whole file and a pointer into another; the scheduler and one client.
CONSTANTS
    b1 = b1
    b2 = b2
    x1 = x1
    x2 = x2
    c1 = c1
    None = None
    Bindings = {b1, b2}
    Clients = {c1}
    Targets = {x1, x2}
    TargetOf <- TwoFiles
    Style <- WholePointer
    Policy <- DisableAlert
    Docker = {b1}
    Versioned = {b1}
    MaxVersion = 2
    MaxFaults = 1
SPECIFICATION Spec
INVARIANTS
    SingleFlight
    PayloadOnDemand
    DisabledNeverDelivers
PROPERTIES
    OnlyEnableReenables
    WritesNeverRegress
