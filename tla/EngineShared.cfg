\* Two keys of one env file; the scheduler's two tasks, no client.
CONSTANTS
    b1 = b1
    b2 = b2
    x1 = x1
    x2 = x2
    c1 = c1
    None = None
    Bindings = {b1, b2}
    Clients = {}
    Targets = {x1}
    TargetOf <- OneFile
    Style <- PairStyle
    Policy <- RecreateDisable
    Docker = {b1}
    Versioned = {b1}
    MaxVersion = 2
    MaxFaults = 1
SPECIFICATION FairSpec
PROPERTIES
    CallsReturn
    Converges
    ImplementsDelivery
INVARIANTS
    TypeOK
    TargetSerialized
    AppliedWasWritten
    NoLostUpdate
