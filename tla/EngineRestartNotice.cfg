\* One Docker binding, called by the scheduler and by a client.
CONSTANTS
    b1 = b1
    b2 = b2
    x1 = x1
    x2 = x2
    c1 = c1
    None = None
    Bindings = {b1}
    Clients = {c1}
    Targets = {x1}
    TargetOf <- Alone
    Style <- AlonePair
    Policy <- AloneDisable
    Docker = {b1}
    Versioned = {b1}
    MaxVersion = 2
    MaxFaults = 1
SPECIFICATION Spec
INVARIANT RestartNoticeKept
