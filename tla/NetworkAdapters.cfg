SPECIFICATION Spec
CONSTANTS
    Mechanisms <- MCMechanisms
    None = None
    Messages = {1, 2, 3}
    Capacity = 2
    ItemSlots = 1
    Generations = 2
    MaxStarts = 2
    MaxFaults = 1
    Conns = {1, 2, 3}
    MaxDemand = 3
    MaxId = 2
    Tags = {1, 2, 3}
    Settings <- MCSettings
INVARIANTS
    SinkClaimsSettle
    SourceDelivers
    RepliesEndOnce
    PreflightPredictsOpen
\* An adapter that was destroyed, and one that may not be started again, stop.
CHECK_DEADLOCK FALSE
