SPECIFICATION FairSpec
CONSTANTS
    Publishers = {p1, p2}
    Host = "host"
    Operators = {"op1", "op2"}
    Adapters = {1, 2}
    Sources = {1}
    Managed = {1}
    Parallelism = {1, 2}
    MaxGeneration = 4
    DrainTimed = {TRUE, FALSE}
    MaxFaults = 3
INVARIANTS
    PublishersKeepTheirPools
    GateAsCommanded
    AdaptersAccounted
PROPERTIES
    CommandsReturn
CHECK_DEADLOCK FALSE
