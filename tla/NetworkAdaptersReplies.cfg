SPECIFICATION PollingSpec
CONSTANTS
    Mechanisms = {"INTAKE"}
    None = None
    Messages = {1, 2, 3}
    Capacity = 2
    ItemSlots = 1
    Generations = 2
    MaxStarts = 2
    MaxFaults = 0
    Conns = {1, 2, 3}
    MaxDemand = 3
    MaxId = 2
    Tags = {1, 2, 3}
    Settings <- MCReplySettings
PROPERTY RepliesLeave
\* An intake that was stopped and destroyed does nothing more.
CHECK_DEADLOCK FALSE
