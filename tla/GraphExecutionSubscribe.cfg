SPECIFICATION Spec
CONSTANTS
    Mechanisms = {"RUNS"}
    Messages = {"big", "a", "b"}
    Size <- MCSize
    Configs <- MCConfigs
    HasAsyncStage = TRUE
    Pools = {1, 2, 3}
    MaxStops = 1
    Terminals = {"t"}
    Emitters = {"e", "f"}
    Failures = {"EIO", "EPROTO"}
    Boundaries = {1, 2, 3}
    Capacity <- MCCapacity
    Runs = {"p", "q", "u", "o"}
    Nested = {"o"}
    Reach <- MCReach
    Path <- MCPath
    TimesOut = TRUE
    Stages <- MCStages
    Plans <- MCPlans
    FlowRunSet = {"c", "d"}
    Kind <- MCKind
    Timed = {}
    SubscribeFailsWhen = {"NO", "DONE", "PICKED"}
    RunCapacity = 2
    Values = 1
    Offers <- MCOffers
    NoOffer = NoOffer
    Ids = {1, 2}
    Tokens = {1, 2}
    DrainErrors = {"EIO"}
    MaxWorkers = 2
    DrainConfigs <- MCDrainConfigs
    MaxFaults = 1
    Identities = {i1, i2}
    Devices = {d1, d2}
CHECK_DEADLOCK FALSE
INVARIANT ActiveExact
