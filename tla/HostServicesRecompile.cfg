SPECIFICATION Spec
CONSTANTS
    Mechanisms = {"COMPILER"}
    None = None
    MaxFaults = 1
    MaxTime = 5
    SlotCount = 2
    Plugins = {1, 2, 3, 4}
    IdOf <- MCIdOf
    Declared <- MCDeclared
    Offers <- MCOffers
    Snapshots = {1, 2}
    RegistryCapacity = 2
    PlanStages = {1, 2, 3}
    Plans <- MCPlans
    Tasks = {1, 2}
    Workers = {11, 12}
    Pools <- MCPools
    Messages = {1, 2, 3}
    Stores <- MCStores
    Times = {1, 3, 5}
    Watermarks = {4, 5}
    Records = {1, 2}
    BytesOf <- MCBytesOf
    Schedules <- MCSchedules
    DueMinutes = {2, 3, 4, 5}
    Callbacks = {"t1", "t2"}
    PeerIds = {"p", "q", "r"}
    HistoryMax = 10
    Policies <- MCPolicies
    Requests <- MCRequests
    Callers = {"c1", "c2"}
    RegistryScenarios <- MCRegistryScenarios
    GraphTexts <- MCGraphTexts
    LastGeneration = 3
    RulePrograms <- MCRulePrograms
    RuleMessages <- MCRuleMessages
    RuleAuthorities <- MCRuleAuthorities
INVARIANT LeasesHeld
\* The host makes a bounded number of calls.
CHECK_DEADLOCK FALSE
