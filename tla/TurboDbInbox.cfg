SPECIFICATION Spec
CONSTANTS
    Processes = {"p1", "p2"}
    Threads = {"worker", "producer", "successor"}
    ProcessOf <- MCProcessOf
    Does <- MCDoes
    Offers <- MCOffers
    NoOffer = NoOffer
    Errors = {"ERROR"}
    Connections = 1
    MaxRecords = 2
    MaxTotalBytes = 2
    MaxRecordBytes = 1
    MaxClaims = 1
    I64Max = 3
    FirstGeneration = 1
INVARIANTS
    PreflightPasses
    OnlyCurrentOwnerWrites
    LeasesAreClaims
PROPERTIES
    ImplementsContract
CHECK_DEADLOCK FALSE
