SPECIFICATION Spec
CONSTANTS
    Callers = {c1, c2}
    Offers <- MCOffers
    NoOffer = NoOffer
    MaxRecords = 2
    MaxTotalBytes = 3
    MaxRecordBytes = 3
    MaxClaims = 1
    U64Max = 3
    SizeMax = 3
SYMMETRY CallerSymmetry
INVARIANTS
    TypeOK
    OneRecordPerAdmission
    ReceiptsHold
    CountersAgree
    BytesAgree
    PartitionFifo
PROPERTIES
    ImplementsContract
CHECK_DEADLOCK FALSE
