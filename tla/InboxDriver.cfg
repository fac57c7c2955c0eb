SPECIFICATION Spec
CONSTANTS
    Offers <- MCOffers
    NoOffer = NoOffer
    Ids = {1}
    Tokens = {1, 2}
    Errors = {"EIO", "ECANCELED"}
    Drivers = {"d1", "d2", "d3"}
    HostOf <- MCHostOf
    MaxOwners = 2
    MaxFaults = 2
INVARIANTS
    NoRunAfterSettlement
    ReportsTrue
    ClaimsAreHeld
PROPERTIES
    ClaimsSettle
CHECK_DEADLOCK FALSE
