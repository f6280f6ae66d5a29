SPECIFICATION Spec
CONSTANTS
    None = None
    ALL = ALL
    StreamLimit = 1024
    PublicLimit = 128
    Scale = 2
    MaxDecimal = 127
    Settings <- MCManySymbols
    Listings <- MCNoListings
    MaxDelay = 30
    Amounts = {}
    Forms = {}
INVARIANT WithinLimit
CHECK_DEADLOCK FALSE
