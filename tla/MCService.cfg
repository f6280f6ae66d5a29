SPECIFICATION LiveSpec
CONSTANTS
    None = None
    ALL = ALL
    StreamLimit = 8
    PublicLimit = 3
    Scale = 2
    MaxDecimal = 127
    Settings <- MCSettings
    Listings <- MCListings
    MaxDelay = 3
    Amounts <- MCAmounts
    Forms = {"combined", "envelope", "raw", "trailing", "broken"}
INVARIANTS TypeOK SubscribedOnce LoadBound SettingsUsable RejectedBeforeCollecting RowsFaithful StoredOnce
PROPERTY EventuallyUp
CHECK_DEADLOCK FALSE
