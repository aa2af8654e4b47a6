\* Bans, on three small instances.
SPECIFICATION MCFairSpec
CONSTANTS
    b1 = b1
    Bans = {b1}
    MaxAttempts = 2
    MaxBans = 2
    Temporary = TRUE
    Unbans = TRUE
    Catalog = TRUE
    MaxEdits = 1
    MaxFaults = 1
CHECK_DEADLOCK FALSE
INVARIANT TypeOK
PROPERTIES BannedBeforeUnlisted BansSettle
