\* An unban overtaken by the ADD job.
SPECIFICATION Spec
CONSTANTS
    b1 = b1  b2 = b2
    Bans = {b1}
    MaxAttempts = 2
    MaxBans = 1
    Temporary = FALSE
    Unbans = TRUE
    Catalog = TRUE
    MaxEdits = 0
    MaxFaults = 0
CHECK_DEADLOCK FALSE
INVARIANTS DriftVisible
