\* A name that only Nitrado knows, no failure.
SPECIFICATION FairSpec
CONSTANTS
    w1 = w1
    w2 = w2
    Workers = {w1}
    MaxAttempts = 9
    Scopes = {"NONE"}
    Rows = {"NONE"}
    AddJobs = FALSE
    Returns = FALSE
    MaxLeaves = 1
    MaxAdds = 0
    MaxConnects = 0
    MaxFaults = 0
CHECK_DEADLOCK FALSE
PROPERTIES LeaveFinishes
