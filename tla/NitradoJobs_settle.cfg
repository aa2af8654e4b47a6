\* Timely heartbeats and one fault: liveness, and no live execution loses its claim.
SPECIFICATION FairSpec
CONSTANTS
    j1 = j1  j2 = j2  c1 = c1  i1 = i1  i2 = i2  t1 = t1  t2 = t2  t3 = t3
    Jobs = {j1}
    Conns = {c1}
    ConnOf <- OneJob
    Instances = {i1, i2}
    Tokens = {t1, t2}
    None = None
    Config = Config
    MaxAttempts = 2
    MaxParallel = 2
    MaxCalls = 1
    MaxFaults = 1
    SessionLoss = TRUE
    TimelyHeartbeats = TRUE
INVARIANTS HealthyClaimKept LockHolderWorks
PROPERTIES JobsSettle OrphansRecovered
