\* One job under every fault but a lost session; two jobs of one connection undisturbed.
SPECIFICATION MCSpec
CONSTANTS
    j1 = j1  j2 = j2  c1 = c1  i1 = i1  i2 = i2  t1 = t1  t2 = t2  t3 = t3
    Jobs = {j1, j2}
    Conns = {c1}
    ConnOf <- OneConn
    Instances = {i1, i2}
    Tokens = {t1, t2, t3}
    None = None
    Config = Config
    MaxAttempts = 2
    MaxParallel = 2
    MaxCalls = 1
    MaxFaults = 1
    SessionLoss = FALSE
    TimelyHeartbeats = FALSE
SYMMETRY Symmetric
INVARIANTS TypeOK LeaseOnRunning CallsSerialised
PROPERTIES QueueImplemented
