\* Whitelist, leave and link: liveness.
SPECIFICATION FairSpec
CONSTANTS
    w1 = w1  w2 = w2  u1 = u1  u2 = u2  g1 = g1  g2 = g2  t1 = t1  t2 = t2  None = None
    Parts = {"intents", "drifts", "banned", "finish", "repairs"}
CHECK_DEADLOCK FALSE
PROPERTIES NamesSettle LeaveFinishes LinkEarns
