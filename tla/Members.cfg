\* Whitelist, leave and link: safety.
SPECIFICATION Spec
CONSTANTS
    w1 = w1  w2 = w2  u1 = u1  u2 = u2  g1 = g1  g2 = g2  t1 = t1  t2 = t2  None = None
    Parts = {"names", "claims", "legacy", "leaves", "again", "rivals", "moves", "turns", "left"}
CHECK_DEADLOCK FALSE
SYMMETRY Symmetric
INVARIANTS TypeOK LeaveFinal PlaytimeExact
PROPERTIES NamesSafe CleanupExact
