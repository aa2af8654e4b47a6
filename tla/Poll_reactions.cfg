\* One poll with reactions, its scheduler and its commands.
SPECIFICATION Spec
CONSTANTS
    None = None
    u1 = u1  u2 = u2  o1 = o1  o2 = o2  t1 = t1  t2 = t2
    Users = {u1, u2}
    Options = {o1, o2}
    Tasks = {t1, t2}
    MaxChoices = 1
    Reactions = TRUE
    MaxVotes = 2
    MaxEnds = 0
    MaxFaults = 0
CHECK_DEADLOCK FALSE
INVARIANT CounterExact
