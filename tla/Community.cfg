\* Polls, giveaways and tickets.
SPECIFICATION MCSpec
CONSTANTS
    None = None
    u1 = u1  u2 = u2  o1 = o1  o2 = o2  t1 = t1  t2 = t2
    Users = {u1, u2, u3}
    Tasks = {t1, t2}
    WinnerCount = 1
    MaxEntries = 3
    MaxEnds = 1
    MaxFaults = 1
    Parts = {"clicks", "reactions", "draw", "open", "undo", "close", "users"}
CHECK_DEADLOCK FALSE
INVARIANTS TypesOK PollSound
PROPERTIES TicketsSound DrawFair UsersExact RoundsEnd
