\* Radar bans, restart plans, Keep-Online and the mirror.
SPECIFICATION MCSpec
CONSTANTS
    p1 = p1  s1 = s1  s2 = s2  e1 = e1  w1 = w1  w2 = w2  c1 = c1  c2 = c2  None = None
    Parts = {"radar", "plans", "moves", "keep", "mirror"}
    Players = {p1}
    Services = {s1, s2}
    First = s1
    Offences = {e1}
    MaxAttempts = 2
    MaxSaves = 2
    MaxMoves = 2
    MaxCommands = 2
    MaxFaults = 2
    MaxEvents = 2
CHECK_DEADLOCK FALSE
INVARIANTS TypesOK BanStaysHome
PROPERTIES OffencesSettle PlansSettle KeepsOnline KnowledgeSafe
