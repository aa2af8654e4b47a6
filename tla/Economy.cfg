\* The black market, the lottery, the rewards, the logs and a feed.
SPECIFICATION MCSpec
CONSTANTS
    None = None
    l1 = l1
    l2 = l2
    k1 = k1
    k2 = k2
    k3 = k3
    a = a
    b = b
    e1 = e1
    e2 = e2
    e3 = e3
    S1 = S1
    S2 = S2
    Parts = {"market", "round", "tickets", "kills", "cuts", "logs", "rebinds", "sessions", "feed"}
    Listings = {l1, l2}
    Keys = {k1, k2}
    Orders = {k1}
    Basket <- MCBasket
    Price <- MCPrice
    Money = 4
    MaxRequests = 2
    MaxFaults = 1
CHECK_DEADLOCK FALSE
INVARIANTS TypesOK VendorSound RoundSound LimitsKept InOrder
PROPERTIES EscrowImplemented PotKept OutcomesTold EventsSettle
