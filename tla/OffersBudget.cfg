SPECIFICATION OffersSpec
CONSTANTS
    c1 = c1
    c2 = c2
    Conns <- TwoConns
    MaxRelays = 2
    MaxKeysPerSession = 2
    MaxKeysTotal = 4
    MaxKeysPerPool = 2
    Capacity = 2
    MaxKeyId = 2
    MaxSessions = 2
    Window = 2
    MaxOffers = 2
INVARIANTS
    UnusedOffersWithinBudget
