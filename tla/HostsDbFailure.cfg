SPECIFICATION Spec
CONSTANTS
    c1 = c1
    c2 = c2
    c3 = c3
    t1 = t1
    t2 = t2
    Conns <- TwoConns
    TempIds <- OneTemp
    MaxPermanent = 1
    MaxKeys = 1
    MaxIdRequests = 2
    MaxOffers = 0
    DbMayFail = TRUE
INVARIANTS
    RemovedHostUnreachable
