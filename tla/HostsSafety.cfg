SPECIFICATION Spec
CONSTANTS
    c1 = c1
    c2 = c2
    c3 = c3
    t1 = t1
    t2 = t2
    Conns <- ThreeConns
    TempIds <- TwoTemps
    MaxPermanent = 2
    MaxKeys = 2
    MaxIdRequests = 2
    MaxOffers = 1
    DbMayFail = FALSE
SYMMETRY Symmetry32
INVARIANTS
    IndexNeverDangles
    PublishedExactly
    RemovedHostUnreachable
    TempIdsUnique
    PermanentIdsFixed
    OfferReachesItsHost
PROPERTIES
    NoOfflineGap
