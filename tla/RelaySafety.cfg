SPECIFICATION Spec
CONSTANTS
    c1 = c1
    c2 = c2
    c3 = c3
    s1 = s1
    s2 = s2
    MaxPeerCount = 2
    MaxKeys = 3
    Conns <- ThreeConns
    MaxPending = 3
    Secrets <- OneSecret
    NoSecret = NoSecret
    MaxCommands = 0
SYMMETRY Symmetry3
INVARIANTS
    OneTimeKey
    NoMissedPairing
    SessionAccounting
    PoolWithinCapacity
    NoCapacityLeak
    NoStrandedKey
