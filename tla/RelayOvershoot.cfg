SPECIFICATION Spec
CONSTANTS
    c1 = c1
    c2 = c2
    c3 = c3
    s1 = s1
    s2 = s2
    MaxPeerCount = 2
    MaxKeys = 3
    Conns <- TwoConns
    MaxPending = 2
    Secrets <- OneSecret
    NoSecret = NoSecret
    MaxCommands = 1
SYMMETRY Symmetry2
INVARIANTS
    CapacityRespected
