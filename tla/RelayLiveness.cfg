SPECIFICATION FairSpec
CONSTANTS
    c1 = c1
    c2 = c2
    c3 = c3
    s1 = s1
    s2 = s2
    MaxPeerCount = 1
    MaxKeys = 2
    Conns <- TwoConns
    MaxPending = 2
    Secrets <- TwoSecrets
    NoSecret = NoSecret
    MaxCommands = 1
PROPERTIES
    ImplementsOneTimeKeys
    HandedOutKeyRetires
    PendingSlotFreed
