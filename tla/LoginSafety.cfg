SPECIFICATION Spec
CONSTANTS
    s1 = s1
    s2 = s2
    u1 = u1
    NoUser = NoUser
    Users <- OneUser
    Sessions <- TwoSessions
    MaxClients = 2
    MaxFailedAttempts = 1
    Block = 1
    WindowSteps = 1
    MaxTokensPerUser = 1
    MaxTime = 1
    MaxSecrets = 2
    MaxTokens = 2
SYMMETRY SessionSymmetry
INVARIANTS
    CodeOpensOnce
    OnlyEnabledAccounts
    EarnedByStoredSecret
    OffersCurrentSecret
