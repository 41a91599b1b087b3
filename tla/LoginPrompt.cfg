SPECIFICATION FairSpec
CONSTANTS
    s1 = s1
    s2 = s2
    u1 = u1
    NoUser = NoUser
    Users <- OneUser
    Sessions <- OneSession
    MaxClients = 2
    MaxFailedAttempts = 2
    Block = 2
    WindowSteps = 1
    MaxTokensPerUser = 1
    MaxTime = 3
    MaxSecrets = 1
    MaxTokens = 1
INVARIANTS
    GuessesBounded
PROPERTIES
    BlockNeverStretched
    PromptEnds
