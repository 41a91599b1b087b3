SPECIFICATION FairSpec
CONSTANTS
    direct = direct
    stun = stun
    NoAttempt = NoAttempt
    Attempts <- TwoAttempts
    Direct <- direct
    MaxHostData = 2
    MaxClientData = 2
CHECK_DEADLOCK FALSE
INVARIANTS
    NothingMissing
    SameAttempt
    ClosedTcpIsSpent
PROPERTIES
    ImplementsPipes
    HandoverCompletes
    EndsTogether
