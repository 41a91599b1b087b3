SPECIFICATION FairSpec
CONSTANTS
    Items <- OneDirectory
    Children <- Tree
    Size <- Sizes
    RemovesOpenFiles = FALSE
    MaxTransfers = 2
    MaxFaults = 1
CHECK_DEADLOCK FALSE
INVARIANTS
    NoTruncatedFile
    ConfirmedFileKept
PROPERTIES
    OldKeptUnlessReplaced
    CancelEnds
