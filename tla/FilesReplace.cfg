SPECIFICATION Spec
CONSTANTS
    Items <- OneDirectory
    Children <- Tree
    Size <- Sizes
    RemovesOpenFiles = TRUE
    MaxTransfers = 2
    MaxFaults = 1
CHECK_DEADLOCK FALSE
INVARIANTS
    ConfirmedFileKept
