SPECIFICATION Spec
CONSTANTS
    Items <- OneDirectory
    Children <- Tree
    Size <- Sizes
    RemovesOpenFiles = FALSE
    MaxTransfers = 1
    MaxFaults = 0
CHECK_DEADLOCK FALSE
INVARIANTS
    ReleasedBuilderUnused
