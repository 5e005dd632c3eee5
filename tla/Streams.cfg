SPECIFICATION Spec
CONSTANTS
    MaxCmds = 2
    MaxBlocks = 3
    MaxPoint = 2
    Cap = 2
    Faults = TRUE
    NoFile = NoFile
INVARIANTS
    InStep
    StoredIsSent
    NothingLeft
    GotWhole
PROPERTIES
    MovedIsDelivered
    EveryTransferEnds
CHECK_DEADLOCK FALSE
